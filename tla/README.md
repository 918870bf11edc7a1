# Zanarkand in TLA+

A model of zanarkand, a Go library that captures the network traffic of a game,
reassembles its TCP streams into *frames*, splits frames into *messages* and
hands those to subscribers. The modules follow the Go source (paths below are
relative to the repository); TLC checks them on small instances and TLAPS proves
the central invariants for every value of the constants.

## The system

| Component | State | Operations | Who touches it |
|---|---|---|---|
| Sniffer life cycle (`sniffer.go`) | `state` under a mutex; `ctx` and `cancel`, plain fields; `dataCh`; the packet channel | `NewSniffer`, `Start`, `Stop`, `IsActive`, `NextFrame`, `ProcessFrames` | the goroutine in `Start`, one per `Subscribe`, any client goroutine that calls `Stop` or cancels a context |
| Frame reassembly (`reassembler.go`, `frame.go`) | per TCP flow a reader with a 128 KiB buffer; `dataCh`, `errCh` | `New`, `run`, `reportError`, `discardUntilValid`, `Frame.Decode` | one goroutine per flow; the assembler that `Start` calls; `NextFrame` |
| Messages and dispatch (`message.go`, `sniffer.go`) | a `bufio.Reader` over a frame's body | `Decode` of three types, the loop of `ProcessFrames`, handlers | the goroutine in `Subscribe` |
| Subscribers (`subscriber*.go`) | unbuffered channels, opcode set | `Subscribe`, `Close` | the goroutine in `Subscribe`, the client |
| Capture handles (`devices/`) | OS handles | `Open*`, `afpacketCalculateBuffers` | `NewSniffer` |
| Device listing (`devices/device.go`) | none of its own: the system's adapters | `ListDeviceNames`, `FindDeviceByName` | the client, before `NewSniffer` |
| Examples (`examples/*/main.go`) | where `main` is; how the process ends | a goroutine that subscribes, a `select` over channels and signals, a deferred `Close` | |
| Errors, JSON and text output, tracing | none | | |

How they interact. `Start` receives packets and calls the assembler, which
starts a goroutine per flow (`New`) and hands bytes over on an unbuffered
channel; its call returns only when the flow's goroutine has consumed them all.
That goroutine cuts frames out of the bytes and sends them on `dataCh`, one
bounded queue for all flows. `Subscribe` starts the Sniffer if `IsActive` is
false and then loops: `NextFrame` waits for a frame or for `s.ctx.Done()`, and
each message of the frame goes to a handler, which decodes it and sends it on an
unbuffered channel or calls a callback. Several subscribers may share one Sniffer
and its `dataCh`. After a signal an example leaves its loop, closes its
subscriber, and with it the Sniffer, and exits.

What is hard about it: `s.ctx` and `s.cancel` are shared without a lock, and
`NextFrame` reads the context twice; "start unless active" is a check followed
by an act in another goroutine; a chain of blocking hand-overs (client channel,
`dataCh`, stream, assembler, `Start`) decides whether `Stop` works; segments
arrive late, split and lost; header and body of a message are consumed by
different layers, and bodies are slices of a buffer that is read into again;
`Close` closes channels on which another goroutine sends; readers of one Start
outlive it into the next, on the same assembler; a device is listed, looked up
and opened in three steps, between which adapters come and go.

What makes each component correct:

* Life cycle: `Stop` reaches the Start that captures; `IsActive` tells the
  truth; nobody waits for a context that nobody will cancel; no panic; a stopped
  `Start` and its readers return.
* Reassembly: each flow's frames come out whole, in order, once; frames handed
  over are delivered; readers end, and none before its connection; the
  assembler's calls are synchronous and wait only for a reader that will answer.
* Dispatch: one call of the handler for each message; `Decode` reads one
  message; the messages that pass the filter are delivered; a body that has been
  handed out keeps its bytes.
* Subscribers: `Subscribe` blocks until it is stopped and then returns, also
  when another subscriber waits for its client; no send on a closed channel.
* Handles: failed calls release what they have opened; ring buffers fit.
* Examples: a signal ends the process.

## Modules

| Module | Models | Read it with |
|---|---|---|
| `Sniffer` | the life cycle: one action per step of `Start`, `Stop`, `NextFrame`, `ProcessFrames` and the start of `Subscribe` | `sniffer.go`, `subscriber_gameevent.go:33-38` |
| `SnifferProofs` | theorems about `Sniffer` | |
| `OrderedFrames` | abstract: what reassembly promises `NextFrame` | `sniffer.go:234` |
| `FrameStream` | bytes of the flows to `NextFrame`; implements `OrderedFrames` | `reassembler.go`, `frame.go` |
| `FrameStreamProofs` | types of `FrameStream`, `NothingPending` and `WaitsForReader` | |
| `FrameDeliveryProofs` | order of what it delivers, and the cost of losses | |
| `FrameRefinementProofs` | that it implements `OrderedFrames`, `EndsWithConnection`, `HandedOn` | |
| `Dispatch`, `DispatchProofs` | the body of one frame in `ProcessFrames` and a handler | `sniffer.go:265-326`, `message.go` |
| `Subscriber` | extends `Sniffer`: the handlers of any number of subscribers on it, their channels, `Close` | `subscriber_*.go` |
| `Session` | extends `Subscriber` by a program: any client, or the `main` of an example | `examples/*/main.go` |
| `SessionProofs` | theorems about `Session`, and through it about `Subscriber` | |
| `AFPacketBuffers` | the arithmetic of `afpacketCalculateBuffers` | `devices/afpacket.go` |
| `DeviceOpen`, `DeviceOpenProofs` | opening a capture handle; extends `AFPacketBuffers` | `devices/handle.go`, `devices/*_linux.go` |
| `DeviceLookup`, `DeviceLookupProofs` | how a client comes to a device; extends `DeviceOpen` | `devices/device.go` |
| `MC...` | instances for TLC | |

`PROJECT.json` maps every definition to its lines. Definitions whose comment
begins with "Mutated" are not part of the model: each is a plausible bug that
could stand in for the definition after it, kept to show that a property would
notice.

### Sniffer

`run[r]` is the place of a call of `Start` and `reader[q]` that of a call of
`Subscribe`. A critical section of `s.mu` is one step, since nothing else
touches `state`. Accesses to `s.ctx` and `s.cancel` are steps of their own:
`SetCtx` and `SetCancel` (the two stores of line 172), `DeferCancel` (line 173
reads the field back), `EnterSelect` and `EnterNextFrame` (evaluating
`s.ctx.Done()`), `SeeDoneNextFrame` (`s.ctx.Err()` reads the field again). Each
`Start` derives one context, named like the run. Such accesses are data races in
Go; the model gives every interleaving of whole loads and stores, not torn
values. Reassembly is reduced to the number of frames each call of the assembler
completes (`out`) or holds back (`held`).

`Usage` says which liberties the client takes: `overlap` (a `Start` while
another has not returned), `eager` (`Subscribe` on a Sniffer that does not run,
the documented way), `linger` (a `Start` while a `Subscribe` has not returned).

### FrameStream

The bytes of a flow are cut into cells, known by their numbers in the flow, and
`FrameEnds` tells which of them end a frame: the first cell of a frame holds the
magic number, the second the length field, the others the body. A segment is a
first and a last number, a buffer or a packet a sequence of numbers. What is
read as a length from a cell that holds none is arbitrary, but the same each time
it is read (`reading`, one of `Readings`): after a length of zero the reader finds
the same bytes again and queues empty packets without end. `Synced` is
`discardUntilValid`; `Fill` is the read
that a `Peek` makes; `QueueFrame` and `ShortRead` are the two outcomes of line
73 (a `Read` returns at most what the buffer holds). `link` and `at` model the
rendezvous of `tcpreader.ReaderStream` with the assembler. The assembler, the
reader stream and `bufio` are libraries; these actions model what
`reassembler.go` and `sniffer.go` rely on, and are marked external.

`Start` leaves in two ways: after `FlushAll` when its context is done
(`SeeDone`, `FlushConnection`, `Return`), and at the end of a file without it
(`SeeEnd`), so that what the assembler holds stays there. `Restart` is a further
call on the same assembler. A flow whose connection `FlushAll` has closed, or
that was under way when capturing began, is met without its SYN: its first
segment is missing in an `Unknown` place, and is held until the ticker or a full
page gives that place up. `New` then makes a run with a buffer of its own, and
the one of the earlier connection still has to meet its end (`ending`,
`EndEarlier`). Two history variables, which no guard reads, count per flow the
segments given up (`lost`) and the packets queued, not empty, that are no frame
(`broken`). Empty packets are not counted, since a reader that has read a length
of zero (`Repeats`) queues them for ever; `LossIsLocal` counts that reader
instead, and says that no other one queues any.

Three simplifications. The position of a buffered byte is not modelled, so the
128 KiB limit of the buffer is not reached; a frame is at most as long as its
flow. Bytes that look like a magic number inside a body are not modelled.
`MaxBufferedPagesTotal` is not modelled, `MaxBufferedPagesPerConnection` is.

`OrderedFrames` has a queue of pairs of flow and number. The refinement mapping
gives each body in `dataCh` the number of the frame it equals, and 0, which the
abstract queue never accepts, if it equals none: a cut, spliced or repeated
frame is a step that `OrderedFrames` does not allow. It may skip frames (`Skips`)
only where segments may be late or lost (`Gaps`), or where there is a further
Start, before which `FlushAll` may have closed a connection in the middle.

### Dispatch

A body is cut into 8-byte cells, numbered from 1; a message is given by its
segment, its opcode and the number of its last cell. The first cell of a message
begins with its length, the second holds its segment, the third the opcode.
Decoding yields a set of outcomes, since a field read from a foreign cell may be
anything. `reader` is a `bufio.Reader`: its array `buf`, of which the cells from
`r` to `w` are unread, and the source behind it, the cells from `next` to `end`.
`Peek` slides what is unread to the front before it fills the array, and what it
returns is a slice of the array; `kept` has the slices that were handed out as a
`Body`: where in the array each begins, what it held then, and which cell the
array began with (`front`). The bytes behind a slice move only when a later
`Peek` slides or refills the array, so `BodiesIntact` says how long a client may
rely on them: until more of the frame has been read, counted from `front`, than
the array has room for. A body of a frame that fits the buffer is never touched;
in a larger frame that is not so (`DispatchBodies`, below). A peek at more than
`BufferSize` cells (`bufio`'s 4096 bytes) fails. A game event too short for its
fields panics; a keepalive too short reads on in the buffer, as Go slices by
capacity. Only zlib is told from an uncompressed frame: the cells of an Oodle
frame are numbered from the end of the messages on, belong to none of them, and
anything may be read from them. The handler is a client's, which skips the rest
of its message, or that of a subscriber, which decodes a header once more.

`DecodeFindsMessage` is about every reader that the loop of `ProcessFrames` can
leave at the beginning of a message, with whatever the buffer then holds before
and after it. Subscribers get into such states too, when what they read has led
them back to a boundary.

### Subscriber and Session

`Subscriber` adds to each reader of `Sniffer` its `kind` (two subscribers with
channels, two handlers with a callback), the `frame` it processes (a direction
and a number of messages of its segment; what a message looks like is left to
`Dispatch`), whether it is `sending`, and how far its `Close` has got
(`closing`, `shut`). A send is split from the decoding that precedes it and meets
a receive of the client in `Receive`; `Close` is one step for `Stop` and one for
each channel, so that it comes between them. `Take`, `FailFrame` and `EndFrame`
are steps of `Sniffer` with a part of the handler added; everything else of
`Sniffer` is taken over by `SnifferAlone`.

`Session` adds the program. Client `"any"` calls `Start`, `Stop`, `Subscribe` and
the cancel function of its contexts as `Usage` allows; `Setups` says of each
subscriber which channels it reads, for good, in a goroutine of its own, and
whether it calls `Close` early (while `Subscribe` runs), late, or never. Client
`"example"` is the `main` of both examples: it has one subscriber, whose error
ends the process (`ExampleFails`, `log.Fatal`); after a `Signal` it receives no
more, closes the subscriber if the Sniffer is active, and exits.

### AFPacketBuffers and DeviceOpen

`DeviceOpen` opens handles step by step, each of which may fail, in one call of
`NewSniffer` after another; for an AF_PACKET handle it first computes the sizes
of the ring with the operators of `AFPacketBuffers`. Their integers are
unbounded (the sizes in use are below 2^33, an `int` has 64 bits). In the code
`OpenAFPacket` passes a snaplen of 1600 and `NewSniffer` a target of 25 MB; the
model takes any, as the function does.

### DeviceLookup

`adapters` is the system's list. `ListDeviceNames`, `FindDeviceByName` and
`Open` each ask the system anew, and `Change` comes between them. `FindIndex`
takes a number: it fails beyond the end of the list and panics below zero, as in
the code. `meant` is the adapter that the client has seen under its index, or the
name it has given; `targets` records for each handle what it captures from and
what was meant. The two differ when adapters have changed between the list the
client has seen and the one that the lookup makes, which no document excludes
(`DeviceStale`, below).

## Runs

Passing runs. Deadlock checking is off in all of them: all these processes may
end, and the bounds end the supply of packets, frames or calls.

| Run | Shows | Bounds |
|---|---|---|
| `SnifferSerial` | with one Start at a time: `StopReachesCapture`, `ActiveIsAccurate`, `ReaderNotStranded`, `StateOrder`, `TypeOK` | 2 Starts, 2 readers, 2 packets, a queue of 1: a restart, a reader from before it, a full queue. Symmetric in Starts and readers |
| `SnifferCareful` | for a client without liberties: `NoPanic`, `ReturnsForAReason`, `StopReturnsOrBlocked`, `ReadersReleased` | the same, without symmetry: a queue that one Start fills, one that a Start finds filled by the Start before, a frame of the first Start that is read in the second |
| `FrameStreamAligned` | segments end with frames, may be late or lost: `DeliversInOrder` (refinement), `EndsWithConnection`, `HandedOn`, `StartReturns`, `FramesArrive`, `ReadersEnd`, `TypeOK` | 2 flows of 3 and 2 frames, queues of 1, one page of buffering, 2 Starts: a gap, an overflow of the pages, a full `errCh`, a connection without SYN, a reader that outlives its Start |
| `FrameStreamLossy` | segments end anywhere and are lost: `NothingPending`, `BytesInOrder`, `LossIsLocal`, `WaitsForReader` | 1 flow of 3 frames, a queue of 2, 2 Starts; what is read as a length is the same from every cell that holds none, any number from 0 to 3, or another from each |
| `DispatchFrame` | `CalledForEachMessage`, `DecodeFindsMessage`, `BodiesIntact`, for a client's handler and both kinds of subscriber | up to 2 messages of up to 5 cells, a buffer of 6: frames that fit it and frames that make it refill; 2 opcodes of which one is wanted; uncompressed, zlib and Oodle frames |
| `SubscriberRead` | `SubscribeEnds`, `OthersGoOn`, `StopReturnsUnlessFull`, `SignalEnds`, `SessionTypeOK` | 1 Start, 2 subscribers, 2 packets, a queue of 1, 1 message per frame: a blocked subscriber beside one that is served, each other kind alone, and the example |
| `DeviceOpenAll` | `FailureReleases`, `SniffersCapture`, `PacketFits` | 2 calls: a failed one before or after another; snaplens on both sides of the page sizes, targets of 0 and 25 MB; 1 change of the adapters, indexes from -1 to 1 |

Two of everything is enough where the hazards are pairwise: two Starts, a Start
and a reader of the one before, two flows in one queue, two messages of which
the first leaves the reader in the wrong place, two subscribers of which one
blocks. In `SubscriberRead` a single Start is enough for what it asks, since
`SnifferSerial` and `SnifferCareful` restart, and `SessionEarlyReturn` (below)
shows what a second Start changes for a client that leaves it to `Subscribe`.

Runs that end in a counterexample, each a disagreement between the code and its
documentation:

| Run | Property | What happens |
|---|---|---|
| `SnifferNilContext` | `NoNilContext` | `Subscribe` on a fresh Sniffer calls `s.ctx.Done()` before the goroutine it has spawned has stored `s.ctx`, and panics |
| `FrameStreamShortRead` | `StartReturns` | a frame in two segments ends its reader while the assembler's call that has handed it the first one waits for it: that same call never returns, and `Start` with it |
| `DispatchZlib` | `HandlesDecompression` | the first compressed frame panics: asserting the type of the pool's nil |
| `DispatchGameEvent` | `DeliversMessages` | the header of a message is decoded twice, so the message is not found |
| `SubscriberClose` | `NoSendOnClosed` | after a signal the deferred `Close` of an example closes the channels, which it does not drain, while `Subscribe` sends, and the send panics |

Further configurations, kept beside the runs above but not listed in
`PROJECT.json`, for the hazards whose properties the code does not keep. The first
two pass; in the others TLC refutes the property. Those from `SnifferNilFrame` to
`AFPacketPages` contradict the documentation, like the runs above: of `Stop`
(`README.md:18`), of subscribers (`doc.go:148`, `subscriber_gameevent.go:30`), of
`ProcessFrames` (`sniffer.go:263`) and of the block size (`afpacket.go:6`). The
last five contradict nothing that is written.

| Configuration | Module | Property | What it shows |
|---|---|---|---|
| `FrameStreamSplit` | `MCFrameStream` | `DeliversInOrder` | when segments end anywhere and none is late, what arrives is whole frames in order, none skipped, though it may stop short |
| `DispatchRefill` | `MCDispatch` | `BodiesIntact` | with 3 messages: frames of up to two and a half buffers, and bodies that meet several refills |
| `SnifferNilFrame` | `MCSniffer` | `NoNilFrame` | a restart between the two reads of `s.ctx` in `NextFrame` (`sniffer.go:254,255`): nil frame, nil error, `ProcessFrames` panics |
| `SnifferStaleContext` | `MCSniffer` | `SubscribeUntilCancelled` | a `Subscribe` that restarts the Sniffer finds the cancelled context of the previous run and returns, while the Start it has made goes on |
| `SnifferTwoSubscribers` | `MCSniffer` | `ActiveWhenSubscribed` | two Subscribes both start the Sniffer; the first Start to end publishes the stopped state, while the other captures |
| `SnifferFullQueue` | `MCSniffer` | `StopReturns` | a full `dataCh` without a reader keeps `Start` in the assembler's call, whatever its context |
| `FrameStreamZeroLength` | `MCFrameStream` | `StartReturnsUnlessCut` | after a loss a length of zero is read: the reader queues empty packets without end, and the call that has handed it those bytes never returns |
| `SubscriberIngress` | `MCSession` | `SubscribeReturns` | a client that reads only one channel, as those of `src/README.md:54-59` and `src/doc.go:71` do, blocks `Subscribe` for good |
| `SessionEarlyReturn` | `MCSession` | `ReturnsForAReason` | a `Subscribe` that processes a frame left by an earlier run returns nil because its own Start has not yet published the running state |
| `AFPacketPages` | `MCDeviceOpen` | `PageAligned` | with pages of 16 KiB the block size is no multiple of the page (`afpacket.go:6`) |
| `SnifferOverlap` | `MCSniffer` | `ActiveIsAccurate` | of two Starts that a client lets overlap, the first to end publishes the stopped state |
| `SessionFileEnd` | `MCSession` | `FileReadOut` | at the end of a file `NextFrame` may choose the done context while frames are queued, which are lost |
| `DispatchBodies` | `MCDispatch` | `AllBodiesIntact` | a frame larger than the buffer overwrites the bodies of its first messages while it is processed |
| `DeviceIndex` | `MCDeviceOpen` | `LookupNoPanic` | a negative index passes the check of line 83 and panics on line 87 |
| `DeviceStale` | `MCDeviceOpen` | `CapturesWhatWasMeant` | an index chosen from one list of adapters names another adapter in the list that the lookup makes |

## Fairness

* `Sniffer`: weak fairness of each goroutine's next step (`StartStep`,
  `ReaderStep`): Go runs every goroutine that can run. None for the client, who
  need not stop, nor for the device. A `select` with several ready cases is not
  fair between them; `StopReturnsOrBlocked` holds because packets are finite in the
  model, and for a live device because Go's `select` picks a ready case at
  random.
* `FrameStream`: the same for `Start`'s own steps and each flow's goroutine, those
  of earlier connections included (`EndEarlier`), for the ticker of line 180
  (`Tick`), and for a client that keeps calling `NextFrame`. None for the
  network, the end of a file or a further Start, nor for a reader of `Errors`.
* `Session`: each goroutine's next step (`StartStep`, `Serve`), a client that
  receives from the channels it reads (`ClientReceives`), a `Close` that has
  begun, and for an example the goroutine that subscribes and `main` once there
  is something for it to do. None for a signal or any other call of the client,
  nor for packets. Liveness of a subscriber is claimed only if its client reads
  every channel that it sends on (`Served`).

## Proofs

Checked by TLAPS, without assumptions beyond those on the constants.

`SnifferProofs`: for any number of Starts and Subscribes, any buffer size and any
number of packets.

* `TypeCorrect`, under every use. `TypeInv` adds that a Start past its store has
  a cancel function, else `done` could receive nil.
* `StopReaches`, `ActiveAccurate`, `NotStranded`, `StateOrdered`, for clients
  that never let Starts overlap (`Serial`). None of these is inductive. What is
  (`SerialInv`): at most one Start is active, and it owns the fields that it has
  already written (`FieldsOwned`); a Start that has returned leaves its context
  done (`ReturnedDone`); a context gets into `s.ctx` and from there to a reader
  only by a Start past its first store (`CtxOfStarted`). `StateOrdered` is an
  action property proved from the same invariant.
* `CarefulClient`: with no liberties nothing panics. `CtxStable` is the
  strengthening: while a reader waits, its context is the one in `s.ctx`, and a
  reader in `NextFrame` finds one.

About `FrameStream`, for any flows, frames, cuts, losses, capacities and number of
Starts, in three modules that build on one another:

* `NeverPending` (`FrameStreamProofs`): between the calls of the assembler nothing
  is pending. What a step preserves (`Synchronous`) is that every flow is `Settled`
  except the one that is `Consuming` a batch. It also shows that `New` never
  starts a run with bytes left over from an earlier one.
* `TypeCorrect` (`FrameStreamProofs`). The types need more than types (`BaseInv`):
  that readers of earlier connections are no more than Starts follows from when
  `FlushAll` may close a connection once more (`EndInv`), and a batch has no
  segment twice only because nothing is held where nothing is missing.
* `AlwaysWaitsForReader` (`FrameStreamProofs`): `WaitsForReader`. In its call into
  the assembler Start waits for a reader that will answer, or for one that has
  ended on a short read, which is the counterexample of `FrameStreamShortRead`.
  A reader that repeats a length of zero counts as one that goes on, so the
  counterexample of `FrameStreamZeroLength` is within it; nothing else can keep
  Start there. The invariant (`HandOver`) says that the two of
  them agree, between the calls too, on whether the reader still reads a batch,
  and that segments are held back only of a connection that has a reader. This
  is the safety half of `StartReturns`.
* `QueuedInOrder` (`FrameDeliveryProofs`): `BytesInOrder`. A cell is queued, in the
  buffer of the reader, in its hand, or still to come; the cells of each place
  are below those of the places behind it (`InChain`), since they only move to
  the place before or get lost. And a packet begins with a magic number
  (`QueueInv`), or what is read from it as the number of a frame could be that
  of a frame already returned.
* `LossIsRepaired` (`FrameDeliveryProofs`): `LossIsLocal`. A *jump* is a place in
  what is on its way to a reader where cells are missing. A packet that is no
  frame and not empty takes a jump out of the stream (`BrokenTakesJump`), and
  only a segment given up brings one in: broken packets and jumps together are at
  most the segments given up (`Paid`). A reader that repeats itself stands before
  a jump, which it never passes (`RepeatsIsPaid`), and an empty packet in `dataCh`
  is of such a reader (`EmptyPackets`). It needs that what is on its way is joined to what
  comes next (`Joined`), or the next segment in order would bring a jump in too.
* `ImplementsOrderedFrames` (`FrameRefinementProofs`): `DeliversInOrder`, if
  segments end with frames (`Cut = "frames"`), which may then be late or lost, or
  if none is late or lost (`~Gaps`), which may then end anywhere. Without either a
  packet need not be a frame, and `LossIsRepaired` is what remains. In the first
  case every place is made of whole frames (`Aligned`); in the second no segment
  is given up (`NoLoss`), so that by `LossInv` no packet is broken. Either way a
  packet is a frame (`FramesOnly`). Without losses, and in one call of Start, no
  frame is skipped either: what was sent after the frames accepted is with the
  reader, and synchronisation drops nothing of it (`Firm`).
* `ReadersOutliveConnections` (`FrameRefinementProofs`): `EndsWithConnection`, if
  segments end with frames. A buffer of whole frames that begins with a header
  begins with a frame (`FrameReady`), so no read is short; a reader that does not
  run waits for a header (`Ended`). With segments that end elsewhere it is false:
  in the counterexample of `FrameStreamShortRead` a reader ends early.
* `NothingDropped` (`FrameRefinementProofs`): `HandedOn`, if segments end with
  frames; the safety half of `FramesArrive`. `HandedOn` speaks of the times
  between the calls into the assembler; the invariant (`NoDrop`) says where the
  last cell sent is during them: in the hand or the buffer of the reader, or in
  a frame that was accepted. Synchronisation drops nothing of whole frames
  (`WholeKept`), what is given up is never the last segment sent (`LineEnds`),
  and a buffer of whole frames too short for a header is empty (`WholeShort`).

`SessionProofs`, for any number of Starts and subscribers of any kind:

* `CarefulSession`: `NoPanic` for every program without liberties, whatever its
  handlers do. The lemma `SessionRefines` carries what `SnifferProofs` shows of
  the Sniffer over to every program: `Session` is written so that the Sniffer's
  fields change only as module `Sniffer` says.
* `SessionTypeCorrect`: a handler that sends has its frame, and sends on a
  channel of its own subscriber; `Close` has closed its channels in their order.
  The invariant (`SessionTypeInv`) adds the types of the functions that
  `SubscriberTypeOK` only applies.
* `ReturnsReasonably`: `ReturnsForAReason` for clients without liberties. That
  the state is not running says little by itself, since it also is not before a
  Start has published it. The invariant adds that the Start a reader reads from
  is past that point and still has its context in `s.ctx` (`PastPublish`), and
  that a Start leaves its loop only for a reason (`LeftForAReason`).

`DispatchProofs`, for frames of any number of messages of any lengths, any buffer
of at least a header, and any handlers. All three rest on `ReaderInv`: the unread
cells of the reader are consecutive, whatever has been peeked at and discarded.
`FillKeeps`, `PeekKeeps` and `DiscardKeeps` show it of each operation of
`bufio.Reader`, and `HeaderFacts`, `RestFacts` and `DecodeFacts` of the two
halves of a `Decode` and of the whole.

* `CallsForEachMessage`: `CalledForEachMessage`. Before the header the reader is
  at the first cell of the next message, after it two cells further, and the
  length in the header is that message's (`CalledInv`).
* `DecodingFindsMessages`: `DecodeFindsMessage`. A cell has one owner
  (`OwnerIs`), so that the fields read are those of the message, and the rest of
  the message lies before the end of the reader, whose source reaches at least
  to the last message.
* `BodiesStayIntact`: `BodiesIntact`, for frames of any size. Of each slice handed
  out the invariant (`KeptInv`) says that it is `Safe`: either the front of the
  buffer has not moved since, and the slice holds what the buffer has in its place
  and lies in what is consumed, which a `Fill` that does not slide leaves alone;
  or the front has moved on, and then more has been read since than the buffer has
  room for. The second half needs that the buffer was filled as far as it could
  be before its cells slide (`Full`), or a slice could be overwritten before that
  much has been read. `Safely` says that an operation of the reader preserves both; it is shown of each and
  passed on along a `Decode`.

`DeviceOpenProofs`: `FailuresRelease`, `SniffersAlwaysCapture` and
`PacketAlwaysFits`, for every platform, any number of calls and every target,
snaplen and page size. `FailureReleases` excepts the one failure that does leak,
of setting an AF_PACKET handle to promiscuous mode (`afpacket_linux.go:40`). The
invariant says of the handle in progress at which step it is open and promiscuous
(`InProgress`), and of every other open handle whose it is (`Accounted`). The
nonlinear step of the arithmetic, dividing the page by how many packets fit it,
is the lemma `EqualParts`.

`DeviceLookupProofs`: `LookupSniffersCapture`: no lookup adds to what `NewSniffer`
does, so that what is proved of it holds here.

Only model-checked is liveness (`StopReturnsOrBlocked`, `ReadersReleased`, `StartReturns`,
`FramesArrive`, `ReadersEnd`, `SubscribeEnds`, `OthersGoOn`,
`StopReturnsUnlessFull`, `SignalEnds`): it needs fairness, out of the prover's
reach.

## Not modelled

* Error types, `MarshalJSON`, `String`, `Reset`: formatting and plain
  assignments. (`Unwrap` of the error types has a pointer receiver while errors
  are returned by value, so `errors.Is` does not see through them: not a matter
  of states.)
* Tracing: `StartTrace` and `StopTrace` forward to `runtime/trace`.
* The examples' flags, and the tables of `craft_state` with the structures it
  reads from a body: straight-line code without state, by far its largest part.
* Descriptions and addresses in the list of devices: formatting.
* Reading packets from a handle: an input of `Sniffer` and `FrameStream`.
* `WithDataBufferSize(0)`, which makes `dataCh` a rendezvous; a negative size,
  with which `NewSniffer` panics.
* The reuse of the zlib reader: unreachable, since the first use panics.
* What a client does with a message that a callback handler reuses.

## Plan

Done: all modules above, the composition of `Sniffer`, subscribers and clients
among them. Every invariant that a passing run checks is a theorem.
Left, in this order:

1. Larger instances of `Session`: liveness over two Starts with two subscribers,
   several messages per frame.
2. A rendezvous for `dataCh` (`WithDataBufferSize(0)`).
