----------------------------- MODULE FrameStream -----------------------------
(***************************************************************************)
(* The way of a frame from the wire to the caller of NextFrame: the capture *)
(* goroutine in Start (sniffer.go), the tcpassembly assembler it calls, one *)
(* goroutine per flow in frameStream.run (reassembler.go) behind a          *)
(* tcpreader.ReaderStream and a bufio.Reader, and the channels dataCh and   *)
(* errCh.                                                                   *)
(*                                                                          *)
(* A flow carries frames.  Its bytes are cut into cells, numbered from 1:   *)
(* the first cell of a frame holds its magic number, the second the rest of *)
(* its header with the length field, the others its body.  No other cell    *)
(* looks like a magic number.  When cells have been lost, the cell after a  *)
(* magic number may be of a body; what is read from it as a length is not   *)
(* known, but it is the same each time it is read.                          *)
(*                                                                          *)
(* The assembler and the readers are libraries: they are modelled from how  *)
(* reassembler.go and sniffer.go use them.  ReaderStream hands bytes over   *)
(* on an unbuffered channel, and the assembler's call returns only when the *)
(* reader has consumed them all and asks for more.                          *)
(*                                                                          *)
(* Start returns when its context is done, after FlushAll, and at the end   *)
(* of a file, without it.  It may then be called again, with the same       *)
(* assembler: the next segment of a flow that FlushAll has closed makes a   *)
(* new frameStream.                                                         *)
(***************************************************************************)
EXTENDS Naturals, Sequences

CONSTANTS
  Flows,            \* TCP flows, one connection each
  FrameEnds,        \* for each flow the cells that its frames end with
  Readings,         \* bound: what may be read as lengths from the other cells
  DataBufSize,      \* capacity of dataCh
  ErrBufSize,       \* capacity of errCh
  MaxBufferedPages, \* segments the assembler keeps behind a missing one
  MaxStarts,        \* bound: calls of Start
  Cut,              \* where segments end: after "frames", or after any of the "cells"
  Gaps              \* segments may be late or lost

HeaderLength == 2

Frames(f) == DOMAIN FrameEnds[f]
Last(f, k) == FrameEnds[f][k]
First(f, k) == IF k = 1 THEN 1 ELSE Last(f, k - 1) + 1
Length(f, k) == Last(f, k) - First(f, k) + 1
Magic(f) == {First(f, k) : k \in Frames(f)}

(* The number of cells of a flow. *)
Size(f) == Last(f, Len(FrameEnds[f]))

ASSUME FrameStreamAssumption ==
  /\ \A f \in Flows :
       /\ FrameEnds[f] \in Seq(Nat) \ {<<>>}
       /\ \A k \in Frames(f) : Length(f, k) >= HeaderLength
  /\ \A r \in Readings :
       DOMAIN r = Flows /\ \A f \in Flows : r[f] \in [1..Size(f) -> Nat]
  /\ DataBufSize \in Nat \ {0} /\ ErrBufSize \in Nat
  /\ MaxBufferedPages \in Nat \ {0} /\ MaxStarts \in Nat \ {0}
  /\ Cut \in {"frames", "cells"} /\ Gaps \in BOOLEAN

VARIABLES
  sent,      \* number of cells of each flow that the network has taken
  ended,     \* the source has no more packets
  missing,   \* a segment that later ones have overtaken, Unknown or Nothing
  held,      \* segments the assembler keeps because one is missing
  at,        \* where the capture goroutine is
  flow,      \* the flow whose bytes it hands over
  batch,     \* the segments it hands over
  starts,    \* number of calls of Start
  stopping,  \* the context of the current one is done
  flushing,  \* it is in FlushAll
  link,      \* the ReaderStream of each flow
  current,   \* segments handed over and not yet read
  buf,       \* the bufio.Reader of each flow
  pc,        \* where each frameStream.run is
  ending,    \* how many earlier runs of a flow have not yet met their end
  reading,   \* what is read as a length from a cell that holds none: never changes
  dataCh,    \* the queue of reassembled packets
  errs,      \* length of errCh
  got,       \* number of the last frame of each flow that NextFrame returned
  lost,      \* history: number of missing segments that were given up
  broken     \* history: number of packets queued, not empty, that are no frame of the flow

network == <<sent, ended, missing, held, lost>>
capture == <<at, flow, batch, starts, stopping, flushing>>
reader  == <<link, current, buf, pc, ending>>
output  == <<dataCh, broken, reading>>
vars    == <<network, capture, reader, output, errs, got>>

(* A segment: the numbers of its first and of its last cell. *)
Segments(f) == {s \in [first : 1..Size(f), last : 1..Size(f)] : s.first <= s.last}
Cells(s) == [i \in 1..s.last - s.first + 1 |-> s.first + i - 1]
FrameCells(f, k) == Cells([first |-> First(f, k), last |-> Last(f, k)])

(* Where a segment of a flow may end, and the next one that ends there. *)
Ends(f) == IF Cut = "cells" THEN 1..Size(f) ELSE {Last(f, k) : k \in Frames(f)}
Segment(f, n) == [first |-> sent[f] + 1, last |-> n]

(* No segment is missing; and a connection that the assembler meets        *)
(* without its SYN: what is missing before its first segment is not known. *)
Nothing == [first |-> 0, last |-> 0]
Unknown == [first |-> 0, last |-> 1]

(* discardUntilValid: what is left of a buffer from the first magic number on. *)
Synced(f, b) ==
  LET magic == {i \in DOMAIN b : b[i] \in Magic(f)}
  IN IF magic = {} THEN <<>>
     ELSE SubSeq(b, CHOOSE i \in magic : \A j \in magic : i <= j, Len(b))

(* The frame whose length a cell holds, if it holds one. *)
LengthOwner(f, c) == {k \in Frames(f) : c = First(f, k) + 1}

(* Mutated LengthField: the header is not counted. *)
LengthOfBody(f, b) ==
  IF LengthOwner(f, b[2]) = {} THEN {reading[f][b[2]]}
  ELSE {Length(f, k) - HeaderLength : k \in LengthOwner(f, b[2])}

(* What is read from the length field of a synced buffer. *)
LengthField(f, b) ==
  IF LengthOwner(f, b[2]) = {} THEN {reading[f][b[2]]}
  ELSE {Length(f, k) : k \in LengthOwner(f, b[2])}

(* Mutated NeedsMore: the peek waits for a byte after the header. *)
NeedsBody(f) == Len(Synced(f, buf[f])) <= HeaderLength

(* A Peek, for the magic number or for the header, waits for more bytes. *)
NeedsMore(f) == Len(Synced(f, buf[f])) < HeaderLength

(* run is in ReaderStream.Read, with nothing left to read. *)
Starved(f) == pc[f] = "running" /\ NeedsMore(f) /\ current[f] = <<>>

NetworkType ==
  /\ ended \in BOOLEAN /\ lost \in [Flows -> Nat]
  /\ sent \in [Flows -> Nat] /\ \A f \in Flows : sent[f] <= Size(f)
  /\ DOMAIN missing = Flows
  /\ \A f \in Flows : missing[f] \in Segments(f) \cup {Nothing, Unknown}
  /\ DOMAIN held = Flows
  /\ \A f \in Flows : held[f] \in Seq(Segments(f)) /\ Len(held[f]) <= MaxBufferedPages

CaptureType ==
  /\ at \in {"select", "offer", "await", "flush", "returned"}
  /\ flow \in Flows /\ batch \in Seq(Segments(flow))
  /\ starts \in 1..MaxStarts /\ stopping \in BOOLEAN /\ flushing \in BOOLEAN

ReaderType ==
  /\ link \in [Flows -> {"first", "busy", "asked", "closed"}]
  /\ pc \in [Flows -> {"none", "running", "dead"}]
  /\ ending \in [Flows -> 0..MaxStarts]
  /\ DOMAIN current = Flows /\ \A f \in Flows : current[f] \in Seq(Segments(f))
  /\ DOMAIN buf = Flows /\ \A f \in Flows : buf[f] \in Seq(1..Size(f))

OutputType ==
  /\ dataCh \in Seq([flow : Flows, body : Seq(Nat)]) /\ Len(dataCh) <= DataBufSize
  /\ \A i \in DOMAIN dataCh : dataCh[i].body \in Seq(1..Size(dataCh[i].flow))
  /\ reading \in Readings
  /\ errs \in 0..ErrBufSize /\ broken \in [Flows -> Nat]
  /\ got \in [Flows -> Nat] /\ \A f \in Flows : got[f] \in Frames(f) \cup {0}

TypeOK == NetworkType /\ CaptureType /\ ReaderType /\ OutputType

Init ==
  /\ sent = [f \in Flows |-> 0] /\ ended = FALSE
  /\ missing \in [Flows -> IF Gaps THEN {Nothing, Unknown} ELSE {Nothing}]
  /\ held = [f \in Flows |-> <<>>]
  /\ at = "select" /\ flow \in Flows /\ batch = <<>>
  /\ starts = 1 /\ stopping = FALSE /\ flushing = FALSE
  /\ link = [f \in Flows |-> "first"] /\ current = [f \in Flows |-> <<>>]
  /\ buf = [f \in Flows |-> <<>>] /\ pc = [f \in Flows |-> "none"]
  /\ ending = [f \in Flows |-> 0]
  /\ reading \in Readings /\ dataCh = <<>> /\ errs = 0
  /\ got = [f \in Flows |-> 0]
  /\ lost = [f \in Flows |-> 0] /\ broken = [f \in Flows |-> 0]

-----------------------------------------------------------------------------
(* The capture goroutine and the assembler. *)

(* Mutated New: a stream is made once for each flow.                        *)
NewOnce(f) ==
  \/ /\ pc[f] = "none"
     /\ pc' = [pc EXCEPT ![f] = "running"]
     /\ UNCHANGED <<link, current, buf, ending>>
  \/ pc[f] # "none" /\ UNCHANGED reader

(* The first segment of a connection makes the assembler call New, which   *)
(* starts a run with a reader of its own.                                  *)
New(f) ==
  \/ /\ pc[f] = "none" \/ link[f] = "closed"
     /\ pc' = [pc EXCEPT ![f] = "running"]
     /\ link' = [link EXCEPT ![f] = "first"]
     /\ buf' = [buf EXCEPT ![f] = <<>>]
     /\ ending' = [ending EXCEPT ![f] = IF pc[f] = "running" THEN @ + 1 ELSE @]
     /\ UNCHANGED current
  \/ pc[f] # "none" /\ link[f] # "closed" /\ UNCHANGED reader

(* The assembler calls Reassembled, which offers a batch to the reader. *)
Reassembled(f, segments) ==
  /\ at' = "offer" /\ flow' = f /\ batch' = segments
  /\ UNCHANGED <<starts, stopping, flushing>>

(* The assembler goes on without the segment that is missing. *)
GiveUp(f) ==
  /\ held' = [held EXCEPT ![f] = <<>>]
  /\ missing' = [missing EXCEPT ![f] = Nothing]
  /\ lost' = [lost EXCEPT ![f] = IF missing[f] = Unknown THEN @ ELSE @ + 1]

(* The network delays, or loses, the next segment. *)
Delay(f) ==
  /\ Gaps /\ ~ended /\ missing[f] = Nothing
  /\ \E n \in Ends(f) :
       /\ sent[f] < n /\ n < Size(f)
       /\ missing' = [missing EXCEPT ![f] = Segment(f, n)]
       /\ sent' = [sent EXCEPT ![f] = n]
  /\ UNCHANGED <<ended, held, lost, capture, reader, output, errs, got>>

(* AssembleWithTimestamp with the next segment in order. *)
Receive(f) ==
  /\ at = "select" /\ ~ended /\ missing[f] = Nothing
  /\ \E n \in Ends(f) :
       /\ sent[f] < n
       /\ sent' = [sent EXCEPT ![f] = n]
       /\ Reassembled(f, <<Segment(f, n)>>)
  /\ New(f)
  /\ UNCHANGED <<ended, missing, held, lost, output, errs, got>>

(* AssembleWithTimestamp with a segment after the missing one: it is kept, *)
(* or, with no room left, the missing one is given up.                     *)
ReceiveAhead(f) ==
  /\ at = "select" /\ ~ended /\ missing[f] # Nothing
  /\ \E n \in Ends(f) :
       /\ sent[f] < n
       /\ sent' = [sent EXCEPT ![f] = n]
       /\ LET kept == Append(held[f], Segment(f, n))
          IN \/ /\ Len(held[f]) < MaxBufferedPages
                /\ held' = [held EXCEPT ![f] = kept]
                /\ UNCHANGED <<missing, lost, capture>>
             \/ /\ Len(held[f]) = MaxBufferedPages
                /\ GiveUp(f)
                /\ Reassembled(f, kept)
  /\ New(f)
  /\ UNCHANGED <<ended, output, errs, got>>

(* AssembleWithTimestamp with the missing segment. *)
ReceiveLate(f) ==
  /\ at = "select" /\ ~ended /\ missing[f] \notin {Nothing, Unknown}
  /\ Reassembled(f, <<missing[f]>> \o held[f])
  /\ missing' = [missing EXCEPT ![f] = Nothing]
  /\ held' = [held EXCEPT ![f] = <<>>]
  /\ New(f)
  /\ UNCHANGED <<sent, ended, lost, output, errs, got>>

(* FlushWithOptions gives up a segment that has been missing for long. *)
Tick(f) ==
  /\ at = "select" /\ held[f] # <<>>
  /\ Reassembled(f, held[f])
  /\ GiveUp(f)
  /\ UNCHANGED <<sent, ended, reader, output, errs, got>>

(* AssembleWithTimestamp with the end of the connection: ReassemblyComplete. *)
Finish(f) ==
  /\ at = "select" /\ ~ended /\ missing[f] = Nothing
  /\ sent[f] = Size(f) /\ pc[f] # "none" /\ link[f] # "closed"
  /\ link' = [link EXCEPT ![f] = "closed"]
  /\ UNCHANGED <<network, capture, current, buf, pc, ending, output, errs, got>>

(* Stop, or the cancellation of the context. *)
Stop ==
  /\ at # "returned" /\ ~stopping
  /\ stopping' = TRUE
  /\ UNCHANGED <<network, at, flow, batch, starts, flushing, reader, output, errs, got>>

(* case <-s.ctx.Done(): FlushAll. *)
SeeDone ==
  /\ at = "select" /\ stopping
  /\ at' = "flush" /\ flushing' = TRUE
  /\ UNCHANGED <<network, flow, batch, starts, stopping, reader, output, errs, got>>

(* FlushAll hands over what a connection still holds, then completes it.   *)
(* What its flow still carries will be a connection without a SYN.         *)
FlushConnection(f) ==
  /\ at = "flush" /\ pc[f] # "none" /\ link[f] # "closed"
  /\ \/ /\ held[f] # <<>>
        /\ Reassembled(f, held[f])
        /\ GiveUp(f)
        /\ UNCHANGED link
     \/ /\ held[f] = <<>>
        /\ link' = [link EXCEPT ![f] = "closed"]
        /\ missing' = [missing EXCEPT ![f] = IF sent[f] < Size(f) THEN Unknown ELSE Nothing]
        /\ UNCHANGED <<held, lost, capture>>
  /\ UNCHANGED <<sent, ended, current, buf, pc, ending, output, errs, got>>

(* Start returns nil after FlushAll. *)
Return ==
  /\ at = "flush" /\ \A f \in Flows : pc[f] # "none" => link[f] = "closed"
  /\ at' = "returned"
  /\ UNCHANGED <<network, flow, batch, starts, stopping, flushing, reader, output, errs, got>>

(* A nil packet: Start returns io.EOF, and the assembler keeps what it holds. *)
SeeEnd ==
  /\ at = "select"
  /\ at' = "returned" /\ ended' = TRUE
  /\ UNCHANGED <<sent, missing, held, lost, flow, batch, starts, stopping, flushing, reader,
                 output, errs, got>>

(* Start is called again, with a context of its own. *)
Restart ==
  /\ at = "returned" /\ starts < MaxStarts
  /\ at' = "select" /\ starts' = starts + 1
  /\ stopping' = FALSE /\ flushing' = FALSE
  /\ UNCHANGED <<network, flow, batch, reader, output, errs, got>>

-----------------------------------------------------------------------------
(* ReaderStream: the two channels between Reassembled and Read. *)

(* Read takes the batch that Reassembled offers. *)
TakeBatch(f) ==
  /\ at = "offer" /\ flow = f
  /\ Starved(f) /\ link[f] \in {"first", "asked"}
  /\ at' = "await" /\ batch' = <<>>
  /\ link' = [link EXCEPT ![f] = "busy"]
  /\ current' = [current EXCEPT ![f] = batch]
  /\ UNCHANGED <<network, flow, starts, stopping, flushing, buf, pc, ending, output, errs, got>>

(* Read has consumed the batch and asks for more: Reassembled returns. *)
AskMore(f) ==
  /\ at = "await" /\ flow = f
  /\ Starved(f) /\ link[f] = "busy"
  /\ at' = IF flushing THEN "flush" ELSE "select"
  /\ link' = [link EXCEPT ![f] = "asked"]
  /\ UNCHANGED <<network, flow, batch, starts, stopping, flushing, current, buf, pc, ending, output,
                 errs, got>>

-----------------------------------------------------------------------------
(* frameStream.run. *)

(* Mutated ReportError: it waits for room in errCh. *)
ReportErrorBlocking == errs < ErrBufSize /\ errs' = errs + 1

(* reportError never waits: without room in errCh the error is dropped. *)
ReportError == errs' = IF errs < ErrBufSize THEN errs + 1 ELSE errs

Die(f) ==
  /\ pc' = [pc EXCEPT ![f] = "dead"]
  /\ ReportError
  /\ UNCHANGED <<network, capture, link, current, buf, ending, output, got>>

(* A Peek that needs more bytes makes bufio read once: one segment at most. *)
Fill(f) ==
  /\ pc[f] = "running" /\ NeedsMore(f) /\ current[f] # <<>>
  /\ buf' = [buf EXCEPT ![f] = Synced(f, @) \o Cells(Head(current[f]))]
  /\ current' = [current EXCEPT ![f] = Tail(@)]
  /\ UNCHANGED <<network, capture, link, pc, ending, output, errs, got>>

(* A Peek meets the end of the stream. *)
EndOfStream(f) ==
  /\ Starved(f) /\ link[f] = "closed"
  /\ Die(f)

(* The run of an earlier connection meets the end of its stream. *)
EndEarlier(f) ==
  /\ ending[f] > 0
  /\ ending' = [ending EXCEPT ![f] = @ - 1]
  /\ ReportError
  /\ UNCHANGED <<network, capture, link, current, buf, pc, output, got>>

(* There is room in dataCh; mutated, room for one frame too many. *)
RoomOffByOne == Len(dataCh) <= DataBufSize
Room == Len(dataCh) < DataBufSize

(* reader.Read fills data, which make has zeroed, from the buffer only.    *)
(* With a length of zero it reads nothing, and there is no error.          *)
Zero == 0
Read(b, length) == [i \in 1..length |-> IF i <= Len(b) THEN b[i] ELSE Zero]

(* What Read leaves in the buffer.  Mutated: each frame gets a new buffer; *)
(* the frame is only peeked at.                                            *)
RestDropped(b, length) == <<>>
RestKept(b, length) == b
Rest(b, length) == SubSeq(b, length + 1, Len(b))

(* The count that Read returns is the length; mutated, it is not checked,  *)
(* or a read that empties the buffer counts as short.                      *)
ReadAndMore(b, length) == length < Len(b)
Unchecked(b, length) == TRUE
ReadInFull(b, length) == length <= Len(b)

(* The number of the frame that a packet is, 0 if it is none. *)
Number(d) ==
  LET whole == {k \in Frames(d.flow) : d.body = FrameCells(d.flow, k)}
  IN IF whole = {} THEN 0 ELSE CHOOSE k \in whole : TRUE

QueueFrame(f) ==
  /\ pc[f] = "running" /\ ~NeedsMore(f)
  /\ Room
  /\ LET b == Synced(f, buf[f])
     IN \E length \in LengthField(f, b) :
          /\ ReadInFull(b, length)
          /\ LET d == [flow |-> f, body |-> Read(b, length)]
             IN /\ dataCh' = Append(dataCh, d)
                /\ broken' = [broken EXCEPT ![f] = IF d.body # <<>> /\ Number(d) = 0 THEN @ + 1 ELSE @]
          /\ buf' = [buf EXCEPT ![f] = Rest(b, length)]
  /\ UNCHANGED <<network, capture, link, current, pc, ending, reading, errs, got>>

(* The buffer holds less than the header announces: run gives up. *)
ShortRead(f) ==
  /\ pc[f] = "running" /\ ~NeedsMore(f)
  /\ LET b == Synced(f, buf[f]) IN \E length \in LengthField(f, b) : ~ReadInFull(b, length)
  /\ Die(f)

Run(f) ==
  TakeBatch(f) \/ AskMore(f) \/ Fill(f) \/ EndOfStream(f) \/ QueueFrame(f) \/ ShortRead(f)

-----------------------------------------------------------------------------
(* The client. *)

(* Frame.Decode: the number of the frame, none if the data is too short.   *)
Decode(d) ==
  IF Len(d.body) < HeaderLength THEN {}
  ELSE {k \in Frames(d.flow) : d.body[1] \in First(d.flow, k)..Last(d.flow, k)}

(* NextFrame returns the frame, or the error.  The length it finds in the  *)
(* header is that of the data, since run has made the data so long.        *)
NextFrame ==
  /\ dataCh # <<>>
  /\ dataCh' = Tail(dataCh)
  /\ LET d == Head(dataCh)
     IN \/ Decode(d) = {} /\ UNCHANGED got
        \/ \E k \in Decode(d) : got' = [got EXCEPT ![d.flow] = k]
  /\ UNCHANGED <<network, capture, reader, broken, reading, errs>>

ReadError ==
  /\ errs > 0 /\ errs' = errs - 1
  /\ UNCHANGED <<network, capture, reader, output, got>>

Start ==
  SeeDone \/ Return \/ \E f \in Flows : FlushConnection(f)

Next ==
  \/ Stop \/ Start \/ SeeEnd \/ Restart \/ NextFrame \/ ReadError
  \/ \E f \in Flows :
       \/ Delay(f) \/ Receive(f) \/ ReceiveAhead(f) \/ ReceiveLate(f) \/ Finish(f)
       \/ Tick(f) \/ Run(f) \/ EndEarlier(f)

(* Goroutines that can run do, the ticker keeps firing, and the client    *)
(* keeps calling NextFrame.  The network owes nothing, not even the end of *)
(* a file, nor does a reader of Errors.                                    *)
Fairness ==
  /\ WF_vars(Start) /\ WF_vars(NextFrame)
  /\ \A f \in Flows : WF_vars(Run(f)) /\ WF_vars(EndEarlier(f)) /\ WF_vars(Tick(f))

Spec == Init /\ [][Next]_vars
FairSpec == Spec /\ Fairness
-----------------------------------------------------------------------------
(* Safety. *)

(* When Start waits in its select, or has returned, after FlushAll or at   *)
(* the end of a file without it (sniffer.go:184,190,198), every complete   *)
(* frame handed to a live reader is already in dataCh: the assembler's     *)
(* calls are that synchronous.                                             *)
NothingPending ==
  at \in {"select", "returned"} =>
    \A f \in Flows : pc[f] = "running" =>
      current[f] = <<>> /\ Len(Synced(f, buf[f])) < HeaderLength

(* Whatever was lost, and whatever was read as a length: the data queued   *)
(* for NextFrame (sniffer.go:237) is made of bytes of its flow in the      *)
(* order in which they were sent, none twice and none made up, and begins  *)
(* after the last frame that NextFrame has returned.                       *)
Increasing(s) == \A j \in DOMAIN s : \A i \in 1..j - 1 : s[i] < s[j]
Below(s, t) == \A i \in DOMAIN s : \A j \in DOMAIN t : s[i] < t[j]
BytesInOrder ==
  \A j \in DOMAIN dataCh :
    LET d == dataCh[j]
    IN /\ d.body \in Seq(1..Size(d.flow)) /\ Increasing(d.body)
       /\ \A i \in 1..j - 1 : dataCh[i].flow = d.flow => Below(dataCh[i].body, d.body)
       /\ got[d.flow] # 0 => Below(<<Last(d.flow, got[d.flow])>>, d.body)

(* A reader that has read a length of zero consumes nothing, queues an     *)
(* empty packet, finds the same bytes again (reassembler.go:63-84) and so  *)
(* goes on for ever.                                                       *)
Repeats(f) ==
  pc[f] = "running" /\ ~NeedsMore(f) /\ LengthField(f, Synced(f, buf[f])) = {0}

(* What a reader makes of bytes that do not follow one another             *)
(* (reassembler.go:73) costs no more than what was lost: of the segments   *)
(* given up, each has led to at most one packet that is not a frame of the *)
(* flow, or has made the reader repeat itself.  The packets that it then   *)
(* queues, without end, are the only empty ones.  Where nothing was given  *)
(* up every packet is a frame.                                             *)
LossIsLocal ==
  \A f \in Flows :
    /\ broken[f] + (IF Repeats(f) THEN 1 ELSE 0) <= lost[f]
    /\ [flow |-> f, body |-> <<>>] \in {dataCh[i] : i \in DOMAIN dataCh} => Repeats(f)

(* The packets in dataCh, each by its flow and the number of its frame. *)
Waiting == [i \in DOMAIN dataCh |-> <<dataCh[i].flow, Number(dataCh[i])>>]

(* Frames reach NextFrame (sniffer.go:234) whole, in order and once each:  *)
(* this module implements OrderedFrames.                                   *)
Ordered == INSTANCE OrderedFrames WITH
  Count <- [f \in Flows |-> Len(FrameEnds[f])],
  Capacity <- DataBufSize,
  Skips <- Gaps \/ MaxStarts > 1,
  queue <- Waiting

DeliversInOrder == Ordered!Spec

(* Start, in its call into the assembler (sniffer.go:189,207,210), waits   *)
(* for a reader that is about to take the batch, or has taken it and goes  *)
(* on until it asks for more, if it does not repeat a zero length for      *)
(* ever; or the reader has ended on a short read (reassembler.go:73), and  *)
(* Start waits for good.                                                   *)
WaitsForReader ==
  at \in {"offer", "await"} =>
    \/ pc[flow] = "dead" /\ link[flow] # "closed"
    \/ at = "offer" /\ Starved(flow) /\ link[flow] \in {"first", "asked"}
    \/ at = "await" /\ pc[flow] = "running" /\ link[flow] = "busy"

(* Where segments end with frames the latter does not happen: a reader     *)
(* ends (reassembler.go:59,66,81) only when its connection has, and what   *)
(* it finds behind a magic number is a whole frame.                        *)
EndsWithConnection ==
  \A f \in Flows :
    /\ pc[f] = "dead" => link[f] = "closed"
    /\ pc[f] = "running" /\ ~NeedsMore(f) =>
         LET b == Synced(f, buf[f]) IN \A length \in LengthField(f, b) : ReadInFull(b, length)

(* Nothing is dropped between the assembler and NextFrame: outside of a    *)
(* call into the assembler, unless a segment is missing, the last frame    *)
(* that the network has taken is in dataCh or was returned.                *)
HandedOn ==
  at \notin {"offer", "await"} =>
    \A f \in Flows :
      missing[f] = Nothing /\ sent[f] # 0 =>
        \E k \in Ordered!Accepted(f) \cap Frames(f) : Last(f, k) = sent[f]

-----------------------------------------------------------------------------
(* Liveness. *)

(* "The Sniffer can be stopped at any time via Stop() or context           *)
(* cancellation" (README.md:18): then Start returns.                       *)
StartReturns == stopping ~> at = "returned"

(* The same, but for readers that have ended before their connection, on a *)
(* frame that is not yet complete (reassembler.go:73).                     *)
StartReturnsUnlessCut ==
  stopping ~> at = "returned" \/ \E f \in Flows : pc[f] = "dead" /\ link[f] # "closed"

(* A frame handed to its reader is returned by NextFrame. *)
Handed(f, k) == \E i \in DOMAIN current[f] : First(f, k) \in current[f][i].first..current[f][i].last
FramesArrive ==
  \A f \in Flows : \A k \in Frames(f) : Handed(f, k) ~> got[f] >= k

(* The readers of complete connections, of this call of Start or of an     *)
(* earlier one, all end, though nobody reads Errors ("the channel is       *)
(* buffered and will drop errors", sniffer.go:163).                        *)
MustEnd(f) == ending[f] > 0 \/ (link[f] = "closed" /\ pc[f] = "running")
ReadersEnd == \A f \in Flows : MustEnd(f) ~> ~MustEnd(f)
=============================================================================
