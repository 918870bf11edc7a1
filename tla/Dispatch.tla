------------------------------ MODULE Dispatch ------------------------------
(***************************************************************************)
(* What ProcessFrames (sniffer.go) does with the body of one frame: it sets *)
(* a reader up, decodes one GenericHeader per message (message.go) and      *)
(* calls the handler, which is a client's or that of a subscriber           *)
(* (subscriber_gameevent.go, subscriber_keepalive.go).                      *)
(*                                                                          *)
(* A body is cut into cells of eight bytes, numbered from 1.  The first     *)
(* cell of a message begins with its length, the second holds its segment   *)
(* type, the third the opcode or the ID.  What is read as a length, a       *)
(* segment or an opcode from any other cell is arbitrary.  The cells of a   *)
(* body that only an Oodle decoder could read are of no message: they are   *)
(* numbered from the end of the messages on.                                *)
(*                                                                          *)
(* What Peek returns is a slice of the bufio.Reader's buffer, and so is the *)
(* Body of a GameEventMessage: the model keeps the array, the bounds of the *)
(* slices taken of it, and what they held when they were handed out.        *)
(***************************************************************************)
EXTENDS Naturals, Sequences

CONSTANTS
  MaxMessages,  \* bound: messages of a frame
  MaxLength,    \* bound: cells of a message, and of what is read as a length
  BufferSize,   \* cells in the buffer of a bufio.Reader of default size
  Handlers,     \* the FrameHandlers to consider, a subset of Kinds
  Opcodes,      \* the opcodes that GameEvent messages carry
  Wanted,       \* WithOpcodes: the opcodes to deliver, all if empty
  Compressions  \* compressions that frames come with

(* "client" is a handler that peeks at the rest of its message, as long as *)
(* the header says, keeps what it sees and discards it from the reader.    *)
Kinds == {"client", "gameEvent", "keepalive"}
Segments == {"gameEvent", "keepalive", "session"}
HeaderLength == 2
GameEventHeader == 2
KeepaliveHeader == 1

ASSUME DispatchAssumption ==
  /\ MaxMessages \in Nat /\ MaxLength \in Nat
  /\ BufferSize \in Nat /\ BufferSize >= HeaderLength
  /\ Handlers \subseteq Kinds /\ Wanted \subseteq Opcodes
  /\ Compressions \subseteq {"none", "zlib", "oodle"}

VARIABLES
  handler,     \* the FrameHandler that ProcessFrames was given
  messages,    \* the messages the sender has put into the frame
  compression, \* frame.Compression
  reader,      \* the bufio.Reader over the body
  header,      \* the GenericHeader decoded last
  count,       \* messages for which the handler has been called
  called,      \* the messages whose headers the handler was called with
  delivered,   \* the messages that a subscriber has delivered
  kept,        \* the slices that were handed out, and what they held
  step         \* where ProcessFrames is

vars == <<handler, messages, compression, reader, header, count, called, delivered, kept, step>>

(* A message: its segment, its opcode and the number of its last cell. *)
Message == [segment : Segments, opcode : Opcodes, last : 1..MaxMessages * MaxLength]

First(m) == IF m = 1 THEN 1 ELSE messages[m - 1].last + 1
Length(m) == (messages[m].last + 1) - First(m)

(* The number of cells of the messages. *)
Size == IF messages = <<>> THEN 0 ELSE messages[Len(messages)].last

(* The sender puts into a message what its segment asks for. *)
Shortest(segment) ==
  CASE segment = "gameEvent" -> HeaderLength + GameEventHeader
    [] segment = "keepalive" -> HeaderLength + KeepaliveHeader
    [] segment = "session"   -> HeaderLength

-----------------------------------------------------------------------------
(* A bufio.Reader: its buffer, of which r cells are consumed and w written, *)
(* and the source behind it, the cells from next to end.                   *)

Empty == 0
ReaderOfSize(size, first, last) ==
  [buf |-> [i \in 1..size |-> Empty], r |-> 0, w |-> 0, next |-> first, end |-> last]

(* Mutated: a buffer with room for no more than a header. *)
OpenSmall(first, last) == ReaderOfSize(HeaderLength, first, last)
Open(first, last) == ReaderOfSize(BufferSize, first, last)

Room(b) == Len(b.buf)
Buffered(b) == b.w - b.r
Behind(b) == (b.end + 1) - b.next

(* The number of the cell at the front of the buffer. *)
Front(b) == b.next - b.w

(* The buffered cells slide to the front, and one read fills the rest of   *)
(* the buffer as far as the source goes.                                   *)
Fill(b) ==
  LET old == Buffered(b)
      new == IF Behind(b) < Room(b) - old THEN Behind(b) ELSE Room(b) - old
  IN [buf |-> [i \in 1..Room(b) |-> IF i <= old THEN b.buf[b.r + i]
                                    ELSE IF i <= old + new THEN b.next + i - old - 1
                                    ELSE b.buf[i]],
      r |-> 0, w |-> old + new, next |-> b.next + new, end |-> b.end]

(* Peek fills the buffer if it holds too little. *)
Peek(b, n) == IF Buffered(b) < n /\ Buffered(b) < Room(b) THEN Fill(b) ELSE b

CanPeek(b, n) == n <= Buffered(b) + Behind(b) /\ n <= Room(b)

(* Discard of cells that Peek has returned. *)
Discard(b, n) == [b EXCEPT !.r = @ + n]

(* The slice of the next n cells without the first skip: where it begins,  *)
(* what it holds, and what the buffer began with when it was taken.        *)
Slice(b, skip, n) ==
  [from |-> b.r + skip + 1, front |-> Front(b),
   held |-> [i \in 1..n - skip |-> b.buf[b.r + skip + i]]]

(* The message whose i-th cell a cell is, if there is one. *)
Owner(cell, i) == {m \in DOMAIN messages : i <= Length(m) /\ cell = First(m) + i - 1}

LengthAt(cell) == IF Owner(cell, 1) = {} THEN 0..MaxLength ELSE {Length(m) : m \in Owner(cell, 1)}
SegmentAt(cell) ==
  IF Owner(cell, 2) = {} THEN Segments ELSE {messages[m].segment : m \in Owner(cell, 2)}
OpcodeAt(cell) ==
  IF Owner(cell, 3) = {} THEN Opcodes ELSE {messages[m].opcode : m \in Owner(cell, 3)}

(* GenericHeader.Decode: the headers it may find, none if it fails, and    *)
(* the reader it leaves.  A header read from the first two cells of a      *)
(* message is that message's, any other is of message 0.                   *)
DecodeHeader(b) ==
  LET p == Peek(b, HeaderLength)
      a == p.buf[p.r + 1]
      c == p.buf[p.r + 2]
      own == Owner(a, 1) \cap Owner(c, 2)
  IN IF ~CanPeek(b, HeaderLength) THEN {}
     ELSE [message : IF own = {} THEN {0} ELSE own, length : LengthAt(a), segment : SegmentAt(c)]

AfterHeader(b) == Discard(Peek(b, HeaderLength), HeaderLength)

(* Mutated: the length is taken to be that of what follows the header. *)
FollowingAll(length) == length
Following(length) == length - HeaderLength

(* What a message holds beyond its header must be there and must fit the   *)
(* reader's buffer.                                                        *)
Holds(h, b) == h.length >= HeaderLength /\ CanPeek(b, Following(h.length))

(* The message of a header; 0 if what follows the header is not its rest. *)
Found(h, p) ==
  IF /\ h.message # 0
     /\ \A i \in 1..Following(h.length) : p.buf[p.r + i] = First(h.message) + HeaderLength + i - 1
  THEN h.message ELSE 0

(* Where Decode has found the data of a message at p. *)
Result(h, p, slices) ==
  {[result |-> "message", message |-> Found(h, p), opcode |-> o, slices |-> slices,
    reader |-> Discard(p, Following(h.length))] : o \in OpcodeAt(p.buf[p.r + 1])}

(* GameEventMessage.Decode, its header being decoded: Body is a slice of   *)
(* the buffer; slicing too short a message for it panics.                  *)
GameEventOf(h, b) ==
  LET p == Peek(b, Following(h.length))
  IN IF Following(h.length) < GameEventHeader THEN {[result |-> "panic", reader |-> p]}
     ELSE Result(h, p, <<Slice(p, GameEventHeader, Following(h.length))>>)

(* KeepaliveMessage.Decode: slicing too short a message reads on in the    *)
(* buffer, and panics only where the buffer ends.                          *)
KeepaliveOf(h, b) ==
  LET p == Peek(b, Following(h.length))
  IN IF Following(h.length) < KeepaliveHeader
     THEN {[result |-> "panic", reader |-> p]} \cup
          {[result |-> "message", message |-> 0, opcode |-> o, slices |-> <<>>, reader |-> p] : o \in Opcodes}
     ELSE Result(h, p, <<>>)

(* What Decode makes of a header and the reader behind it. *)
DecodeRest(segment, h, b) ==
  IF ~Holds(h, b) THEN {[result |-> "error", reader |-> Peek(b, Following(h.length))]}
  ELSE IF segment = "gameEvent" THEN GameEventOf(h, b) ELSE KeepaliveOf(h, b)

(* Both Decode methods begin with the header, as if it were still to be read. *)
DecodeAs(segment, b) ==
  IF DecodeHeader(b) = {} THEN {[result |-> "error", reader |-> Peek(b, HeaderLength)]}
  ELSE UNION {DecodeRest(segment, h, AfterHeader(b)) : h \in DecodeHeader(b)}

-----------------------------------------------------------------------------
Init ==
  /\ messages \in UNION {[1..n -> Message] : n \in 0..MaxMessages}
  /\ \A m \in DOMAIN messages : Length(m) \in Shortest(messages[m].segment)..MaxLength
  /\ compression \in Compressions /\ handler \in Handlers
  /\ reader = Open(1, 0) /\ header = [message |-> 0, length |-> 0, segment |-> "session"]
  /\ count = 0 /\ called = <<>> /\ delivered = <<>> /\ kept = <<>>
  /\ step = "frame"

(* The reader for the frame.  zpool has no New function, so that Get       *)
(* returns nil for the first zlib frame, and asserting that it is a reader *)
(* panics.  A body of any other compression is read as it is.              *)
SetUp ==
  /\ step = "frame"
  /\ \/ /\ compression = "zlib"
        /\ step' = "panic" /\ UNCHANGED reader
     \/ /\ compression = "none"
        /\ step' = "loop" /\ reader' = Open(1, Size)
     \/ /\ compression = "oodle"
        /\ step' = "loop"
        /\ \E n \in 0..Size : reader' = Open(Size + 1, Size + n)
  /\ UNCHANGED <<handler, messages, compression, header, count, called, delivered, kept>>

(* Mutated: the loop ends one message early. *)
AllButOneHandled == count + 1 >= Len(messages)
AllHandled == count = Len(messages)

(* A step that cannot peek at n cells ends with an error, but the buffered *)
(* cells have slid.                                                        *)
Fail(b, n) == step' = "error" /\ reader' = Peek(b, n)

NextMessage ==
  /\ step = "loop" /\ ~AllHandled
  /\ \/ /\ DecodeHeader(reader) = {}
        /\ Fail(reader, HeaderLength) /\ UNCHANGED <<header, count, called>>
     \/ \E h \in DecodeHeader(reader) :
          /\ header' = h /\ reader' = AfterHeader(reader)
          /\ count' = count + 1 /\ called' = Append(called, h.message)
          /\ step' = "handler"
  /\ UNCHANGED <<handler, messages, compression, delivered, kept>>

EndFrame ==
  /\ step = "loop" /\ AllHandled
  /\ step' = "done"
  /\ UNCHANGED <<handler, messages, compression, reader, header, count, called, delivered, kept>>

(* A client's handler. *)
ClientHandler ==
  /\ step = "handler" /\ handler = "client"
  /\ LET n == Following(header.length)
         p == Peek(reader, n)
     IN \/ /\ Holds(header, reader)
           /\ kept' = Append(kept, Slice(p, 0, n))
           /\ reader' = Discard(p, n) /\ step' = "loop"
        \/ /\ ~Holds(header, reader)
           /\ Fail(reader, n) /\ UNCHANGED kept
  /\ UNCHANGED <<handler, messages, compression, header, count, called, delivered>>

(* A subscriber returns at once from a message of another segment. *)
SkipMessage ==
  /\ step = "handler" /\ handler # "client" /\ header.segment # handler
  /\ step' = "loop"
  /\ UNCHANGED <<handler, messages, compression, reader, header, count, called, delivered, kept>>

(* The opcode filter. *)
Passes(opcode) == handler = "gameEvent" /\ Wanted # {} => opcode \in Wanted

(* It decodes its own, from where the reader is, and delivers it unless    *)
(* its opcode is filtered out.                                             *)
DecodeOwn ==
  /\ step = "handler" /\ handler # "client" /\ header.segment = handler
  /\ \E d \in DecodeAs(handler, reader) :
       \/ /\ d.result = "message"
          /\ step' = "loop" /\ reader' = d.reader
          /\ \/ /\ Passes(d.opcode)
                /\ delivered' = Append(delivered, [message |-> d.message, opcode |-> d.opcode])
                /\ kept' = kept \o d.slices
             \/ ~Passes(d.opcode) /\ UNCHANGED <<delivered, kept>>
       \/ /\ d.result # "message"
          /\ step' = d.result /\ reader' = d.reader
          /\ UNCHANGED <<delivered, kept>>
  /\ UNCHANGED <<handler, messages, compression, header, count, called>>

Next == SetUp \/ NextMessage \/ EndFrame \/ ClientHandler \/ SkipMessage \/ DecodeOwn

Spec == Init /\ [][Next]_vars
-----------------------------------------------------------------------------
Finished == step \in {"done", "error", "panic"}

(* The unread cells of a reader are those from number p on. *)
Reads(b, p) ==
  /\ b.next = p + Buffered(b)
  /\ \A i \in 1..Buffered(b) : b.buf[b.r + i] = p + i - 1

(* The rest of a message fits the buffer. *)
Fits(m) == Length(m) <= HeaderLength + BufferSize

(* FrameHandler "is called by ProcessFrames for each message in a frame"   *)
(* (sniffer.go:259): once each and in order, without an error, if it reads *)
(* its message to the end and the buffer is large enough for that.         *)
CalledForEachMessage ==
  /\ handler = "client" /\ compression = "none"
  /\ \A m \in DOMAIN messages : Fits(m)
  => /\ \A i \in DOMAIN called : called[i] = i
     /\ Finished => step = "done" /\ Len(called) = Len(messages)

(* Decode turns the bytes of a message into that message and leaves the    *)
(* reader at the next one (message.go:100,174), if it fits the buffer,     *)
(* wherever in the buffer the message begins and whatever else it holds.   *)
DecodeFindsMessage ==
  \A m \in DOMAIN messages :
    /\ step = "loop" /\ Reads(reader, First(m))
    /\ messages[m].segment # "session" /\ Fits(m)
    => \A d \in DecodeAs(messages[m].segment, reader) :
         /\ d.result = "message" /\ d.message = m /\ d.opcode = messages[m].opcode
         /\ Reads(d.reader, messages[m].last + 1)

(* A Body that has been handed out (message.go:128) is a slice of the      *)
(* reader's buffer.  It keeps what it holds while its frame is processed,  *)
(* until more of the frame has been read since the cells that the buffer   *)
(* began with than a buffer of default size has room for; a Peek that asks *)
(* for more than the frame holds, with which its processing ends, may move *)
(* the cells earlier.  So in a frame that fits the buffer every Body stays *)
(* as it is, and in a larger one those of the last refill do.              *)
Intact(k) == \A i \in DOMAIN k.held : reader.buf[k.from + i - 1] = k.held[i]
BodiesIntact ==
  step # "error" =>
    \A i \in DOMAIN kept : reader.next <= kept[i].front + BufferSize => Intact(kept[i])

(* The same without a bound: no refill comes over a Body handed out.       *)
AllBodiesIntact == \A i \in DOMAIN kept : Intact(kept[i])

(* "It handles decompression and reader setup" (sniffer.go:263). *)
HandlesDecompression == compression = "zlib" => step # "panic"

(* "It reassembles TCP streams ..., and dispatches decoded messages to     *)
(* subscribers" (doc.go:4): a subscriber delivers every message of its     *)
(* segment whose opcode passes, and nothing else.                          *)
DeliversMessages ==
  LET Due(m) == messages[m].segment = handler /\ Passes(messages[m].opcode)
  IN Finished => [i \in DOMAIN delivered |-> delivered[i].message]
                   = SelectSeq([m \in DOMAIN messages |-> m], Due)
=============================================================================
