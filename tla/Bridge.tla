------------------------------- MODULE Bridge -------------------------------
(***************************************************************************)
(* bridge_ws_reencrypt and _bridge_tcp_reencrypt of bridge.py: two tasks   *)
(* that carry bytes between a client and Telegram until one of them ends,  *)
(* with MsgSplitter on the way up and the frames of RawWebSocket.          *)
(*                                                                         *)
(* A byte of the client is its place in the client's stream.  Telegram     *)
(* decrypts by counting the bytes it gets, so that the two ciphers stay in *)
(* step exactly if the places arrive as 1, 2, 3...  The values of bytes    *)
(* matter for lengths only; they are scaled down: a header is one or two   *)
(* units, a length counts units, and Long stands for the mark 0x7F.        *)
(* Chunks of any size come out of the client's reader; a FakeTlsStream     *)
(* (fake_tls.py) gives none that goes beyond the end of a record.          *)
(***************************************************************************)
EXTENDS Integers, Sequences, FiniteSets, Functions

CONSTANTS Streams,  \* what a client may send
          Layouts,  \* how it may cut that into TLS records; <<>> for a client without
          Replies   \* what Telegram may send: sequences of frames

(* Records with as many units of application data, perhaps none, or others. *)
Ccs == -1
Alert == -2

Long == 3
None == -1

ASSUME StreamsAssumption == \A s \in Streams : s \in Seq(0..Long)
ASSUME LayoutsAssumption == \A l \in Layouts : l \in Seq({Ccs, Alert} \cup Nat)
ASSUME RepliesAssumption == \A r \in Replies : r \in Seq({"data", "ping", "close", "other"})

VARIABLES
  conf,       \* the bridge's arguments, and what both ends will send
  read,       \* units read from the client so far (stats.bytes_up)
  cipher,     \* _cipher_buf of the splitter: places
  plain,      \* _plain_buf: values
  disabled,   \* _disabled
  wire,       \* frames written to Telegram
  closed,     \* _closed of RawWebSocket
  inbox,      \* frames read from Telegram
  delivered,  \* which of them were written to the client
  up, down,   \* where the two tasks are
  bridge,     \* where the bridge is
  client,     \* what the client did to its connection
  telegram,   \* what happened to the connection to Telegram
  cancelled   \* history: the handler was cancelled

splitter == <<cipher, plain, disabled>>
ends == <<client, telegram>>
vars == <<conf, read, splitter, wire, closed, inbox, delivered, up, down, bridge, ends, cancelled>>

Config == [kind : {"ws", "tcp"}, proto : {"abridged", "intermediate"}, split : BOOLEAN,
           records : Layouts, stream : Streams, replies : Replies]

(* A raw TCP upstream has neither frames nor a splitter; MsgSplitter may   *)
(* have failed to start for a WebSocket.                                   *)
Init ==
  /\ conf \in {c \in Config : c.kind = "tcp" => ~c.split /\ Range(c.replies) \subseteq {"data"}}
  /\ read = 0
  /\ cipher = <<>> /\ plain = <<>> /\ disabled = FALSE
  /\ wire = <<>>
  /\ closed = FALSE
  /\ inbox = 0
  /\ delivered = <<>>
  /\ up = "read" /\ down = "recv" /\ bridge = "wait"
  /\ client = "open" /\ telegram = "open"
  /\ cancelled = FALSE

(* Operators named Bug... are what a definition below would be if the code *)
(* had a certain mistake; no specification uses them.                      *)
-----------------------------------------------------------------------------
(* FakeTlsStream *)

Tls == conf.records # <<>>

(* Where in the stream the record k ends. *)
RecordEnd(k) ==
  LET end[j \in 0..Len(conf.records)] ==
        IF j = 0 THEN 0 ELSE end[j - 1] + (IF conf.records[j] > 0 THEN conf.records[j] ELSE 0)
  IN  end[k]

RecordEnds == {RecordEnd(k) : k \in 0..Len(conf.records)}

(* _read_tls_payload stays in the record it is in (_read_left), and skips  *)
(* a ChangeCipherSpec.                                                     *)
InRecord(n) == Tls => \A e \in RecordEnds : ~(read < e /\ e < read + n)

(* Any record of another type, and one without data, reads as b''. *)
Stops == {RecordEnd(k) : k \in {j \in DOMAIN conf.records : conf.records[j] \in {0, Alert}}}
Stopped == read \in Stops

(* The connection ends: inside a record, read returns b''; where a header  *)
(* should begin, readexactly raises IncompleteReadError.                   *)
BetweenRecords == Tls /\ ~Stopped /\ read \in RecordEnds
-----------------------------------------------------------------------------
(* MsgSplitter *)

Header(buf) == IF conf.proto = "intermediate" \/ buf[1] = Long THEN 2 ELSE 1
Payload(buf) == IF conf.proto = "abridged" /\ buf[1] = Long THEN buf[2] ELSE buf[1]

(* A packet that is just complete is taken for an incomplete one. *)
BugNextPacketLen(buf) ==
  IF Len(buf) < Header(buf) THEN None
  ELSE IF Payload(buf) = 0 THEN 0
  ELSE IF Len(buf) <= Header(buf) + Payload(buf) THEN None
  ELSE Header(buf) + Payload(buf)

(* _next_packet_len: None if it takes more bytes to tell, 0 for a length   *)
(* no packet has.                                                          *)
NextPacketLen(buf) ==
  IF Len(buf) < Header(buf) THEN None
  ELSE IF Payload(buf) = 0 THEN 0
  ELSE IF Len(buf) < Header(buf) + Payload(buf) THEN None
  ELSE Header(buf) + Payload(buf)

(* split, once the chunk is in the buffers: the parts, how much of the     *)
(* buffers they use up, and whether the splitter gives up.                 *)
Split(c, p) ==
  LET from[k \in 0..Len(p)] ==
        LET n == NextPacketLen(SubSeq(p, k + 1, Len(p))) IN
        IF k = Len(p) \/ n = None THEN [parts |-> <<>>, used |-> k, off |-> FALSE]
        ELSE IF n = 0 THEN [parts |-> <<SubSeq(c, k + 1, Len(c))>>, used |-> Len(p), off |-> TRUE]
        ELSE [from[k + n] EXCEPT !.parts = <<SubSeq(c, k + 1, k + n)>> \o @]
  IN  from[0]
-----------------------------------------------------------------------------
(* Frames.  What is written to a connection that is gone, nobody reads.    *)

Put(op, parts) ==
  wire' = IF telegram = "gone" THEN wire
          ELSE wire \o [i \in DOMAIN parts |-> [op |-> op, data |-> parts[i]]]

(* RawWebSocket.send and send_batch, or a write to a raw TCP connection. *)
Send(parts, next) ==
  IF closed THEN up' = "done" /\ UNCHANGED wire
  ELSE up' = next /\ Put("binary", parts)
-----------------------------------------------------------------------------
(* tcp_to_ws *)

(* The splitter leaves in its buffer what it has just returned. *)
BugRead(n) ==
  /\ up = "read" /\ client # "reset"
  /\ ~Stopped /\ InRecord(n)
  /\ read + n <= Len(conf.stream)
  /\ read' = read + n
  /\ LET chunk == [i \in 1..n |-> read + i]
         c == cipher \o chunk
         p == plain \o SubSeq(conf.stream, read + 1, read + n)
         s == Split(c, p)
     IN  IF conf.split /\ ~disabled
         THEN /\ plain' = SubSeq(p, s.used + 1, Len(p))
              /\ cipher' = c
              /\ disabled' = s.off
              /\ IF s.parts = <<>> THEN UNCHANGED <<up, wire>> ELSE Send(s.parts, "drain")
         ELSE Send(<<chunk>>, "drain") /\ UNCHANGED splitter
  /\ UNCHANGED <<conf, closed, inbox, delivered, down, bridge, ends, cancelled>>

(* A chunk of n units is read, encrypted anew, split and sent.  Without a  *)
(* whole packet in the buffer, nothing is sent.                            *)
Read(n) ==
  /\ up = "read" /\ client # "reset"
  /\ ~Stopped /\ InRecord(n)
  /\ read + n <= Len(conf.stream)
  /\ read' = read + n
  /\ LET chunk == [i \in 1..n |-> read + i]
         c == cipher \o chunk
         p == plain \o SubSeq(conf.stream, read + 1, read + n)
         s == Split(c, p)
     IN  IF conf.split /\ ~disabled
         THEN /\ cipher' = SubSeq(c, s.used + 1, Len(c))
              /\ plain' = SubSeq(p, s.used + 1, Len(p))
              /\ disabled' = s.off
              /\ IF s.parts = <<>> THEN UNCHANGED <<up, wire>> ELSE Send(s.parts, "drain")
         ELSE Send(<<chunk>>, "drain") /\ UNCHANGED splitter
  /\ UNCHANGED <<conf, closed, inbox, delivered, down, bridge, ends, cancelled>>

(* drain raises if the connection is gone; asyncio also closes a TLS       *)
(* connection, and with it the way up, when the other side has ended it.   *)
Drained ==
  /\ up \in {"drain", "tail"}
  /\ \/ up' = "done" /\ (up = "tail" \/ telegram = "gone" \/ (telegram = "eof" /\ conf.kind = "ws"))
     \/ up' = "read" /\ up = "drain" /\ telegram # "gone"
  /\ UNCHANGED <<conf, read, splitter, wire, closed, inbox, delivered, down, bridge, ends, cancelled>>

ClientDone == client = "eof" /\ read = Len(conf.stream)

AtEof == up = "read" /\ ((client # "reset" /\ Stopped) \/ (ClientDone /\ ~BetweenRecords))

(* The end of the stream ends the task; flush is not called. *)
BugEof ==
  /\ AtEof
  /\ up' = "done"
  /\ UNCHANGED <<conf, read, splitter, wire, closed, inbox, delivered, down, bridge, ends, cancelled>>

(* read returns b'': what is left in the splitter is sent, and that's it. *)
Eof ==
  /\ AtEof
  /\ cipher' = <<>> /\ plain' = <<>>
  /\ IF cipher = <<>> THEN up' = "done" /\ UNCHANGED wire ELSE Send(<<cipher>>, "tail")
  /\ UNCHANGED <<conf, read, disabled, closed, inbox, delivered, down, bridge, ends, cancelled>>

(* read raises, and nothing is flushed. *)
ReadFails ==
  /\ up = "read"
  /\ client = "reset" \/ (ClientDone /\ BetweenRecords)
  /\ up' = "done"
  /\ UNCHANGED <<conf, read, splitter, wire, closed, inbox, delivered, down, bridge, ends, cancelled>>

UpTask == (\E n \in 1..Len(conf.stream) : Read(n)) \/ Drained \/ Eof \/ ReadFails
-----------------------------------------------------------------------------
(* ws_to_tcp *)

Arrived == down = "recv" /\ telegram # "gone" /\ inbox < Len(conf.replies)
Frame == conf.replies[inbox + 1]

(* A frame with data, written to the client. *)
RecvData ==
  /\ Arrived /\ Frame = "data"
  /\ inbox' = inbox + 1
  /\ delivered' = IF client = "reset" THEN delivered ELSE Append(delivered, inbox + 1)
  /\ down' = "drain"
  /\ UNCHANGED <<conf, read, splitter, wire, closed, up, bridge, ends, cancelled>>

(* A PING is answered; a PONG, or any frame recv does not know, is not. *)
RecvControl ==
  /\ Arrived /\ Frame \in {"ping", "other"}
  /\ inbox' = inbox + 1
  /\ IF Frame = "ping" THEN Put("pong", << <<>> >>) /\ down' = "pong" ELSE UNCHANGED <<wire, down>>
  /\ UNCHANGED <<conf, read, splitter, closed, delivered, up, bridge, ends, cancelled>>

(* The flag is set once the answer is out. *)
BugRecvClose ==
  /\ Arrived /\ Frame = "close"
  /\ inbox' = inbox + 1
  /\ Put("close", << <<>> >>)
  /\ down' = "closing"
  /\ UNCHANGED <<conf, read, splitter, closed, delivered, up, bridge, ends, cancelled>>

(* A CLOSE is answered; from then on send raises. *)
RecvClose ==
  /\ Arrived /\ Frame = "close"
  /\ inbox' = inbox + 1
  /\ closed' = TRUE
  /\ Put("close", << <<>> >>)
  /\ down' = "closing"
  /\ UNCHANGED <<conf, read, splitter, delivered, up, bridge, ends, cancelled>>

(* The awaits behind those writes: the client's drain raises if the client *)
(* is gone, the others swallow what they raise.                            *)
Delivered ==
  /\ down \in {"drain", "pong", "closing"}
  /\ down' = IF down = "closing" \/ (down = "drain" /\ client = "reset") THEN "done" ELSE "recv"
  /\ UNCHANGED <<conf, read, splitter, wire, closed, inbox, delivered, up, bridge, ends, cancelled>>

(* The end of the connection is seen before what came ahead of it. *)
BugRecvFails ==
  /\ down = "recv"
  /\ telegram \in {"eof", "gone"}
  /\ down' = "done"
  /\ UNCHANGED <<conf, read, splitter, wire, closed, inbox, delivered, up, bridge, ends, cancelled>>

(* readexactly raises, or read returns b'': the connection has ended. *)
RecvFails ==
  /\ down = "recv"
  /\ telegram = "gone" \/ (telegram = "eof" /\ inbox = Len(conf.replies))
  /\ down' = "done"
  /\ UNCHANGED <<conf, read, splitter, wire, closed, inbox, delivered, up, bridge, ends, cancelled>>

DownTask == RecvData \/ RecvControl \/ RecvClose \/ Delivered \/ RecvFails
-----------------------------------------------------------------------------
(* The bridge *)

BothCancelled == up' = "done" /\ down' = "done" /\ bridge' = "close"

(* The wait is for both of them. *)
BugFirstCompleted ==
  /\ bridge = "wait"
  /\ up = "done" /\ down = "done"
  /\ BothCancelled
  /\ UNCHANGED <<conf, read, splitter, wire, closed, inbox, delivered, ends, cancelled>>

(* FIRST_COMPLETED: the other task is cancelled at its await. *)
FirstCompleted ==
  /\ bridge = "wait"
  /\ up = "done" \/ down = "done"
  /\ BothCancelled
  /\ UNCHANGED <<conf, read, splitter, wire, closed, inbox, delivered, ends, cancelled>>

(* The handler is cancelled, and the finally of the bridge runs. *)
Cancel ==
  /\ bridge = "wait"
  /\ cancelled' = TRUE
  /\ BothCancelled
  /\ UNCHANGED <<conf, read, splitter, wire, closed, inbox, delivered, ends>>

(* ws.close and the close of the client's writer.  After a CLOSE from      *)
(* Telegram, ws.close does nothing.                                        *)
Close ==
  /\ bridge = "close"
  /\ bridge' = "done"
  /\ closed' = (closed \/ conf.kind = "ws")
  /\ IF conf.kind = "ws" /\ ~closed THEN Put("close", << <<>> >>) ELSE UNCHANGED wire
  /\ UNCHANGED <<conf, read, splitter, inbox, delivered, up, down, ends, cancelled>>
-----------------------------------------------------------------------------
(* The two ends; eof is the end of what is sent, a connection that is lost *)
(* loses what was not read.                                                *)

ClientEnds ==
  /\ client = "open" /\ client' \in {"eof", "reset"}
  /\ UNCHANGED <<conf, read, splitter, wire, closed, inbox, delivered, up, down, bridge, telegram, cancelled>>

TelegramEnds ==
  /\ \/ telegram = "open" /\ telegram' \in {"eof", "gone"}
     \/ telegram = "eof" /\ telegram' = "gone"
  /\ UNCHANGED <<conf, read, splitter, wire, closed, inbox, delivered, up, down, bridge, client, cancelled>>

Next == UpTask \/ DownTask \/ FirstCompleted \/ Cancel \/ Close \/ ClientEnds \/ TelegramEnds

Spec == Init /\ [][Next]_vars

(* Where a peer that is there but reads nothing holds a task: no drain and *)
(* no wait_closed of the bridge has a timeout.  It ends when the           *)
(* connection is lost.                                                     *)
HeldUp == up \in {"drain", "tail"} /\ telegram # "gone"
HeldDown ==
  \/ down = "drain" /\ client # "reset"
  \/ down \in {"pong", "closing"} /\ telegram # "gone"
HeldClose == bridge = "close" /\ ~(client = "reset" /\ telegram = "gone")

(* The event loop runs every task that can go on; clients and Telegram owe *)
(* nothing.                                                                *)
FairSpec ==
  /\ Spec
  /\ WF_vars(UpTask /\ ~HeldUp) /\ WF_vars(DownTask /\ ~HeldDown)
  /\ WF_vars(FirstCompleted) /\ WF_vars(Close /\ ~HeldClose)
-----------------------------------------------------------------------------
(* Every variable keeps to its values, and the two buffers of the splitter *)
(* are always of one length.                                               *)
TypeOK ==
  /\ conf \in Config
  /\ read \in 0..Len(conf.stream)
  /\ cipher \in Seq(1..read) /\ plain \in Seq(0..Long) /\ disabled \in BOOLEAN
  /\ Len(cipher) = Len(plain)
  /\ wire \in Seq([op : {"binary", "pong", "close"}, data : Seq(1..read)])
  /\ closed \in BOOLEAN /\ cancelled \in BOOLEAN
  /\ inbox \in 0..Len(conf.replies)
  /\ delivered \in Seq(1..inbox)
  /\ up \in {"read", "drain", "tail", "done"}
  /\ down \in {"recv", "drain", "pong", "closing", "done"}
  /\ bridge \in {"wait", "close", "done"}
  /\ client \in {"open", "eof", "reset"} /\ telegram \in {"open", "eof", "gone"}

(* How many bytes of the client are in the first i frames. *)
SentBy(i) == Cardinality(UNION {Range(wire[k].data) : k \in 1..i})
Sent == SentBy(Len(wire))

(* Whatever the chunks, Telegram gets the client's bytes from the first on *)
(* in their order, none twice and none left out in between, so that its    *)
(* cipher stays in step; until the upstream is lost, only what the         *)
(* splitter holds is missing.                                              *)
UpInOrder ==
  /\ \A i \in DOMAIN wire : \A j \in DOMAIN wire[i].data : wire[i].data[j] = SentBy(i - 1) + j
  /\ telegram # "gone" /\ up # "done" =>
       /\ Sent + Len(cipher) = read
       /\ \A j \in DOMAIN cipher : cipher[j] = Sent + j

(* The reference for the splitter: where packets begin and end in the      *)
(* whole stream, up to the first length no packet has.                     *)
Rest(k) == SubSeq(conf.stream, k + 1, Len(conf.stream))
HasHeader(k) == k < Len(conf.stream) /\ Len(Rest(k)) >= Header(Rest(k))
Empty(k) == HasHeader(k) /\ Payload(Rest(k)) = 0
PacketEnd(k) ==
  IF HasHeader(k) THEN k + Header(Rest(k)) + Payload(Rest(k)) ELSE Len(conf.stream) + 1

(* A packet starts at 0, and where the one before it ends. *)
ClosedUnderPackets(S) == 0 \in S /\ \A k \in S : ~Empty(k) /\ PacketEnd(k) <= Len(conf.stream) => PacketEnd(k) \in S
Starts == {k \in 0..Len(conf.stream) : \A S \in SUBSET (0..Len(conf.stream)) : ClosedUnderPackets(S) => k \in S}

(* MsgSplitter's docstring, "splits TCP stream data into individual        *)
(* MTProto transport packets so each can be sent as a separate WS frame":  *)
(* however the stream is cut into chunks, a frame that begins with a       *)
(* packet is this packet, and no whole packet waits for the next chunk.    *)
WholePackets ==
  conf.split /\ up = "read" =>
    /\ \A i \in DOMAIN wire : wire[i].op = "binary" =>
         (SentBy(i - 1) \in Starts /\ ~Empty(SentBy(i - 1)) => SentBy(i) = PacketEnd(SentBy(i - 1)))
    /\ telegram # "gone" /\ Sent < read => Sent \in Starts /\ PacketEnd(Sent) > read

(* A client that ends what it sends, on plain TCP or inside a record or    *)
(* with an alert, gets all of it through, the begun packet in the splitter *)
(* included, as long as Telegram is there.  (Between two records it may    *)
(* lose that packet.)                                                      *)
UpComplete ==
  (/\ bridge = "done" /\ ~cancelled /\ ~BetweenRecords
   /\ client # "reset" /\ telegram = "open"
   /\ \A i \in 1..inbox : conf.replies[i] # "close")
  => Sent = read /\ (Stopped \/ read = Len(conf.stream))

(* What Telegram sends reaches the client in its order, and all of it up   *)
(* to its CLOSE, unless the client ended; up to the end of a connection    *)
(* without a CLOSE, too, unless a write to a WebSocket came in between.    *)
DownComplete ==
  /\ \A i, j \in DOMAIN delivered : i < j => delivered[i] < delivered[j]
  /\ (/\ bridge = "done" /\ ~cancelled /\ client = "open" /\ ~Stopped
      /\ telegram \in (IF conf.kind = "tcp" \/ read = 0 THEN {"open", "eof"} ELSE {"open"}))
     => \A i \in DOMAIN conf.replies :
          conf.replies[i] = "data" /\ (\A j \in 1..i : conf.replies[j] # "close")
          => i \in Range(delivered)

(* Two tasks and the close of the bridge write to one WebSocket: whatever  *)
(* their order, nothing follows a CLOSE frame.                             *)
NothingAfterClose ==
  \A i \in DOMAIN wire : wire[i].op = "close" => i = Len(wire)

(* When either end of the bridge is through, both are closed before long:  *)
(* no task waits for ever on the other.  Only a peer that keeps its        *)
(* connection and reads nothing can stop that.                             *)
EndsTogether ==
  \/ <>[](HeldUp \/ HeldDown \/ HeldClose)
  \/ (client # "open" \/ telegram # "open" \/ closed ~> bridge = "done")
=============================================================================
