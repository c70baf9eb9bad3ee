------------------------------- MODULE Frames -------------------------------
(***************************************************************************)
(* How data is put into frames and records: _build_frame, _read_frame and  *)
(* _xor_mask of raw_websocket.py, wrap_tls_record of fake_tls.py.  The     *)
(* other end of a WebSocket does the same, without a mask.                 *)
(*                                                                         *)
(* Bytes of a header are numbers.  A byte of a payload is the set of what  *)
(* was added to it by exclusive or: its place, and bytes of the mask.      *)
(***************************************************************************)
LOCAL INSTANCE Integers
LOCAL INSTANCE Sequences

CONSTANTS Lengths, \* of payloads
          Sizes    \* of data that goes into TLS records

ASSUME LengthsAssumption == Lengths \cup Sizes \subseteq Nat
(* What eight bytes can hold; struct.pack raises for more. *)
ASSUME LongestAssumption == \A n \in Lengths : (((n \div 65536) \div 65536) \div 65536) \div 65536 = 0

TLS_APPDATA_MAX == 16384

(* struct.pack and unpack of an unsigned number, big-endian. *)
Pack(n, size) ==
  LET rest[k \in 0..(size - 1)] == IF k = 0 THEN n ELSE rest[k - 1] \div 256
  IN  [k \in 1..size |-> rest[size - k] % 256]
Unpack(bytes) ==
  LET value[k \in 0..Len(bytes)] == IF k = 0 THEN 0 ELSE value[k - 1] * 256 + bytes[k]
  IN  value[Len(bytes)]

(* Python's mask * n *)
Repeat(mask, n) == [i \in 1..(n * Len(mask)) |-> mask[((i - 1) % Len(mask)) + 1]]

(* The operators named Bug... are what a definition below would be if the  *)
(* code had a certain mistake.                                             *)
-----------------------------------------------------------------------------
(* 126 is taken for a length that fits the first byte. *)
BugFrameHeader(opcode, length, mask) ==
  LET bit == IF mask THEN 128 ELSE 0
  IN  <<128 + opcode>> \o CASE length <= 126                   -> <<bit + length>>
                            [] length > 126 /\ length < 65536 -> <<bit + 126>> \o Pack(length, 2)
                            [] length >= 65536                 -> <<bit + 127>> \o Pack(length, 8)

(* _build_frame, up to the mask and the payload. *)
FrameHeader(opcode, length, mask) ==
  LET bit == IF mask THEN 128 ELSE 0
  IN  <<128 + opcode>> \o CASE length < 126                     -> <<bit + length>>
                            [] length >= 126 /\ length < 65536 -> <<bit + 126>> \o Pack(length, 2)
                            [] length >= 65536                  -> <<bit + 127>> \o Pack(length, 8)

(* _read_frame, up to the mask and the payload; used is what it has read.  *)
ReadHeader(bytes) ==
  LET first == bytes[2] % 128
      used == CASE first < 126 -> 2 [] first = 126 -> 4 [] first = 127 -> 10
  IN  [opcode |-> bytes[1] % 16,
       length |-> IF used = 2 THEN first ELSE Unpack(SubSeq(bytes, 3, used)),
       mask   |-> bytes[2] >= 128,
       used   |-> used]

(* The mask is repeated as often as the data takes, and cut. *)
XorMask(data, mask) ==
  LET rep == Repeat(mask, Len(data) \div 4 + 1)
  IN  [i \in DOMAIN data |-> (data[i] \ rep[i]) \cup (rep[i] \ data[i])]

(* wrap_tls_record: where the records begin, and what each holds.          *)
WrapTlsRecord(size) ==
  [k \in 1..((size + TLS_APPDATA_MAX - 1) \div TLS_APPDATA_MAX) |->
     LET offset == (k - 1) * TLS_APPDATA_MAX
         rest == size - offset
     IN  [from |-> offset, length |-> IF rest < TLS_APPDATA_MAX THEN rest ELSE TLS_APPDATA_MAX]]
-----------------------------------------------------------------------------
(* Whatever the length of a payload, what _read_frame makes of a frame of  *)
(* _build_frame is the opcode, the mask bit and the length it was built    *)
(* with, and it stops where the frame does; a payload is masked byte for   *)
(* byte as RFC 6455 has it, so that the server, or the same code, unmasks  *)
(* it; and the records of data follow each other without gap, none empty,  *)
(* which would end the stream, and none longer than TLS allows.            *)
FramesRoundTrip ==
  /\ \A opcode \in {1, 2, 8, 9, 10}, length \in Lengths, mask \in BOOLEAN :
       LET header == FrameHeader(opcode, length, mask)
       IN  ReadHeader(header \o <<0, 0, 0, 0, 0, 0, 0, 0>>)
             = [opcode |-> opcode, length |-> length, mask |-> mask, used |-> Len(header)]
  /\ \A length \in Lengths :
       LET data == [i \in 1..length |-> {<<"data", i>>}]
           mask == [i \in 1..4 |-> {<<"mask", i>>}]
           masked == XorMask(data, mask)
       IN  /\ \A i \in 1..length : masked[i] = {<<"data", i>>, <<"mask", ((i - 1) % 4) + 1>>}
           /\ XorMask(masked, mask) = data
  /\ \A size \in Sizes :
       LET records == WrapTlsRecord(size)
       IN  /\ \A k \in DOMAIN records :
                /\ records[k].length \in 1..TLS_APPDATA_MAX
                /\ records[k].from = (IF k = 1 THEN 0 ELSE records[k - 1].from + records[k - 1].length)
                /\ k = Len(records) => records[k].from + records[k].length = size
           /\ records = <<>> => size = 0
=============================================================================
