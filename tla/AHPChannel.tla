------------------------------ MODULE AHPChannel ------------------------------
(***************************************************************************)
(* AHPChannel in one direction, byte by byte.  writeFrame gives the socket *)
(* the bytes of a frame at once; TCP hands them over in pieces of any      *)
(* size; readFrame waits, field by field, until the bytes of the field are *)
(* there.  Nothing in the stream says where a frame begins: writer and     *)
(* reader must agree on the length of every field.  Only the wait for the  *)
(* first field looks at the state of the socket, the others wait for ever. *)
(***************************************************************************)
EXTENDS Serializer, FiniteSets, SequencesExt

CONSTANTS
    Codes,         \* AHPCommand: the commands, as numbers
    Bodies,        \* what there may be in an object
    Radix,         \* values a byte has
    SIZE_SIZE, CRC_SIZE,   \* in bytes; VERSION_SIZE and CODE_SIZE are 1
    MaxFrames      \* bound: frames written in one behaviour

ASSUME ChannelAssumption ==
    /\ {Radix, SIZE_SIZE, CRC_SIZE} \subseteq Nat \ {0} /\ MaxFrames \in Nat
    /\ Bodies \subseteq Seq(Nat)
    /\ \A c \in DOMAIN Codes : Codes[c] \in 0 .. Radix - 1
    /\ \A c, d \in DOMAIN Codes : Codes[c] = Codes[d] => c = d

VARIABLES
    wire,      \* bytes on their way
    arrived,   \* bytes the socket has for readFrame
    open,      \* the writer has not closed the connection
    field,     \* the field readFrame waits for, or "done"
    frame,     \* what it has read of the frame
    written,   \* (history) the objects written
    received,  \* (history) the objects made of the frames read
    ok         \* what readFrame returned last

vars == <<wire, arrived, open, field, frame, written, received, ok>>

EmptyFrame == [version |-> 0, code |-> 0, size |-> 0, payload |-> << >>, crc |-> 0]

Init ==
    /\ wire = << >> /\ arrived = << >> /\ open = TRUE
    /\ field = "version" /\ frame = EmptyFrame /\ ok = TRUE
    /\ written = << >> /\ received = << >>

-----------------------------------------------------------------------------
(* QDataStream: big-endian numbers.  A number wider than its field loses   *)
(* its upper digits.                                                       *)
Shifted(n, w) ==
    LET shift[i \in 0 .. w] == IF i = 0 THEN n ELSE shift[i - 1] \div Radix IN shift
Digits(n, w) == [i \in 1 .. w |-> Shifted(n, w)[w - i] % Radix]
Values(s) ==
    LET value[i \in 0 .. Len(s)] == IF i = 0 THEN 0 ELSE value[i - 1] * Radix + s[i] IN value
Number(s) == Values(s)[Len(s)]

(* A field has room for a number: the shifts leave nothing of it.  The     *)
(* length of a QByteArray is an int, for which the size field has room.    *)
HasRoom(n, w) == Shifted(n, w)[w] = 0
ASSUME SizeAssumption ==
    \A name \in DOMAIN Codes, items \in Bodies :
       HasObject(name) => HasRoom(Len(Serialize(name, items)), SIZE_SIZE)

(* AHPFrameFactory::createFrame; the CRC is a constant. *)
CreateFrame(code, payload) ==
    [version |-> 1, code |-> code, size |-> Len(payload), payload |-> payload, crc |-> 1]

(* The bytes writeFrame puts together. *)
BytesAlwaysCrc(f) ==   \* mutant
    <<f.version, f.code>> \o Digits(f.size, SIZE_SIZE) \o f.payload \o Digits(f.crc, CRC_SIZE)
Bytes(f) ==
    <<f.version, f.code>> \o Digits(f.size, SIZE_SIZE)
       \o (IF f.size > 0 THEN f.payload \o Digits(f.crc, CRC_SIZE) ELSE << >>)

Object(name, items) == [name |-> name, items |-> items]
Item == {Object(name, items) : name \in DOMAIN Codes, items \in Bodies}

WriteFrame ==
    /\ open /\ Len(written) < MaxFrames
    /\ \E name \in DOMAIN Codes, items \in Bodies :
          /\ ~HasObject(name) => items = << >>
          /\ wire' = wire \o Bytes(CreateFrame(Codes[name],
                                IF HasObject(name) THEN Serialize(name, items) ELSE << >>))
          /\ written' = Append(written, Object(name, items))
    /\ UNCHANGED <<arrived, open, field, frame, received, ok>>

Arrive ==
    /\ wire # << >>
    /\ \E n \in 1 .. Len(wire) :
          /\ arrived' = arrived \o SubSeq(wire, 1, n)
          /\ wire' = SubSeq(wire, n + 1, Len(wire))
    /\ UNCHANGED <<open, field, frame, written, received, ok>>

(* The writer closes, or goes away with some of its bytes. *)
Close ==
    /\ open /\ open' = FALSE
    /\ \E n \in 0 .. Len(wire) : wire' = SubSeq(wire, 1, n)
    /\ UNCHANGED <<arrived, field, frame, written, received, ok>>

-----------------------------------------------------------------------------
(* readFrame *)

Width == [version |-> 1, code |-> 1, size |-> SIZE_SIZE, payload |-> frame.size,
          crc |-> CRC_SIZE]
NextField(size) ==
    [version |-> "code", code |-> "size", size |-> IF size > 0 THEN "payload" ELSE "done",
     payload |-> "crc", crc |-> "done"]

ReadSome ==   \* mutant: takes the bytes that are there
    /\ field \in DOMAIN Width /\ arrived # << >>
    /\ LET n     == IF Len(arrived) < Width[field] THEN Len(arrived) ELSE Width[field]
           bytes == SubSeq(arrived, 1, n)
           value == IF field = "payload" THEN bytes ELSE Number(bytes)
       IN  /\ frame' = [frame EXCEPT ![field] = value]
           /\ arrived' = SubSeq(arrived, n + 1, Len(arrived))
           /\ field' = NextField(frame'.size)[field]
    /\ UNCHANGED <<wire, open, written, received, ok>>
ReadField ==
    /\ field \in DOMAIN Width /\ Len(arrived) >= Width[field]
    /\ LET bytes == SubSeq(arrived, 1, Width[field])
           value == IF field = "payload" THEN bytes ELSE Number(bytes)
       IN  /\ frame' = [frame EXCEPT ![field] = value]
           /\ arrived' = SubSeq(arrived, Width[field] + 1, Len(arrived))
           /\ field' = NextField(frame'.size)[field]
    /\ UNCHANGED <<wire, open, written, received, ok>>

(* The frame is complete; the caller makes an object of it and reads the   *)
(* next one into a new AHPFrame.                                           *)
NameOf(code) == IF \E name \in DOMAIN Codes : Codes[name] = code
                THEN CHOOSE name \in DOMAIN Codes : Codes[name] = code ELSE "unknown"
FrameRead ==
    /\ field = "done"
    /\ LET name == NameOf(frame.code)
       IN  received' = Append(received, Object(name,
              IF HasObject(name) THEN Deserialize(name, frame.payload) ELSE frame.payload))
    /\ ok' = TRUE
    /\ field' = "version" /\ frame' = EmptyFrame
    /\ UNCHANGED <<wire, arrived, open, written>>

(* Unconnected at the first field: readFrame returns false.                *)
NeverEnds ==   \* mutant: no wait looks at the state of the socket
    FALSE /\ UNCHANGED vars
ReadEnds ==
    /\ ok /\ field = "version" /\ arrived = << >> /\ wire = << >> /\ ~open
    /\ ok' = FALSE /\ field' = "stopped"
    /\ UNCHANGED <<wire, arrived, open, frame, written, received>>

Read == ReadField \/ FrameRead \/ ReadEnds
Next == WriteFrame \/ Arrive \/ Close \/ Read

(* What was written arrives, and the reader goes on while it can.          *)
Spec == Init /\ [][Next]_vars /\ WF_vars(Read) /\ WF_vars(Arrive)

-----------------------------------------------------------------------------
(* The channel is a queue of objects, whatever the pieces the bytes come   *)
(* in and whichever of the frames have a payload.                          *)
Pending == SubSeq(written, Len(received) + 1, Len(written))
Queue == INSTANCE FrameQueue WITH queue <- Pending, out <- received
ImplementsQueue == Queue!Spec

BytesOf(o) ==
    Bytes(CreateFrame(Codes[o.name],
                      IF HasObject(o.name) THEN Serialize(o.name, o.items) ELSE << >>))
(* Every frame that is written while the connection stays is read, and a   *)
(* reader whose peer closes between two frames is told so.                 *)
Received ==
    \A n \in 1 .. MaxFrames : Len(written) >= n ~> Len(received) >= n \/ ~open
Told ==
    ~open /\ field = "version"
       /\ arrived \o wire = FlattenSeq([i \in DOMAIN Pending |-> BytesOf(Pending[i])]) ~> ~ok
=============================================================================
