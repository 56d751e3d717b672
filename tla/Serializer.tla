------------------------------ MODULE Serializer ------------------------------
(***************************************************************************)
(* msgpack as Serializer uses it.  An object is packed as the array of the *)
(* fields its class lists in MSGPACK_DEFINE; here a byte for their number, *)
(* one for how much there is in them, and what there is.  An array of      *)
(* fewer fields than the class has is taken, the others stay as they are.  *)
(***************************************************************************)
EXTENDS Integers, Sequences

(* MSGPACK_DEFINE of the payload classes *)
Fields == [HISTORIAN_VARIABLES_RESPONSE |-> 2, GET_HISTORIAN_VARIABLES |-> 2,
           HISTORIAN_ALARMS_RESPONSE |-> 2, GET_HISTORIAN_ALARMS |-> 1,
           GET_REALTIME_VARIABLES |-> 1, REALTIME_VARIABLES_RESPONSE |-> 1,
           MODE_SUCCESSFULL |-> 1]

HasObject(code) == code \in DOMAIN Fields

(* serialize *)
Serialize(code, items) == <<Fields[code], Len(items)>> \o items

(* deserialize: only a type_error is caught, the exception unpack throws   *)
(* for bytes that are no object, or no bytes, is not.                      *)
Throws == <<-1>>
Deserialize(code, bytes) ==
    IF Len(bytes) < 2 \/ Len(bytes) # bytes[2] + 2 THEN Throws
    ELSE IF bytes[1] > Fields[code] THEN << >>
    ELSE SubSeq(bytes, 3, Len(bytes))
=============================================================================
