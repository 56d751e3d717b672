----------------------------- MODULE AHPProtocol -----------------------------
(* The sessions of the AREX Historian Protocol as connection.cpp has them: *)
(* the modes, the commands each has a case for, and the answers.  The      *)
(* document (Protocol description/protocol) says otherwise in two places:  *)
(* SET_*_MODE is answered ACCEPT or REJECT (84, 108), and STOP also resets *)
(* the mode (120, 132), so that a SET_*_MODE may follow it (71, 95).       *)
EXTENDS Sequences

Answers == {"ACCEPT", "REJECT", "MODE_SUCCESSFULL", "HISTORIAN_VARIABLES_RESPONSE",
            "HISTORIAN_ALARMS_RESPONSE"}

(* mode, command, next mode, answers; room: can the server take a session? *)
Protocol(room) == {
    <<"begin",     "HELLO",                  IF room THEN "connected" ELSE "disconnected",
                                             IF room THEN <<"ACCEPT">> ELSE <<"REJECT">> >>,
    <<"begin",     "DISCONNECT",             "disconnected", << >> >>,
    <<"connected", "SET_REALTIME_MODE",      "realtime",     <<"MODE_SUCCESSFULL">> >>,
    <<"connected", "SET_HISTORIAN_MODE",     "historian",    <<"MODE_SUCCESSFULL">> >>,
    <<"connected", "DISCONNECT",             "disconnected", <<"ACCEPT">> >>,
    <<"realtime",  "GET_REALTIME_VARIABLES", "sending",      << >> >>,
    <<"realtime",  "RESET_MODE",             "connected",    <<"ACCEPT">> >>,
    <<"sending",   "STOP_REALTIME_SENDING",  "realtime",     <<"ACCEPT">> >>,
    <<"historian", "GET_HISTORIAN_VARIABLES", "historian",   <<"HISTORIAN_VARIABLES_RESPONSE">> >>,
    <<"historian", "GET_HISTORIAN_ALARMS",   "historian",    <<"HISTORIAN_ALARMS_RESPONSE">> >>,
    <<"historian", "RESET_MODE",             "connected",    <<"ACCEPT">> >> }

(* What command c makes of a session; a command that makes no sense in the *)
(* mode it meets is ignored.                                               *)
Take(room, session, c) ==
    LET rows == {r \in Protocol(room) : r[1] = session.mode /\ r[2] = c}
    IN  IF rows = {} THEN session
        ELSE LET r == CHOOSE r \in rows : TRUE
             IN  [mode |-> r[3], owed |-> session.owed \o r[4]]
=============================================================================
