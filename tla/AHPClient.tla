------------------------------ MODULE AHPClient ------------------------------
(***************************************************************************)
(* One AHPClient and what it talks to.  Every function of AHPClient is an  *)
(* exchange: it writes a command and takes the next frame for the answer,  *)
(* whatever that frame is.  While real-time values are being sent a second *)
(* thread, Mt, reads the same socket; it is killed before STOP is written. *)
(*                                                                         *)
(* The server is the one AHPSession shows to be there: it takes commands   *)
(* in order, answers them by the table of AHPProtocol, ignores those that  *)
(* make no sense, and while a session is in REALTIME_SENDING_STATE - and   *)
(* once after STOP - sends frames nobody asked for.                        *)
(***************************************************************************)
EXTENDS AHPProtocol, Integers, FiniteSets

CONSTANTS
    MaxPushes,    \* bound: real-time frames in one behaviour
    MaxDrops      \* bound: connections that break

VARIABLES
    link,         \* m_socket: up, lost (the peer has closed, AHPClient has not
                  \* noticed) or unconnected
    mode,         \* the server's m_state
    late,         \* the server is still writing a real-time frame after STOP
    requests,     \* commands on their way to the server
    answers,      \* frames from the server that were not read
    cut,          \* Mt was killed inside a frame: what comes next on the
                  \* socket is not the beginning of one
    call,         \* the command whose answer AHPClient is waiting for
    known,         \* m_varsConfigured is filled
    reader,       \* Mt runs
    alive,        \* the client process runs
    trouble,      \* (history) what has gone wrong so far
    pushes, drops

serverVars == <<mode, late, requests, pushes>>
netVars    == <<serverVars, link, answers, cut, drops>>
clientVars == <<netVars, call, known, reader, alive, trouble>>

NoQuery == [n |-> 0, ranges |-> 0]
PlainFrame(code) == [code |-> code, query |-> NoQuery]
NoFrame == PlainFrame("none")

ClientInit ==
    /\ link = "unconnected" /\ mode = "disconnected" /\ late = FALSE
    /\ requests = << >> /\ answers = << >> /\ cut = FALSE
    /\ call = "none" /\ known = FALSE /\ reader = FALSE
    /\ alive = TRUE /\ trouble = {} /\ pushes = 0 /\ drops = 0

-----------------------------------------------------------------------------
(* The server and the network. *)

(* Connection::process...State *)
Serve(room) ==
    /\ link = "up" /\ requests # << >>
    /\ LET request == Head(requests)
           session == Take(room, [mode |-> mode, owed |-> << >>], request.code)
       IN  /\ mode' = session.mode
           /\ answers' = answers \o [i \in DOMAIN session.owed |->
                             [code |-> session.owed[i], query |-> request.query]]
           /\ late' = (late \/ (mode = "sending" /\ session.mode # "sending"))
           /\ link' = IF session.mode = "disconnected" THEN "lost" ELSE link
    /\ requests' = Tail(requests)
    /\ UNCHANGED <<pushes, cut, drops, call, known, reader, alive, trouble>>

(* Connection::sendRealtimeVariable *)
Push ==
    /\ link = "up" /\ pushes < MaxPushes
    /\ mode = "sending" \/ late
    /\ pushes' = pushes + 1
    /\ late' = FALSE
    /\ answers' = Append(answers, PlainFrame("REALTIME_VARIABLES_RESPONSE"))
    /\ UNCHANGED <<mode, requests, link, cut, drops, call, known, reader, alive, trouble>>

Drop ==
    /\ link = "up" /\ drops < MaxDrops
    /\ drops' = drops + 1
    /\ link' = "lost" /\ mode' = "disconnected" /\ requests' = << >>
    /\ trouble' = trouble \cup {"lost"}
    /\ UNCHANGED <<late, pushes, answers, cut, call, known, reader, alive>>

-----------------------------------------------------------------------------
(* AHPChannel as AHPClient uses it. *)

(* readFrame: f is the frame it returns.  Within a cut frame anything may  *)
(* be taken for a header, and swallows some of the frames that follow.     *)
ReadFrame(f) ==
    \/ /\ answers # << >> /\ ~cut
       /\ f = Head(answers) /\ answers' = Tail(answers)
       /\ UNCHANGED link
    \/ /\ answers # << >> /\ cut
       /\ f \in {PlainFrame("ACCEPT"), NoFrame}
       /\ \E n \in 1 .. Len(answers) : answers' = SubSeq(answers, n + 1, Len(answers))
       /\ UNCHANGED link
    \/ /\ answers = << >> /\ link # "up"
       /\ f = NoFrame /\ link' = "unconnected"
       /\ UNCHANGED answers

Readable == {NoFrame, PlainFrame("ACCEPT")} \cup {answers[i] : i \in DOMAIN answers}

HasPayload(f) == f.code \notin {"none", "ACCEPT", "REJECT"}

CanWrite == link # "unconnected"
WriteFrame(code, query) ==
    /\ CanWrite
    /\ requests' = IF link = "up" THEN Append(requests, [code |-> code, query |-> query])
                   ELSE requests

-----------------------------------------------------------------------------
(* The functions of AHPClient: the request, and what is made of frame f.   *)

(* connectToServer, on a new AHPClient: the host may not be there.         *)
AskHello ==
    /\ link' = "up" /\ mode' = "begin" /\ late' = FALSE
    /\ requests' = <<PlainFrame("HELLO")>> /\ answers' = << >> /\ cut' = FALSE
    /\ call' = "HELLO" /\ known' = FALSE /\ reader' = FALSE
    /\ UNCHANGED <<pushes, drops, alive, trouble>>

(* setMode, getHistorianVariables, getHistorianAlarms, disconnectFromServer *)
Ask(code, query) ==
    /\ WriteFrame(code, query)
    /\ call' = code
    /\ UNCHANGED <<mode, late, pushes, link, answers, cut, drops, known, reader, alive, trouble>>

(* getRealtimeVariables does not wait for an answer: it starts Mt, which   *)
(* may be running already.                                                 *)
GetRealtimeVariables ==
    /\ WriteFrame("GET_REALTIME_VARIABLES", NoQuery)
    /\ reader' = TRUE
    /\ UNCHANGED <<mode, late, pushes, link, answers, cut, drops, call, known, alive, trouble>>

(* stopRealtimeSending kills Mt, wherever it stands.                       *)
AskStopKeepsMt ==   \* mutant
    /\ WriteFrame("STOP_REALTIME_SENDING", NoQuery)
    /\ call' = "STOP_REALTIME_SENDING"
    /\ UNCHANGED <<mode, late, pushes, link, answers, cut, drops, known, reader, alive, trouble>>
AskStop ==
    /\ reader' = FALSE
    /\ \E inside \in BOOLEAN :
          /\ inside => reader /\ answers # << >>
          /\ cut' = (cut \/ inside)
          /\ trouble' = IF inside THEN trouble \cup {"cut"} ELSE trouble
    /\ IF CanWrite
       THEN WriteFrame("STOP_REALTIME_SENDING", NoQuery) /\ call' = "STOP_REALTIME_SENDING"
       ELSE UNCHANGED <<requests, call>>
    /\ UNCHANGED <<mode, late, pushes, link, answers, drops, known, alive>>

(* A real-time frame that was still under way is taken for the answer.     *)
Answered(f) ==
    /\ trouble' = IF f.code = "REALTIME_VARIABLES_RESPONSE" THEN trouble \cup {"stray"}
                  ELSE trouble
    /\ UNCHANGED <<mode, late, pushes, cut, drops, reader>>

EndAnswered(code, f) ==
    /\ call = code /\ call' = "none" /\ Answered(f)
    /\ UNCHANGED <<requests, known, alive>>

(* msgpack::unpack throws on an empty payload; only type_error is caught.  *)
QueryAnswered(f) ==
    /\ call \in {"GET_HISTORIAN_VARIABLES", "GET_HISTORIAN_ALARMS"} /\ call' = "none"
    /\ Answered(f)
    /\ alive' = (alive /\ HasPayload(f))
    /\ UNCHANGED <<requests, known>>

ModeAnswered(f) ==
    /\ call \in {"SET_HISTORIAN_MODE", "SET_REALTIME_MODE"} /\ call' = "none"
    /\ Answered(f)
    /\ known' = (known \/ f.code = "MODE_SUCCESSFULL")
    /\ UNCHANGED <<requests, alive>>

(* disconnectFromServer goes on with DISCONNECT once RESET_MODE succeeded. *)
ResetAnswered(f) ==
    /\ call = "RESET_MODE" /\ Answered(f)
    /\ IF f.code = "ACCEPT"
       THEN WriteFrame("DISCONNECT", NoQuery) /\ call' = "DISCONNECT"
       ELSE UNCHANGED requests /\ call' = "none"
    /\ UNCHANGED <<known, alive>>

(* Mt::ReceiveNewRealtimeVariablePoint hands the value to a slot that does *)
(* not exist under that name; a frame without payload makes it throw.      *)
MtReads ==
    /\ reader /\ alive
    /\ \E f \in Readable : ReadFrame(f) /\ alive' = HasPayload(f)
    /\ UNCHANGED <<serverVars, cut, drops, call, known, reader, trouble>>

ServerSteps == (\E room \in BOOLEAN : Serve(room)) \/ Push
=============================================================================
