------------------------------ MODULE AHPServer ------------------------------
(***************************************************************************)
(* AHPServer and its Connection threads.  The main thread accepts TCP      *)
(* connections, starts one thread per connection, deletes the Connection   *)
(* object of a thread that has ended, and - since a Connection object      *)
(* lives in the main thread - runs sendRealtimeVariable for every sample   *)
(* and every subscribed connection, with no lock: it tests the list of     *)
(* wanted variables and then writes to the socket of the connection        *)
(* thread.  A connection thread reads a frame, handles it by m_state and   *)
(* writes the answer.  Clients may send frames ahead, send a part of a     *)
(* frame, and close at any time.                                           *)
(*                                                                         *)
(* QTcpSocket is not safe to share between threads, and once the thread    *)
(* has ended m_tcpSocket dangles: a real-time write may also be lost or    *)
(* take the process down.                                                  *)
(***************************************************************************)
EXTENDS Integers, Sequences, FiniteSets

CONSTANTS
    Conns,            \* the TCP connections clients make
    Variables,        \* the variables of the collector
    Commands,         \* the commands clients send
    Frames,           \* the frames each client may send
    Nobody,           \* no connection, no variable
    MAX_CONNECTIONS,
    MaxFrames,        \* bound: frames sent in one behaviour
    MaxAhead,         \* bound: frames a client has under way
    MaxSamples        \* bound: samples in one behaviour

(* A frame with the variables it asks for.  bad: msgpack's unpack throws   *)
(* on the payload, or a query for history names fewer time ranges than     *)
(* variables.  The list of wanted variables may be empty, which it also is *)
(* when the payload is no list.                                            *)
Frame == [code : Commands, vars : SUBSET Variables, bad : BOOLEAN]
Gets  == {"GET_REALTIME_VARIABLES", "GET_HISTORIAN_VARIABLES", "GET_HISTORIAN_ALARMS"}

ASSUME AHPServerAssumption ==
    /\ MAX_CONNECTIONS \in Nat /\ {MaxFrames, MaxAhead, MaxSamples} \subseteq Nat
    /\ \A c \in Conns : /\ Frames[c] \subseteq Frame
                        /\ \A f \in Frames[c] : f.bad => f.code \in Gets
    /\ Nobody \notin Conns \cup Variables

VARIABLES
    count,      \* m_connectionCout of the server
    number,     \* m_connectionCount of each connection
    state,      \* m_state
    thread,     \* where the connection's thread stands
    request,    \* the frame it has read
    answer,     \* the answer it is about to write
    wanted,     \* m_realtimeSendingVariables
    links,      \* how often storedVariablePoint is connected to it
    inbox,      \* whole frames the client has sent and the thread not read
    part,       \* the client has sent some bytes of a further frame
    open,       \* the TCP connection
    push,       \* the signal the main thread is delivering: the variable, the
                \* slots still to call, the connection being written to
    up,         \* the process runs
    strays,     \* (history) frames written since the last STOP for variables
                \* that were not wanted
    sent, samples   \* frames and samples so far

connVars   == <<number, state, thread, request, answer>>
subVars    == <<wanted, links>>
clientVars == <<inbox, part, open, sent>>
mainVars   == <<push, up, strays, samples>>
vars == <<count, connVars, subVars, clientVars, mainVars>>

NoFrame == [code |-> "none", vars |-> {}, bad |-> FALSE]
NoSlots == [c \in Conns |-> 0]

(* What is left of a delivery. *)
Pushing(v, left, to) ==
    [var |-> IF left = NoSlots /\ to = Nobody THEN Nobody ELSE v, left |-> left, to |-> to]

Init ==
    /\ count = 0 /\ number = [c \in Conns |-> 0]
    /\ state = [c \in Conns |-> "begin"] /\ thread = [c \in Conns |-> "none"]
    /\ request = [c \in Conns |-> NoFrame] /\ answer = [c \in Conns |-> "none"]
    /\ wanted = [c \in Conns |-> {}] /\ links = NoSlots
    /\ inbox = [c \in Conns |-> << >>]
    /\ part = [c \in Conns |-> FALSE] /\ open = [c \in Conns |-> FALSE]
    /\ push = Pushing(Nobody, NoSlots, Nobody)
    /\ up = TRUE /\ strays = NoSlots
    /\ sent = 0 /\ samples = 0

(* The process dies, and all connections with it. *)
Crash ==
    /\ up' = FALSE /\ open' = [c \in Conns |-> FALSE]
    /\ UNCHANGED <<count, connVars, subVars, inbox, part, sent, push, strays, samples>>

MainIdle == up /\ push.to = Nobody /\ push.left = NoSlots

-----------------------------------------------------------------------------
(* The main thread. *)

NextCount == IF count < MAX_CONNECTIONS THEN count + 1 ELSE count

(* incomingConnection, and the start of the thread: if setSocketDescriptor *)
(* fails the thread ends at once.                                          *)
IncomingConnection(c) ==
    /\ MainIdle /\ thread[c] = "none"
    /\ number' = [number EXCEPT ![c] = count]
    /\ count' = NextCount
    /\ \E ok \in BOOLEAN :
          /\ thread' = [thread EXCEPT ![c] = IF ok THEN "reading" ELSE "finished"]
          /\ state' = [state EXCEPT ![c] = IF ok THEN "begin" ELSE "disconnected"]
          /\ open' = [open EXCEPT ![c] = ok]
    /\ UNCHANGED <<request, answer, subVars, inbox, part, sent, mainVars>>

(* finished() is queued to the main thread, deleteLater deletes the object *)
(* there and its signal connections with it.                               *)
DeleteAtOnce(c) ==   \* mutant: deleted by the thread itself
    /\ up /\ thread[c] = "finished"
    /\ thread' = [thread EXCEPT ![c] = "deleted"]
    /\ links' = [links EXCEPT ![c] = 0]
    /\ UNCHANGED <<count, number, state, request, answer, wanted, clientVars, mainVars>>
Delete(c) ==
    /\ MainIdle /\ thread[c] = "finished"
    /\ thread' = [thread EXCEPT ![c] = "deleted"]
    /\ links' = [links EXCEPT ![c] = 0]
    /\ UNCHANGED <<count, number, state, request, answer, wanted, clientVars, mainVars>>

(* The cache emits storedVariablePoint for a new sample (the bound counts  *)
(* those that have a receiver) ...                                         *)
EmitSample(v) ==
    /\ MainIdle /\ links # NoSlots /\ samples < MaxSamples
    /\ samples' = samples + 1
    /\ push' = Pushing(v, links, Nobody)
    /\ UNCHANGED <<count, connVars, subVars, clientVars, up, strays>>

(* ... which calls sendRealtimeVariable of the connections one by one,     *)
(* unless one has been disconnected meanwhile; it looks the variable up    *)
(* and makes the frame ...                                                 *)
EnterAll(c) ==   \* mutant: sends every variable
    /\ up /\ push.to = Nobody /\ push.left[c] > 0
    /\ push' = Pushing(push.var, [push.left EXCEPT ![c] = @ - 1],
                       IF links[c] > 0 THEN c ELSE Nobody)
    /\ UNCHANGED <<count, connVars, subVars, clientVars, up, strays, samples>>
Enter(c) ==
    /\ up /\ push.to = Nobody /\ push.left[c] > 0
    /\ push' = Pushing(push.var, [push.left EXCEPT ![c] = @ - 1],
                       IF links[c] > 0 /\ push.var \in wanted[c] THEN c ELSE Nobody)
    /\ UNCHANGED <<count, connVars, subVars, clientVars, up, strays, samples>>

(* ... - while the thread may be changing the list it looks in, a QVector  *)
(* without a lock: that may be the end of the process - ...                *)
Collide(c) ==
    /\ up /\ push.to = Nobody /\ push.left[c] > 0
    /\ thread[c] = "handling"
    /\ \/ state[c] = "realtime" /\ request[c].code = "GET_REALTIME_VARIABLES"
       \/ state[c] = "sending" /\ request[c].code = "STOP_REALTIME_SENDING"
    /\ Crash

(* ... and writes it: intact, or lost (the peer is gone, the socket is     *)
(* being used by its thread or destroyed), or the process dies of it.      *)
Write ==
    /\ up /\ push.to # Nobody
    /\ push' = Pushing(push.var, push.left, Nobody)
    /\ \/ /\ strays' = IF push.var \in wanted[push.to] THEN strays
                       ELSE [strays EXCEPT ![push.to] = @ + 1]
          /\ UNCHANGED <<up, open>>
       \/ UNCHANGED <<up, open, strays>>
       \/ up' = FALSE /\ open' = [c \in Conns |-> FALSE] /\ UNCHANGED strays
    /\ UNCHANGED <<count, connVars, subVars, inbox, part, sent, samples>>

-----------------------------------------------------------------------------
(* The clients. *)

(* A whole frame, or the rest of one. *)
Send(c, f) ==
    /\ open[c] /\ sent < MaxFrames /\ Len(inbox[c]) < MaxAhead
    /\ sent' = sent + 1
    /\ inbox' = [inbox EXCEPT ![c] = Append(@, f)]
    /\ part' = [part EXCEPT ![c] = FALSE]
    /\ UNCHANGED <<count, connVars, subVars, open, mainVars>>

SendPart(c) ==
    /\ open[c] /\ ~part[c]
    /\ part' = [part EXCEPT ![c] = TRUE]
    /\ UNCHANGED <<count, connVars, subVars, inbox, open, sent, mainVars>>

HangUp(c) ==
    /\ open[c]
    /\ open' = [open EXCEPT ![c] = FALSE]
    /\ UNCHANGED <<count, connVars, subVars, inbox, part, sent, mainVars>>

-----------------------------------------------------------------------------
(* The thread of connection c. *)

ReadFrame(c) ==
    /\ up /\ thread[c] = "reading" /\ inbox[c] # << >>
    /\ request' = [request EXCEPT ![c] = Head(inbox[c])]
    /\ inbox' = [inbox EXCEPT ![c] = Tail(@)]
    /\ thread' = [thread EXCEPT ![c] = "handling"]
    /\ UNCHANGED <<count, number, state, answer, subVars, part, open, sent, mainVars>>

(* The socket is found unconnected at the start of a frame: the loop is    *)
(* left as it is, m_state and the signal connection included.  Only the    *)
(* wait for the first byte looks at the state of the socket.               *)
LeaveLoopAtBegin(c) ==   \* mutant: looks at the socket in BEGIN_STATE only
    /\ up /\ thread[c] = "reading" /\ ~open[c] /\ state[c] = "begin"
    /\ part[c] => inbox[c] # << >>
    /\ thread' = [thread EXCEPT ![c] = "finished"]
    /\ inbox' = [inbox EXCEPT ![c] = << >>]
    /\ UNCHANGED <<count, number, state, request, answer, subVars, part, open, sent, mainVars>>
LeaveLoop(c) ==
    /\ up /\ thread[c] = "reading" /\ ~open[c]
    /\ part[c] => inbox[c] # << >>
    /\ thread' = [thread EXCEPT ![c] = "finished"]
    /\ inbox' = [inbox EXCEPT ![c] = << >>]
    /\ UNCHANGED <<count, number, state, request, answer, subVars, part, open, sent, mainVars>>

(* A case of one of the process...State functions. *)
Handle(c, here, code, there, reply) ==
    /\ up /\ thread[c] = "handling"
    /\ state[c] = here /\ request[c].code = code /\ ~request[c].bad
    /\ state' = [state EXCEPT ![c] = there]
    /\ answer' = [answer EXCEPT ![c] = reply]
    /\ thread' = [thread EXCEPT ![c] = "answering"]
    /\ UNCHANGED <<count, number, request, clientVars, push, up, samples>>

AcceptsOneMore(c) ==   \* mutant
    /\ \/ /\ number[c] <= MAX_CONNECTIONS
          /\ Handle(c, "begin", "HELLO", "connected", "ACCEPT")
       \/ Handle(c, "begin", "DISCONNECT", "disconnected", "none")
    /\ UNCHANGED <<subVars, strays>>
ProcessBeginState(c) ==
    /\ \/ /\ number[c] < MAX_CONNECTIONS
          /\ Handle(c, "begin", "HELLO", "connected", "ACCEPT")
       \/ /\ number[c] >= MAX_CONNECTIONS
          /\ Handle(c, "begin", "HELLO", "disconnected", "REJECT")
       \/ Handle(c, "begin", "DISCONNECT", "disconnected", "none")
    /\ UNCHANGED <<subVars, strays>>

ModeForgotten(c) ==   \* mutant: answers, but m_state is not set
    /\ \/ Handle(c, "connected", "SET_REALTIME_MODE", "realtime", "MODE_SUCCESSFULL")
       \/ Handle(c, "connected", "SET_HISTORIAN_MODE", "connected", "MODE_SUCCESSFULL")
       \/ Handle(c, "connected", "DISCONNECT", "disconnected", "ACCEPT")
    /\ UNCHANGED <<subVars, strays>>
ProcessConnectedState(c) ==
    /\ \/ Handle(c, "connected", "SET_REALTIME_MODE", "realtime", "MODE_SUCCESSFULL")
       \/ Handle(c, "connected", "SET_HISTORIAN_MODE", "historian", "MODE_SUCCESSFULL")
       \/ Handle(c, "connected", "DISCONNECT", "disconnected", "ACCEPT")
    /\ UNCHANGED <<subVars, strays>>

ProcessRealtimeState(c) ==
    \/ /\ Handle(c, "realtime", "GET_REALTIME_VARIABLES", "sending", "none")
       /\ wanted' = [wanted EXCEPT ![c] = request[c].vars]
       /\ links' = [links EXCEPT ![c] = @ + 1]
       /\ UNCHANGED strays
    \/ /\ Handle(c, "realtime", "RESET_MODE", "connected", "ACCEPT")
       /\ UNCHANGED <<subVars, strays>>

StopStillLinked(c) ==   \* mutant: forgets the disconnect
    /\ Handle(c, "sending", "STOP_REALTIME_SENDING", "realtime", "ACCEPT")
    /\ wanted' = [wanted EXCEPT ![c] = {}]
    /\ strays' = [strays EXCEPT ![c] = 0]
    /\ UNCHANGED links
ProcessRealtimeSendingState(c) ==
    /\ Handle(c, "sending", "STOP_REALTIME_SENDING", "realtime", "ACCEPT")
    /\ links' = [links EXCEPT ![c] = 0]
    /\ wanted' = [wanted EXCEPT ![c] = {}]
    /\ strays' = [strays EXCEPT ![c] = 0]

ResetKeepsMode(c) ==   \* mutant
    /\ \/ Handle(c, "historian", "GET_HISTORIAN_VARIABLES", "historian",
                 "HISTORIAN_VARIABLES_RESPONSE")
       \/ Handle(c, "historian", "GET_HISTORIAN_ALARMS", "historian",
                 "HISTORIAN_ALARMS_RESPONSE")
       \/ Handle(c, "historian", "RESET_MODE", "historian", "ACCEPT")
    /\ UNCHANGED <<subVars, strays>>
AlarmsUnanswered(c) ==   \* mutant
    /\ \/ Handle(c, "historian", "GET_HISTORIAN_VARIABLES", "historian",
                 "HISTORIAN_VARIABLES_RESPONSE")
       \/ Handle(c, "historian", "GET_HISTORIAN_ALARMS", "historian", "none")
       \/ Handle(c, "historian", "RESET_MODE", "connected", "ACCEPT")
    /\ UNCHANGED <<subVars, strays>>
(* The queries themselves are in module HistorianQuery. *)
ProcessHistorianState(c) ==
    /\ \/ Handle(c, "historian", "GET_HISTORIAN_VARIABLES", "historian",
                 "HISTORIAN_VARIABLES_RESPONSE")
       \/ Handle(c, "historian", "GET_HISTORIAN_ALARMS", "historian",
                 "HISTORIAN_ALARMS_RESPONSE")
       \/ Handle(c, "historian", "RESET_MODE", "connected", "ACCEPT")
    /\ UNCHANGED <<subVars, strays>>

(* The commands each of these functions has a case for; the others fall    *)
(* through to its default.                                                 *)
Cases == [begin        |-> {"HELLO", "DISCONNECT"},
          connected    |-> {"SET_REALTIME_MODE", "SET_HISTORIAN_MODE", "DISCONNECT"},
          realtime     |-> {"GET_REALTIME_VARIABLES", "RESET_MODE"},
          sending      |-> {"STOP_REALTIME_SENDING"},
          historian    |-> {"GET_HISTORIAN_VARIABLES", "GET_HISTORIAN_ALARMS", "RESET_MODE"},
          disconnected |-> {}]
Ignore(c) ==
    /\ up /\ thread[c] = "handling" /\ request[c].code \notin Cases[state[c]]
    /\ thread' = [thread EXCEPT ![c] = "reading"]
    /\ request' = [request EXCEPT ![c] = NoFrame]
    /\ UNCHANGED <<count, number, state, answer, subVars, clientVars, mainVars>>

(* Nobody catches what unpack or at() throws: the process ends.            *)
Throws(c) ==
    /\ up /\ thread[c] = "handling"
    /\ request[c].bad /\ request[c].code \in Cases[state[c]]
    /\ Crash

(* The answer, if there is one, is written; the connection is closed when  *)
(* the session is over.                                                    *)
Answer(c) ==
    /\ up /\ thread[c] = "answering"
    /\ answer' = [answer EXCEPT ![c] = "none"]
    /\ request' = [request EXCEPT ![c] = NoFrame]
    /\ thread' = [thread EXCEPT
          ![c] = IF state[c] = "disconnected" THEN "finished" ELSE "reading"]
    /\ open' = [open EXCEPT ![c] = @ /\ state[c] # "disconnected"]
    /\ UNCHANGED <<count, number, state, subVars, inbox, part, sent, mainVars>>

-----------------------------------------------------------------------------
Process(c) == ProcessBeginState(c) \/ ProcessConnectedState(c) \/ ProcessRealtimeState(c)
                 \/ ProcessRealtimeSendingState(c) \/ ProcessHistorianState(c)
Thread(c) == ReadFrame(c) \/ LeaveLoop(c) \/ Process(c) \/ Ignore(c) \/ Throws(c) \/ Answer(c)
Client(c) == (\E f \in Frames[c] : Send(c, f)) \/ SendPart(c) \/ HangUp(c)
Main ==
    \/ \E c \in Conns : IncomingConnection(c) \/ Delete(c) \/ Enter(c) \/ Collide(c)
    \/ \E v \in Variables : EmitSample(v)
    \/ Write
Next == Main \/ \E c \in Conns : Thread(c) \/ Client(c)

(* The system runs every thread that can go on; clients and samples come   *)
(* when they like.                                                         *)
Spec == Init /\ [][Next]_vars /\ \A c \in Conns : WF_vars(Thread(c))
-----------------------------------------------------------------------------
Accepted == {"connected", "realtime", "sending", "historian"}
Ended    == {"finished", "deleted"}
States   == Accepted \cup {"begin", "disconnected"}
Places   == Ended \cup {"none", "reading", "handling", "answering"}
Live(c)  == thread[c] \notin Ended \cup {"none"}

(* m_connectionCout and the numbers given from it stay within the limit;   *)
(* m_state and the threads are where connection.cpp can put them.          *)
TypeOK ==
    /\ count \in 0 .. MAX_CONNECTIONS /\ number \in [Conns -> 0 .. MAX_CONNECTIONS]
    /\ state \in [Conns -> States] /\ thread \in [Conns -> Places]
    /\ request \in [Conns -> Frame \cup {NoFrame}]
    /\ answer \in [Conns -> {"none", "ACCEPT", "REJECT", "MODE_SUCCESSFULL",
            "HISTORIAN_VARIABLES_RESPONSE", "HISTORIAN_ALARMS_RESPONSE"}]
    /\ wanted \in [Conns -> SUBSET Variables] /\ links \in [Conns -> Nat]
    /\ inbox \in [Conns -> Seq(Frame)]
    /\ part \in [Conns -> BOOLEAN] /\ open \in [Conns -> BOOLEAN]
    /\ push \in [var : Variables \cup {Nobody}, left : [Conns -> Nat],
                 to : Conns \cup {Nobody}]
    /\ up \in BOOLEAN /\ strays \in [Conns -> Nat] /\ sent \in Nat /\ samples \in Nat

(* However clients come and go, no more sessions are accepted than         *)
(* MAX_CONNECTIONS.                                                        *)
SessionsBounded == Cardinality({c \in Conns : state[c] \in Accepted}) <= MAX_CONNECTIONS

(* The signal is connected to a Connection object exactly once while its   *)
(* session is in REALTIME_SENDING_STATE and not at all in any other state, *)
(* so that no sample is sent twice; the list of wanted variables is empty  *)
(* outside that state.                                                     *)
SubscribedWhileSending ==
    \A c \in Conns :
        /\ thread[c] # "deleted" =>
              links[c] = IF state[c] = "sending" THEN 1 ELSE 0
        /\ wanted[c] # {} => state[c] = "sending"

(* STOP disconnects the signal while the main thread may be inside         *)
(* sendRealtimeVariable: one frame the client does not expect may still    *)
(* come, after the ACCEPT or even after a new subscription - but never     *)
(* two.                                                                    *)
OneStray == \A c \in Conns : strays[c] <= 1

(* The main thread never runs a slot of a Connection it has deleted.       *)
NoDeletedReceiver ==
    push.to # Nobody => thread[push.to] # "deleted"

(* A client that goes away between two frames does not keep its thread:    *)
(* the thread ends, unless the process has died.                           *)
LeavesAfterClose ==
    \A c \in Conns :
        thread[c] # "none" /\ ~open[c] /\ ~part[c] ~> thread[c] \in Ended \/ ~up

(* "Si no llegue al limite de conexiones" (connection.cpp:85): a client is *)
(* turned away only while MAX_CONNECTIONS others are there.                *)
RejectsOnlyWhenFull ==
    \A c \in Conns :
        thread[c] = "answering" /\ answer[c] = "REJECT" =>
            Cardinality({d \in Conns \ {c} : Live(d)}) >= MAX_CONNECTIONS

(* "El comando STOP es envidado por el cliente cuando quiere terminar la   *)
(* trasmision y resetear el modo de la conexion" (Protocol description/    *)
(* protocol:120): with the ACCEPT for STOP the mode is reset.              *)
StopResetsMode ==
    \A c \in Conns :
        thread[c] = "answering" /\ request[c].code = "STOP_REALTIME_SENDING" =>
            state[c] = "connected"
=============================================================================
