------------------------------ MODULE ClientView ------------------------------
(***************************************************************************)
(* A tab of the client's window.  Its slots run in the main thread, one at *)
(* a time, and call the ClientWorker's methods; each of these waits for    *)
(* m_mutex, so that the window stands still while the thread behind the    *)
(* tab waits for the server.                                               *)
(***************************************************************************)
EXTENDS ClientWorker

CONSTANTS
    MaxRanges,    \* bound: time ranges in a query, variables in a selection
    MaxQueries,   \* bound: queries and subscriptions in one behaviour
    MaxConnects   \* bound: how often the user asks for a connection

ASSUME ViewAssumption == {MaxRanges, MaxQueries, MaxConnects, MaxPushes, MaxDrops} \subseteq Nat

VARIABLES
    gui,        \* the ClientWorker method a slot is in, or "idle"
    dialog,     \* the connect dialog is open
    state,      \* m_historicState, m_alarmState or m_realtimeState; the tab is
                \* enabled while it is CONNECT
    buttons,    \* what can be used: the real-time buttons, the list of
                \* variables ("list") and what it holds ("entries")
    draft,      \* the request being put together: the number of its entries
    asked,      \* (history) the queries made: the number of entries of each
    shown,      \* (history) the results shown
    connects, starts

viewVars == <<gui, dialog, state, buttons, draft, asked, shown, connects, starts>>
vars    == <<workerVars, viewVars>>

Init ==
    /\ WorkerInit
    /\ gui = "idle" /\ dialog = FALSE /\ state = "DISCONNECT"
    /\ buttons = {"add", "connect", "list"}
    /\ draft = 0 /\ asked = << >> /\ shown = << >> /\ connects = 0 /\ starts = 0

(* A slot can start: no other runs and no dialog is in front of the window.*)
Free == alive /\ gui = "idle" /\ ~dialog
UserMay(button) == Free /\ state = "CONNECT" /\ button \in buttons

-----------------------------------------------------------------------------
(* What the user does. *)

(* on_action..._connect_triggered: connects or disconnects. *)
ClickConnect ==
    /\ Free /\ "connect" \in buttons
    /\ \/ state = "DISCONNECT" /\ connects < MaxConnects
          /\ dialog' = TRUE /\ connects' = connects + 1 /\ UNCHANGED gui
       \/ state = "CONNECT" /\ gui' = "disconnect" /\ UNCHANGED <<dialog, connects>>
    /\ UNCHANGED <<workerVars, state, buttons, draft, asked, shown, starts>>

(* dialog.exec() returns; signals were delivered meanwhile.                *)
CloseDialog ==
    /\ alive /\ dialog /\ gui = "idle"
    /\ dialog' = FALSE
    /\ gui' \in {"connect", "idle"}
    /\ UNCHANGED <<workerVars, state, buttons, draft, asked, shown, connects, starts>>

(* on_pushButton_clicked, on_pushButton_7_clicked *)
ClickAdd ==
    /\ tab # "realtime" /\ UserMay("add") /\ draft < MaxRanges
    /\ draft' = draft + 1
    /\ UNCHANGED <<workerVars, gui, dialog, state, buttons, asked, shown, connects, starts>>

(* on_pushButton_3_clicked, on_pushButton_8_clicked *)
ClickClear ==
    /\ tab # "realtime" /\ UserMay("add") /\ draft > 0
    /\ draft' = 0
    /\ UNCHANGED <<workerVars, gui, dialog, state, buttons, asked, shown, connects, starts>>

(* on_pushButton_2_clicked, on_pushButton_9_clicked *)
ClickQuery ==
    /\ tab # "realtime" /\ UserMay("add") /\ Len(asked) < MaxQueries
    /\ gui' = "query"
    /\ UNCHANGED <<workerVars, dialog, state, buttons, draft, asked, shown, connects, starts>>

(* on_pushButton_4_clicked *)
ClickSelect ==
    /\ tab = "realtime" /\ UserMay("add") /\ draft < MaxRanges
    /\ buttons' = buttons \cup {"start", "clear"}
    /\ gui' = "describe"
    /\ UNCHANGED <<workerVars, dialog, state, draft, asked, shown, connects, starts>>

(* on_pushButton_10_clicked, also while values are being sent. *)
ClickDeselect ==
    /\ tab = "realtime" /\ UserMay("clear")
    /\ draft' = 0
    /\ buttons' = (buttons \ {"start"}) \cup {"add"}
    /\ UNCHANGED <<workerVars, gui, dialog, state, asked, shown, connects, starts>>

(* on_pushButton_6_clicked *)
ClickStart ==
    /\ tab = "realtime" /\ UserMay("start") /\ starts < MaxQueries
    /\ starts' = starts + 1
    /\ buttons' = buttons \ {"start", "add", "connect", "list"}
    /\ gui' = "start"
    /\ UNCHANGED <<workerVars, dialog, state, draft, asked, shown, connects>>

(* on_pushButton_5_clicked *)
ClickStop ==
    /\ tab = "realtime" /\ UserMay("stop")
    /\ gui' = "stop"
    /\ UNCHANGED <<workerVars, dialog, state, buttons, draft, asked, shown, connects, starts>>

(* The user chooses a variable: currentIndexChanged. *)
ClickChoose ==
    /\ tab # "alarms" /\ UserMay("list") /\ "entries" \in buttons
    /\ gui' = "look"
    /\ UNCHANGED <<workerVars, dialog, state, buttons, draft, asked, shown, connects, starts>>

User == ClickConnect \/ CloseDialog \/ ClickAdd \/ ClickClear \/ ClickQuery
           \/ ClickSelect \/ ClickDeselect \/ ClickStart \/ ClickStop \/ ClickChoose

-----------------------------------------------------------------------------
(* What the main thread does by itself: the signals of the thread, ...     *)

(* enableTab..., setHistorianValues, setAlarmValues *)
Deliver ==
    /\ alive /\ gui = "idle" /\ events # << >>
    /\ events' = Tail(events)
    /\ LET e == Head(events)
       IN  /\ gui' = IF e.signal = "connected" THEN "set_mode" ELSE "idle"
           /\ shown' = IF e.signal = "result" /\ e.query # NoQuery
                       THEN Append(shown, e.query) ELSE shown
    /\ UNCHANGED <<clientVars, tab, pc, command, cmd, quit, request,
                   dialog, state, buttons, draft, asked, connects, starts>>

(* ... and the methods of the worker and the rest of the slots that called *)
(* them.                                                                   *)
CallConnect ==
    /\ gui = "connect" /\ ConnectToServer
    /\ gui' = "idle"
    /\ UNCHANGED <<dialog, state, buttons, draft, asked, shown, connects, starts>>

CallSetMode ==
    /\ gui = "set_mode" /\ Give("SET_MODE")
    /\ gui' = "vars"
    /\ UNCHANGED <<request, dialog, state, buttons, draft, asked, shown, connects, starts>>

(* The list of variables is taken once; it is empty if the thread has not  *)
(* set the mode in the second the slot slept.  The first entry the list of *)
(* a tab ever gets is chosen by itself.                                    *)
CallVarsConfigured ==
    /\ gui = "vars" /\ MutexFree
    /\ gui' = IF tab # "alarms" /\ known /\ "entries" \notin buttons THEN "look" ELSE "idle"
    /\ buttons' = IF known THEN buttons \cup {"entries"} ELSE buttons
    /\ state' = "CONNECT"
    /\ trouble' = IF known THEN trouble ELSE trouble \cup {"slow"}
    /\ UNCHANGED <<netVars, call, known, reader, alive, tab, pc, command, cmd, quit, request, events,
                   dialog, draft, asked, shown, connects, starts>>

(* updateHistorianDescription, updateRealtimeDescription: their            *)
(* getDescriptionByID looks through m_client->varsConfigured().            *)
CallLook ==
    /\ gui = "look" /\ MutexFree
    /\ gui' = "idle"
    /\ UNCHANGED <<netVars, call, known, reader, trouble, alive, tab, pc, command, cmd, quit, request,
                   events, dialog, state, buttons, draft, asked, shown, connects, starts>>

CallDisconnectStaysConnected ==   \* mutant: the tab stays enabled
    /\ gui = "disconnect" /\ Give("DISCONNECT")
    /\ gui' = "idle"
    /\ UNCHANGED <<request, dialog, state, buttons, draft, asked, shown, connects, starts>>
CallDisconnect ==
    /\ gui = "disconnect" /\ Give("DISCONNECT")
    /\ gui' = "idle" /\ state' = "DISCONNECT"
    /\ UNCHANGED <<request, dialog, buttons, draft, asked, shown, connects, starts>>

ClearsFirst ==   \* mutant: empties the request before it hands it over
    /\ gui = "query" /\ Give(QueryCommand)
    /\ asked' = Append(asked, draft)
    /\ request' = [n |-> Len(asked'), ranges |-> 0]
    /\ gui' = "idle" /\ draft' = 0
    /\ UNCHANGED <<dialog, state, buttons, shown, connects, starts>>
CallQuery ==
    /\ gui = "query" /\ Give(QueryCommand)
    /\ asked' = Append(asked, draft)
    /\ request' = [n |-> Len(asked'), ranges |-> draft]
    /\ gui' = "idle" /\ draft' = 0
    /\ UNCHANGED <<dialog, state, buttons, shown, connects, starts>>
(* varsConfigured().at(index): undefined if the list is empty.             *)
CallDescribe ==
    /\ gui = "describe" /\ MutexFree
    /\ gui' = "idle" /\ draft' = draft + 1
    /\ alive' \in IF known THEN {alive} ELSE BOOLEAN
    /\ UNCHANGED <<netVars, call, known, reader, trouble, tab, pc, command, cmd, quit, request, events,
                   dialog, state, buttons, asked, shown, connects, starts>>

CallStart ==
    /\ gui = "start" /\ Give("GET_REALTIME")
    /\ gui' = "idle" /\ buttons' = buttons \cup {"stop"}
    /\ UNCHANGED <<request, dialog, state, draft, asked, shown, connects, starts>>

CallStop ==
    /\ gui = "stop" /\ Give("STOP_REALTIME_SENDING")
    /\ gui' = "idle" /\ draft' = 0
    /\ buttons' = (buttons \ {"stop"}) \cup {"add", "connect", "list"}
    /\ UNCHANGED <<request, dialog, state, asked, shown, connects, starts>>

Calls == alive /\ (CallConnect \/ CallSetMode \/ CallVarsConfigured \/ CallDisconnect
                     \/ CallLook \/ CallQuery \/ CallDescribe \/ CallStart \/ CallStop)

-----------------------------------------------------------------------------
Below ==
    /\ \/ WorkerStep
       \/ (MtReads \/ ServerSteps \/ Drop) /\ UNCHANGED threadVars
    /\ UNCHANGED viewVars
Next == User \/ Deliver \/ Calls \/ Below

(* The system runs the thread and the server, and the event loop the slots *)
(* and, in turn with the user's clicks, the signals.                       *)
Spec ==
    /\ Init /\ [][Next]_vars
    /\ WF_vars(WorkerStep /\ UNCHANGED viewVars) /\ WF_vars(Calls) /\ SF_vars(Deliver)
    /\ WF_vars(\E room \in BOOLEAN : Serve(room)
                  /\ UNCHANGED <<threadVars, viewVars>>)
-----------------------------------------------------------------------------
(* A historian session is lockstep: between two commands nothing is under  *)
(* way, during one there is one frame at most - whatever commands were     *)
(* lost, so that no answer is ever taken for that of another command.      *)
Lockstep ==
    tab # "realtime" /\ ClientExists =>
        Len(requests) + Len(answers) <= IF call = "none" THEN 0 ELSE 1

(* A result that is shown answers a query as the user put it together;     *)
(* results come in the order of the queries, none twice.                   *)
ShownAsAsked ==
    /\ \A i \in DOMAIN shown : shown[i].ranges = asked[shown[i].n]
    /\ \A i, j \in DOMAIN shown : i < j => shown[i].n < shown[j].n

(* varsConfigured and getDescriptionByID follow m_client, which points     *)
(* into the stack of run(): the slots only call them while that AHPClient  *)
(* exists.                                                                 *)
NoDangling == gui \in {"vars", "look", "describe"} => ClientExists

(* There are five ways to get this client into trouble: a connection that  *)
(* breaks, a command given while the thread is not waiting, a thread that  *)
(* takes more than a second to set the mode, a real-time frame taken for   *)
(* the answer to STOP, and Mt killed inside a frame.  Without them the     *)
(* process lives and no two threads read the socket.                       *)
SoundWithoutTrouble ==
    trouble = {} => alive /\ ~(reader /\ call # "none")

(* Nor is a thread left behind when the window says it is disconnected, or *)
(* the session in another mode than the tab works with.                    *)
InAgreement ==
    trouble = {} /\ gui = "idle" /\ pc = "waiting" =>
        \/ state = "DISCONNECT" /\ events # << >>
        \/ state = "CONNECT" /\
             mode \in IF tab = "realtime" THEN {"realtime", "sending"} ELSE {"historian"}

(* The window does not stand still for ever - unless one of the five       *)
(* troubles has come up.                                                   *)
WindowReturns == gui # "idle" ~> gui = "idle" \/ trouble # {} \/ ~alive

(* Every query gets its result on the screen, but for the same troubles.   *)
QueriesShown ==
    \A n \in 1 .. MaxQueries :
        Len(asked) = n ~> trouble # {} \/ \E i \in DOMAIN shown : shown[i].n = n
=============================================================================
