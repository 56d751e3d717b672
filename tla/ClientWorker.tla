----------------------------- MODULE ClientWorker -----------------------------
(***************************************************************************)
(* The thread behind one tab of the client.  The main thread leaves a      *)
(* command in m_command, under m_mutex, and wakes the thread; the thread   *)
(* sleeps in m_cond.wait, picks up what m_command holds then, and runs it  *)
(* with the mutex held until the server has answered.  wakeOne wakes       *)
(* nobody if the thread is not in wait: such a command is lost, and one    *)
(* given before the thread has picked up the last one replaces it.         *)
(***************************************************************************)
EXTENDS AHPClient

CONSTANT Tabs    \* the tabs looked at, one in a behaviour

ASSUME TabAssumption == Tabs \subseteq {"historian", "alarms", "realtime"}

VARIABLES
    tab,        \* the tab this thread serves
    pc,         \* where the thread stands
    command,    \* m_command
    cmd,        \* its local copy
    quit,       \* m_quit
    request,    \* m_historianRequest or m_historianAlarmsRequest
    events      \* signals queued for the main thread

threadVars == <<tab, pc, command, cmd, quit, request, events>>
workerVars == <<clientVars, threadVars>>

OneModeForAll == "SET_REALTIME_MODE"   \* mutant
ModeCommand  == IF tab = "realtime" THEN "SET_REALTIME_MODE" ELSE "SET_HISTORIAN_MODE"
QueryCommand == IF tab = "alarms" THEN "GET_HISTORIAN_ALARMS" ELSE "GET_HISTORIAN_VARIABLES"

WorkerInit ==
    /\ ClientInit /\ tab \in Tabs
    /\ pc = "idle" /\ command = "none" /\ cmd = "none"
    /\ quit = FALSE /\ request = NoQuery /\ events = << >>

(* The thread holds m_mutex while it runs a command - not while it says    *)
(* HELLO.                                                                  *)
MutexFree == ~(pc = "calling" /\ call # "HELLO")

(* The local AHPClient m_client points to exists. *)
ClientExists == pc \notin {"idle", "starting"}

-----------------------------------------------------------------------------
(* The main thread's side: a method sets the command and wakes the thread. *)

Give(c) ==
    /\ MutexFree
    /\ command' = c
    /\ pc' = IF pc = "waiting" THEN "awoken" ELSE pc
    /\ trouble' = IF pc = "waiting" THEN trouble ELSE trouble \cup {"missed"}
    /\ UNCHANGED <<netVars, call, known, reader, alive, tab, cmd, quit, events>>

(* connectToServer; start() does nothing to a thread that runs.            *)
ConnectToServer ==
    /\ MutexFree
    /\ command' = "CONNECT"
    /\ pc' = IF pc = "idle" THEN "starting" ELSE pc
    /\ trouble' = IF pc = "idle" THEN trouble ELSE trouble \cup {"missed"}
    /\ UNCHANGED <<netVars, call, known, reader, alive, tab, cmd, quit, request, events>>

-----------------------------------------------------------------------------
(* The thread. *)

RunStarts ==
    /\ pc = "starting"
    /\ quit' = FALSE
    /\ \/ AskHello /\ pc' = "calling" /\ UNCHANGED events
       \/ /\ pc' = "idle" /\ events' = Append(events, [signal |-> "refused", query |-> NoQuery])
          /\ UNCHANGED clientVars
    /\ UNCHANGED <<tab, command, cmd, request>>

HelloReturns(f) ==
    /\ pc = "calling" /\ EndAnswered("HELLO", f) /\ ReadFrame(f)
    /\ IF f.code = "ACCEPT"
       THEN pc' = "top" /\ events' = Append(events, [signal |-> "connected", query |-> NoQuery])
       ELSE pc' = "idle" /\ events' = Append(events, [signal |-> "refused", query |-> NoQuery])
    /\ UNCHANGED <<tab, command, cmd, quit, request>>

(* while (!m_quit): the wait, or the end of run() and of the AHPClient; an *)
(* Mt that still runs is left with a deleted socket.                       *)
Wait ==
    /\ pc = "top" /\ ~quit
    /\ pc' = "waiting"
    /\ UNCHANGED <<clientVars, tab, command, cmd, quit, request, events>>
RunEnds ==
    /\ pc = "top" /\ quit
    /\ pc' = "idle"
    /\ link' = "unconnected"
    /\ alive' \in IF reader THEN BOOLEAN ELSE {alive}
    /\ UNCHANGED <<serverVars, answers, cut, drops, call, known, reader, trouble,
                   tab, command, cmd, quit, request, events>>

TakeCommand ==
    /\ pc = "awoken"
    /\ cmd' = command /\ pc' = "serving"
    /\ UNCHANGED <<clientVars, tab, command, quit, request, events>>

(* The switch: commands that wait for an answer, ... *)
AsksAndGoesOn(code, query) ==   \* mutant: does not wait for the answer
    /\ pc = "serving" /\ WriteFrame(code, query)
    /\ pc' = "top"
    /\ UNCHANGED <<mode, late, pushes, link, answers, cut, drops, call, known, reader, alive, trouble>>
    /\ UNCHANGED <<tab, command, cmd, quit, request, events>>
Asks(code, query) ==
    /\ pc = "serving"
    /\ IF CanWrite
       THEN Ask(code, query) /\ pc' = "calling" /\ UNCHANGED events
       ELSE /\ pc' = "top" /\ UNCHANGED clientVars
            /\ events' = IF query = NoQuery THEN events
                         ELSE Append(events, [signal |-> "result", query |-> NoQuery])
    /\ UNCHANGED <<tab, command, cmd, quit, request>>

BeginCommand ==
    \/ cmd = "SET_MODE" /\ Asks(ModeCommand, NoQuery)
    \/ cmd = QueryCommand /\ Asks(QueryCommand, request)
    \/ cmd = "DISCONNECT" /\ Asks("RESET_MODE", NoQuery)
    \/ /\ pc = "serving" /\ cmd = "STOP_REALTIME_SENDING" /\ AskStop
       /\ pc' = IF CanWrite THEN "calling" ELSE "top"
       /\ UNCHANGED <<tab, command, cmd, quit, request, events>>
    (* ... one that does not, and CONNECT, which has no case. *)
    \/ /\ pc = "serving" /\ cmd = "GET_REALTIME"
       /\ IF CanWrite THEN GetRealtimeVariables ELSE UNCHANGED clientVars
       /\ pc' = "top"
       /\ UNCHANGED <<tab, command, cmd, quit, request, events>>
    \/ /\ pc = "serving" /\ cmd = "CONNECT" /\ pc' = "top"
       /\ UNCHANGED <<clientVars, tab, command, cmd, quit, request, events>>

QueryReturnsSilently(f) ==   \* mutant
    /\ pc = "calling" /\ QueryAnswered(f) /\ ReadFrame(f)
    /\ pc' = "top"
    /\ UNCHANGED <<tab, command, cmd, quit, request, events>>
QueryReturns(f) ==
    /\ pc = "calling" /\ QueryAnswered(f) /\ ReadFrame(f)
    /\ pc' = "top"
    /\ events' = IF alive' THEN Append(events, [signal |-> "result", query |-> f.query])
                 ELSE events
    /\ UNCHANGED <<tab, command, cmd, quit, request>>

ResetReturns(f) ==
    /\ pc = "calling" /\ ResetAnswered(f) /\ ReadFrame(f)
    /\ pc' = IF call' = "none" THEN "top" ELSE "calling"
    /\ UNCHANGED <<tab, command, cmd, quit, request, events>>

QuitsAnyway(f) ==   \* mutant
    /\ pc = "calling" /\ EndAnswered("DISCONNECT", f) /\ ReadFrame(f)
    /\ pc' = "top" /\ quit' = FALSE
    /\ UNCHANGED <<tab, command, cmd, request, events>>
DisconnectReturns(f) ==
    /\ pc = "calling" /\ EndAnswered("DISCONNECT", f) /\ ReadFrame(f)
    /\ pc' = "top" /\ quit' = (quit \/ f.code = "ACCEPT")
    /\ UNCHANGED <<tab, command, cmd, request, events>>

ModeReturns(f) ==
    /\ pc = "calling" /\ ModeAnswered(f) /\ ReadFrame(f)
    /\ pc' = "top"
    /\ UNCHANGED <<tab, command, cmd, quit, request, events>>
StopReturns(f) ==
    /\ pc = "calling" /\ EndAnswered("STOP_REALTIME_SENDING", f) /\ ReadFrame(f)
    /\ pc' = "top"
    /\ UNCHANGED <<tab, command, cmd, quit, request, events>>

Returns == \E f \in Readable :
    HelloReturns(f) \/ QueryReturns(f) \/ ResetReturns(f) \/ DisconnectReturns(f)
       \/ ModeReturns(f) \/ StopReturns(f)

WorkerStep ==
    alive /\ (RunStarts \/ Wait \/ RunEnds \/ TakeCommand \/ BeginCommand \/ Returns)
=============================================================================
