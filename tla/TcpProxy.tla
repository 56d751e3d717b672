------------------------------- MODULE TcpProxy -------------------------------
(***************************************************************************)
(* The connection to the collector and what it feeds: TcpProxy keeps one   *)
(* QTcpSocket connected and hands every sample it reads, through           *)
(* BDHServerController::emitVariablePoint, to the RealtimeCache.  All of   *)
(* this runs in the main thread: a slot runs to its end before the next    *)
(* event - a signal of the socket, a timer, a persistData signal - is      *)
(* taken, while the pool goes on emitting.                                 *)
(*                                                                         *)
(* The collector writes samples; TCP may cut the stream anywhere.  A       *)
(* sample is two halves here, numbered through: 2k - 1 and 2k are those of *)
(* sample k.  A cut sample cannot be told from a whole one, and the fields *)
(* that are missing are read as zero.                                      *)
(***************************************************************************)
EXTENDS RealtimeCache

CONSTANTS
    MaxOutages     \* bound: how often the collector goes away

ASSUME ProxyAssumption == MaxOutages \in Nat

VARIABLES
    socket,     \* state of the QTcpSocket
    timers,     \* single shot timers that will call connectToServer
    reachable,  \* the collector accepts connections
    outages,
    sent,       \* halves the collector has written
    taken,      \* those that were read or lost with their connection
    reading,    \* what onReadyRead has still to hand on: sample numbers, 0 for
                \* one that is made of the wrong bytes
    origin      \* (history) what was handed on

proxyVars == <<socket, timers, reachable, outages, sent, taken, reading, origin>>
allVars == <<vars, proxyVars>>

(* BDHServerController::run has called connectToServer. *)
ProxyInit ==
    /\ Init
    /\ socket = "connecting" /\ timers = 0
    /\ reachable \in BOOLEAN /\ outages = 0
    /\ sent = 0 /\ taken = 0 /\ reading = << >> /\ origin = << >>

Whole(h) == IF h % 2 = 0 THEN h ELSE h + 1    \* the end of the sample h is in

(* The main thread takes an event. *)
EventLoop == reading = << >>

-----------------------------------------------------------------------------
(* The slots that arm a timer: how many, with the socket in state s.       *)

OnDisconnected(s) == IF s = "unconnected" THEN 1 ELSE 0
ManageErrorAlways(s) == 1   \* mutant
ManageErrorNever(s) == 0    \* mutant
ManageError(s) == IF s = "unconnected" THEN 1 ELSE 0

(* A connection that breaks: QAbstractSocket emits error while it is still *)
(* connected, disconnects, and emits disconnected.                         *)
Outage ==
    /\ EventLoop /\ reachable /\ outages < MaxOutages
    /\ reachable' = FALSE /\ outages' = outages + 1
    /\ IF socket = "connected"
       THEN /\ socket' = "unconnected"
            /\ timers' = timers + ManageError("connected") + OnDisconnected("unconnected")
       ELSE UNCHANGED <<socket, timers>>
    /\ sent' = Whole(sent) /\ taken' = Whole(sent)
    /\ UNCHANGED <<vars, reading, origin>>

Recovers ==
    /\ ~reachable /\ reachable' = TRUE
    /\ UNCHANGED <<vars, socket, timers, outages, sent, taken, reading, origin>>

(* Refused, timed out, host not found: error in UnconnectedState.          *)
ConnectFails ==
    /\ EventLoop /\ socket = "connecting" /\ ~reachable
    /\ socket' = "unconnected"
    /\ timers' = timers + ManageError("unconnected")
    /\ UNCHANGED <<vars, reachable, outages, sent, taken, reading, origin>>

ConnectSucceeds ==
    /\ EventLoop /\ socket = "connecting" /\ reachable
    /\ socket' = "connected"
    /\ UNCHANGED <<vars, timers, reachable, outages, sent, taken, reading, origin>>

(* A timer: connectToServer.  abort() breaks what connection there is,     *)
(* with everything that was on its way, and emits disconnected.            *)
ConnectToServer ==
    /\ EventLoop /\ timers > 0
    /\ timers' = timers - 1 + (IF socket = "connected" THEN OnDisconnected("unconnected") ELSE 0)
    /\ socket' = "connecting"
    /\ sent' = Whole(sent) /\ taken' = Whole(sent)
    /\ UNCHANGED <<vars, reachable, outages, reading, origin>>

-----------------------------------------------------------------------------
(* Samples. *)

CollectorWrites ==
    /\ socket = "connected" /\ sent < MaxSamples
    /\ sent' = sent + 1
    /\ UNCHANGED <<vars, socket, timers, reachable, outages, taken, reading, origin>>

(* What the loop makes of the halves a .. b: out of step with the samples  *)
(* it reads nothing right, and how many it reads depends on the bytes.     *)
ReadsFirst(a, b) == IF a % 2 = 1 THEN {<<(a + 1) \div 2>>} ELSE {<<0>>}   \* mutant
Reads(a, b) ==
    IF a % 2 = 1
    THEN {[k \in 1 .. (b - a + 2) \div 2 |->
              IF a + 2 * k - 1 <= b THEN (a + 2 * k - 1) \div 2 ELSE 0]}
    ELSE {[k \in 1 .. n |-> 0] : n \in 1 .. b - a + 1}

(* onReadyRead: readAll, ... *)
OnReadyReadPeeks ==   \* mutant: leaves the data in the socket
    /\ EventLoop /\ socket = "connected" /\ taken < sent
    /\ \E b \in taken + 1 .. sent : reading' \in Reads(taken + 1, b)
    /\ UNCHANGED <<vars, socket, timers, reachable, outages, sent, taken, origin>>
OnReadyRead ==
    /\ EventLoop /\ socket = "connected" /\ taken < sent
    /\ \E b \in taken + 1 .. sent :
          /\ taken' = b
          /\ reading' \in Reads(taken + 1, b)
    /\ UNCHANGED <<vars, socket, timers, reachable, outages, sent, origin>>

(* ... and one turn of its loop, down to the cache. *)
VariableChanged(v, x) ==
    /\ reading # << >>
    /\ reading' = Tail(reading) /\ origin' = Append(origin, Head(reading))
    /\ StoreVariablePoint(v, x)
    /\ UNCHANGED <<socket, timers, reachable, outages, sent, taken>>

Cache ==
    /\ EmitSome \/ (EventLoop /\ Deliver)
    /\ UNCHANGED proxyVars

Loop == ConnectToServer \/ OnReadyRead \/ (\E v \in Variables, x \in Value : VariableChanged(v, x))

ProxyNext ==
    \/ Outage \/ Recovers \/ ConnectFails \/ ConnectSucceeds \/ CollectorWrites
    \/ Loop \/ Cache

(* Timers fire, connection attempts end, the event loop and the pool run.  *)
ProxySpec ==
    /\ ProxyInit /\ [][ProxyNext]_allVars
    /\ WF_allVars(Loop) /\ WF_allVars(ConnectFails \/ ConnectSucceeds)
    /\ WF_allVars(EmitSome /\ UNCHANGED proxyVars)
    /\ SF_allVars(EventLoop /\ Deliver /\ UNCHANGED proxyVars)

-----------------------------------------------------------------------------
(* A socket that is not connected has exactly one thing that will change   *)
(* that: the attempt under way or one timer.  No timer is left to break,   *)
(* a second later, a connection that works - which would arm the next.     *)
OneTimer == timers = IF socket = "unconnected" THEN 1 ELSE 0

(* A sample that arrives whole in a piece that begins with a sample is     *)
(* handed on, once and in order; only pieces that begin or end inside one  *)
(* yield anything else.                                                    *)
InOrder ==
    \A i, j \in DOMAIN origin : i < j /\ origin[j] # 0 => origin[i] < origin[j]
HandsOnPieces ==
    [][reading' # << >> /\ reading = << >> /\ taken % 2 = 0 =>
          \A k \in taken \div 2 + 1 .. taken' \div 2 :
              \E i \in DOMAIN reading' : reading'[i] = k]_allVars

(* If the collector stays, it is connected in the end and remains so.      *)
Reconnects == <>[]reachable => <>[](socket = "connected")
=============================================================================
