--------------------------- MODULE AHPServerProofs ---------------------------
(***************************************************************************)
(* Part 1, for any number of clients, any limit and any variables: the     *)
(* limit on sessions, who is subscribed, and what the main thread's        *)
(* unlocked writes can still send.                                         *)
(*                                                                         *)
(* Part 2: server and clients agree, for any number of clients and any     *)
(* number of frames sent ahead.  What a client expects is worked out from  *)
(* all it has sent, the server has handled less: the invariant says that   *)
(* the commands still in the inbox lead from the server's mode to the      *)
(* client's and account for all answers owed but the one being made.       *)
(***************************************************************************)
EXTENDS AHPSession, FiniteSetTheorems, SequenceTheorems, TLAPS

-----------------------------------------------------------------------------
(* The inductive invariant. *)

(* A connection that is there has a number below the count or the limit    *)
(* itself, and below the limit no number is given twice - which is why     *)
(* counting up to the limit and comparing with it bounds the sessions.     *)
Started(c) == thread[c] # "none"
Numbered ==
    /\ \A c \in Conns : ~Started(c) => state[c] = "begin"
    /\ \A c \in Conns : Started(c) => number[c] < count \/ number[c] = MAX_CONNECTIONS
    /\ \A c, d \in Conns :
          Started(c) /\ Started(d) /\ c # d /\ number[c] = number[d] =>
              number[c] = MAX_CONNECTIONS
    /\ \A c \in Conns : state[c] \in Accepted => number[c] < MAX_CONNECTIONS

(* A deleted object has no signal connection left. *)
Unlinked == \A c \in Conns : thread[c] = "deleted" => links[c] = 0

(* A frame that is being written and is no longer wanted is the first one  *)
(* since the last STOP.                                                    *)
FirstStray ==
    \A c \in Conns : push.to = c /\ push.var \notin wanted[c] => strays[c] = 0

Inv == /\ Numbered
       /\ SubscribedWhileSending
       /\ Unlinked
       /\ OneStray
       /\ FirstStray
       /\ NoDeletedReceiver

-----------------------------------------------------------------------------
Pushes == [var : Variables \cup {Nobody}, left : [Conns -> Nat], to : Conns \cup {Nobody}]

LEMMA PushingType ==
    ASSUME NEW v \in Variables \cup {Nobody}, NEW left \in [Conns -> Nat],
           NEW to \in Conns \cup {Nobody}
    PROVE  /\ Pushing(v, left, to) \in Pushes
           /\ Pushing(v, left, to).to = to
           /\ to # Nobody => Pushing(v, left, to).var = v
BY DEF Pushing, Pushes

LEMMA PushingTo == ASSUME NEW v, NEW left, NEW to PROVE Pushing(v, left, to).to = to
BY DEF Pushing

LEMMA CountedUp ==
    ASSUME NEW S, NEW f \in [S -> Nat], NEW x \in S
    PROVE  [f EXCEPT ![x] = f[x] + 1] \in [S -> Nat]
OBVIOUS

LEMMA InitInv == Init => TypeOK /\ Inv
<1> SUFFICES ASSUME Init PROVE TypeOK /\ Inv
  OBVIOUS
<1>1. TypeOK
  <2>1. push \in Pushes
    BY PushingType DEF Init, NoSlots
  <2> QED
    BY <2>1, AHPServerAssumption DEF Init, TypeOK, Pushes, NoSlots, NoFrame, Frame, States, Places
<1>2. Inv
  BY AHPServerAssumption DEF Init, Inv, Numbered, Started, SubscribedWhileSending, Unlinked,
     OneStray, FirstStray, NoDeletedReceiver, NoSlots, Accepted, Pushing
<1> QED BY <1>1, <1>2

(* A command that is handled changes the state, the thread and the answer. *)
Replies == {"none", "ACCEPT", "REJECT", "MODE_SUCCESSFULL",
            "HISTORIAN_VARIABLES_RESPONSE", "HISTORIAN_ALARMS_RESPONSE"}
HandledType ==
    /\ state' \in [Conns -> States] /\ thread' \in [Conns -> Places]
    /\ answer' \in [Conns -> Replies]
    /\ UNCHANGED <<count, number, request, inbox, part, open, sent, push, up, samples>>

LEMMA HandleType ==
    ASSUME TypeOK, NEW c \in Conns, NEW here, NEW code, NEW there \in States,
           NEW reply \in Replies, Handle(c, here, code, there, reply)
    PROVE  HandledType
<1>1. /\ state \in [Conns -> States] /\ thread \in [Conns -> Places]
      /\ answer \in [Conns -> Replies] /\ "answering" \in Places
  BY DEF TypeOK, Replies, Places
<1>2. /\ state' = [state EXCEPT ![c] = there] /\ answer' = [answer EXCEPT ![c] = reply]
      /\ thread' = [thread EXCEPT ![c] = "answering"]
      /\ UNCHANGED <<count, number, request, inbox, part, open, sent, push, up, samples>>
  BY DEF Handle, clientVars
<1> QED
  BY <1>1, <1>2 DEF HandledType

LEMMA HandledStep ==
    ASSUME TypeOK, HandledType,
           wanted' \in [Conns -> SUBSET Variables], links' \in [Conns -> Nat],
           strays' \in [Conns -> Nat]
    PROVE  TypeOK'
BY DEF TypeOK, HandledType, Replies

LEMMA StepType == TypeOK /\ [Next]_vars => TypeOK'
<1> SUFFICES ASSUME TypeOK, [Next]_vars PROVE TypeOK'
  OBVIOUS
<1> USE AHPServerAssumption DEF TypeOK, connVars, subVars, clientVars, mainVars
<1>1. ASSUME NEW c \in Conns, IncomingConnection(c) PROVE TypeOK'
  <2>1. count' \in 0 .. MAX_CONNECTIONS /\ number' \in [Conns -> 0 .. MAX_CONNECTIONS]
    BY <1>1 DEF IncomingConnection, NextCount
  <2>2. /\ thread' \in [Conns -> Places] /\ state' \in [Conns -> States]
        /\ open' \in [Conns -> BOOLEAN]
    BY <1>1, SMTT(30) DEF IncomingConnection, Ended, States, Places
  <2> QED
    BY <1>1, <2>1, <2>2 DEF IncomingConnection
<1>2. ASSUME NEW c \in Conns, Delete(c) PROVE TypeOK'
  <2>1. thread' \in [Conns -> Places] /\ links' \in [Conns -> Nat]
    BY <1>2 DEF Delete, Ended, Places
  <2> QED
    BY <1>2, <2>1 DEF Delete
<1>3. ASSUME NEW c \in Conns, Enter(c) PROVE TypeOK'
  <2> DEFINE x == IF links[c] > 0 /\ push.var \in wanted[c] THEN c ELSE Nobody
             l == [push.left EXCEPT ![c] = @ - 1]
  <2>1. push' = Pushing(push.var, l, x) /\ push.left[c] > 0
    BY <1>3 DEF Enter
  <2>2. push.var \in Variables \cup {Nobody} /\ push.left \in [Conns -> Nat]
    OBVIOUS
  <2>3. l \in [Conns -> Nat]
    BY <2>1, <2>2, SMTT(30)
  <2>4. push' \in Pushes
    <3>1. x \in Conns \cup {Nobody}
      OBVIOUS
    <3> HIDE DEF x, l
    <3> QED
      BY <2>1, <2>2, <2>3, <3>1, PushingType
  <2> QED
    BY <1>3, <2>4 DEF Enter, Pushes
<1>4. ASSUME NEW v \in Variables, EmitSample(v) PROVE TypeOK'
  <2>1. push' \in Pushes
    BY <1>4, PushingType DEF EmitSample
  <2> QED
    BY <1>4, <2>1, SMTT(30) DEF EmitSample, Pushes
<1>5. ASSUME Write PROVE TypeOK'
  <2>1. push' \in Pushes
    <3>1. push' = Pushing(push.var, push.left, Nobody)
      BY <1>5 DEF Write
    <3> QED
      BY <3>1, PushingType
  <2>2. up' \in BOOLEAN /\ open' \in [Conns -> BOOLEAN]
    <3>1. up \in BOOLEAN /\ open \in [Conns -> BOOLEAN]
      BY Zenon
    <3>2. \/ UNCHANGED <<up, open>>
          \/ up' = FALSE /\ open' = [c \in Conns |-> FALSE]
      BY <1>5, Zenon DEF Write
    <3>3. CASE UNCHANGED <<up, open>>
      BY <3>1, <3>3, Zenon
    <3>4. CASE up' = FALSE /\ open' = [c \in Conns |-> FALSE]
      BY ONLY <3>4
    <3> QED BY <3>2, <3>3, <3>4, Zenon
  <2>3. strays' \in [Conns -> Nat]
    <3>1. push.to \in Conns
      BY <1>5 DEF Write
    <3>2. strays' = strays \/ strays' = [strays EXCEPT ![push.to] = strays[push.to] + 1]
      BY <1>5 DEF Write
    <3>3. [strays EXCEPT ![push.to] = strays[push.to] + 1] \in [Conns -> Nat]
      BY <3>1, CountedUp
    <3> QED BY <3>2, <3>3
  <2> QED
    BY <1>5, <2>1, <2>2, <2>3 DEF Write, Pushes
<1>6. ASSUME NEW c \in Conns, ReadFrame(c) PROVE TypeOK'
  <2>1. inbox[c] \in Seq(Frame) /\ inbox[c] # << >>
    BY <1>6 DEF ReadFrame
  <2>2. Head(inbox[c]) \in Frame /\ Tail(inbox[c]) \in Seq(Frame)
    BY <2>1
  <2>3. /\ request' \in [Conns -> Frame \cup {NoFrame}] /\ inbox' \in [Conns -> Seq(Frame)]
        /\ thread' \in [Conns -> Places]
    BY <1>6, <2>2 DEF ReadFrame, Places
  <2> QED
    BY <1>6, <2>3 DEF ReadFrame
<1>7. ASSUME NEW c \in Conns, LeaveLoop(c) PROVE TypeOK'
  <2>1. /\ thread' \in [Conns -> Places] /\ inbox' \in [Conns -> Seq(Frame)]
        /\ UNCHANGED <<count, number, state, request, answer, wanted, links, part, open, sent,
                       push, up, strays, samples>>
    BY <1>7 DEF LeaveLoop, Ended, Places
  <2> QED
    BY <2>1
<1>8. ASSUME NEW c \in Conns,
             ProcessBeginState(c) \/ ProcessConnectedState(c) \/ ProcessHistorianState(c)
      PROVE  TypeOK'
  <2>1. HandledType
    <3>1. /\ {"connected", "realtime", "historian", "disconnected"} \subseteq States
          /\ {"none", "ACCEPT", "REJECT", "MODE_SUCCESSFULL", "HISTORIAN_VARIABLES_RESPONSE",
              "HISTORIAN_ALARMS_RESPONSE"} \subseteq Replies
      BY DEF States, Accepted, Replies
    <3>2. CASE ProcessBeginState(c)
      BY <3>1, <3>2, HandleType DEF ProcessBeginState
    <3>3. CASE ProcessConnectedState(c)
      BY <3>1, <3>3, HandleType DEF ProcessConnectedState
    <3>4. CASE ProcessHistorianState(c)
      BY <3>1, <3>4, HandleType DEF ProcessHistorianState
    <3> QED BY <1>8, <3>2, <3>3, <3>4
  <2>2. UNCHANGED <<wanted, links, strays>>
    BY <1>8 DEF ProcessBeginState, ProcessConnectedState, ProcessHistorianState
  <2> QED
    BY <2>1, <2>2, HandledStep
<1>9. ASSUME NEW c \in Conns, ProcessRealtimeState(c) PROVE TypeOK'
  <2>1. request[c].vars \in SUBSET Variables
    <3>1. request[c] \in Frame \cup {NoFrame}
      OBVIOUS
    <3>2. \A f \in Frame \cup {NoFrame} : f.vars \in SUBSET Variables
      BY DEF Frame, NoFrame
    <3> QED BY <3>1, <3>2
  <2>2. HandledType
    <3>1. {"sending", "connected"} \subseteq States /\ {"none", "ACCEPT"} \subseteq Replies
      BY DEF States, Accepted, Replies
    <3> QED
      BY <1>9, <3>1, HandleType DEF ProcessRealtimeState
  <2>3. \/ UNCHANGED <<wanted, links>>
        \/ /\ wanted' = [wanted EXCEPT ![c] = request[c].vars]
           /\ links' = [links EXCEPT ![c] = @ + 1]
    BY <1>9 DEF ProcessRealtimeState
  <2>4. wanted' \in [Conns -> SUBSET Variables]
    BY <2>1, <2>3
  <2>5. links' \in [Conns -> Nat]
    <3>1. links' = links \/ links' = [links EXCEPT ![c] = links[c] + 1]
      BY <2>3
    <3>2. [links EXCEPT ![c] = links[c] + 1] \in [Conns -> Nat]
      BY CountedUp
    <3> QED BY <3>1, <3>2
  <2>6. strays' = strays
    BY <1>9 DEF ProcessRealtimeState
  <2> QED
    BY <2>2, <2>4, <2>5, <2>6, HandledStep
<1>10. ASSUME NEW c \in Conns, ProcessRealtimeSendingState(c) PROVE TypeOK'
  <2>1. HandledType
    <3>1. "realtime" \in States /\ "ACCEPT" \in Replies
      BY DEF States, Accepted, Replies
    <3> QED
      BY <1>10, <3>1, HandleType DEF ProcessRealtimeSendingState
  <2>2. /\ wanted' \in [Conns -> SUBSET Variables] /\ links' \in [Conns -> Nat]
        /\ strays' \in [Conns -> Nat]
    BY <1>10 DEF ProcessRealtimeSendingState
  <2> QED
    BY <2>1, <2>2, HandledStep
<1>11. ASSUME NEW c \in Conns, Ignore(c) PROVE TypeOK'
  <2>1. /\ thread' \in [Conns -> Places] /\ request' \in [Conns -> Frame \cup {NoFrame}]
        /\ UNCHANGED <<count, number, state, answer, wanted, links, inbox, part, open, sent,
                       push, up, strays, samples>>
    BY <1>11 DEF Ignore, Places
  <2> QED
    BY <2>1
<1>12. ASSUME NEW c \in Conns, Answer(c) PROVE TypeOK'
  <2>1. /\ thread' \in [Conns -> Places] /\ request' \in [Conns -> Frame \cup {NoFrame}]
        /\ answer' \in [Conns -> Replies] /\ open' \in [Conns -> BOOLEAN]
    BY <1>12 DEF Answer, Ended, Places, Replies
  <2>2. UNCHANGED <<count, number, state, wanted, links, inbox, part, sent, push, up, strays,
                    samples>>
    BY <1>12 DEF Answer
  <2> QED
    BY <2>1, <2>2 DEF Replies
<1>13. ASSUME NEW c \in Conns, NEW f \in Frame, Send(c, f) PROVE TypeOK'
  <2>1. inbox' \in [Conns -> Seq(Frame)] /\ part' \in [Conns -> BOOLEAN] /\ sent' \in Nat
    BY <1>13 DEF Send
  <2> QED
    BY <1>13, <2>1 DEF Send
<1>14. ASSUME NEW c \in Conns, SendPart(c) \/ HangUp(c) PROVE TypeOK'
  <2>1. part' \in [Conns -> BOOLEAN] /\ open' \in [Conns -> BOOLEAN]
    <3>1. part \in [Conns -> BOOLEAN] /\ open \in [Conns -> BOOLEAN]
      BY Zenon
    <3>2. \/ part' = [part EXCEPT ![c] = TRUE] /\ open' = open
          \/ open' = [open EXCEPT ![c] = FALSE] /\ part' = part
      BY <1>14, Zenon DEF SendPart, HangUp
    <3>3. /\ [part EXCEPT ![c] = TRUE] \in [Conns -> BOOLEAN]
          /\ [open EXCEPT ![c] = FALSE] \in [Conns -> BOOLEAN]
      BY ONLY <3>1, Zenon
    <3> QED BY ONLY <3>1, <3>2, <3>3, Zenon
  <2>2. UNCHANGED <<count, number, state, thread, request, answer, wanted, links, inbox, sent,
                    push, up, strays, samples>>
    BY <1>14 DEF SendPart, HangUp
  <2> QED
    BY <2>1, <2>2
<1>15. CASE Crash
  BY <1>15 DEF Crash
<1>16. CASE UNCHANGED vars
  BY <1>16 DEF vars
<1>17. ASSUME NEW c \in Conns, Thread(c) PROVE TypeOK'
  BY <1>6, <1>7, <1>8, <1>9, <1>10, <1>11, <1>12, <1>15, <1>17, Zenon DEF Thread, Process, Throws
<1>18. ASSUME NEW c \in Conns, Client(c) PROVE TypeOK'
  <2>1. Frames[c] \subseteq Frame
    OBVIOUS
  <2> QED
    BY <1>13, <1>14, <1>18, <2>1, Zenon DEF Client
<1>19. CASE Main
  BY <1>1, <1>2, <1>3, <1>4, <1>5, <1>15, <1>19, Zenon DEF Main, Collide
<1> QED
  BY <1>16, <1>17, <1>18, <1>19, Zenon DEF Next

(* What of a step matters to the invariant: the place of one thread ...    *)
LEMMA QuietStep ==
    ASSUME TypeOK, Inv, NEW c \in Conns, NEW t \in Places \ {"none", "deleted"},
           Started(c), thread[c] # "deleted", thread' = [thread EXCEPT ![c] = t],
           UNCHANGED <<count, number, state, wanted, links, push, strays>>
    PROVE  Inv'
<1> USE DEF TypeOK, Inv
<1>1. \A d \in Conns : Started(d)' = Started(d)
  BY DEF Started
<1>2. \A d \in Conns : (thread'[d] = "deleted") = (thread[d] = "deleted")
  OBVIOUS
<1>3. Numbered'
  BY <1>1 DEF Numbered
<1>4. (SubscribedWhileSending /\ Unlinked /\ NoDeletedReceiver)'
  BY <1>2 DEF SubscribedWhileSending, Unlinked, NoDeletedReceiver
<1>5. (OneStray /\ FirstStray)'
  BY DEF OneStray, FirstStray
<1> QED BY <1>3, <1>4, <1>5

(* ... or the new state of a session whose command is handled: a session   *)
(* is only accepted with a number below the limit.                         *)
LEMMA HandleStep ==
    ASSUME TypeOK, Inv, NEW c \in Conns, NEW here, NEW code, NEW there \in States, NEW reply,
           Handle(c, here, code, there, reply),
           there \in Accepted => here \in Accepted \/ number[c] < MAX_CONNECTIONS
    PROVE  /\ Numbered' /\ NoDeletedReceiver'
           /\ thread[c] # "deleted"
           /\ state' = [state EXCEPT ![c] = there] /\ state[c] = here
           /\ \A d \in Conns : (thread'[d] = "deleted") = (thread[d] = "deleted")
<1> USE DEF TypeOK, Inv
<1>1. /\ thread[c] = "handling" /\ thread' = [thread EXCEPT ![c] = "answering"]
      /\ state' = [state EXCEPT ![c] = there] /\ state[c] = here
      /\ UNCHANGED <<count, number, push>>
  BY DEF Handle, connVars, clientVars
<1>2. \A d \in Conns : Started(d)' = Started(d)
  BY <1>1 DEF Started
<1>3. \A d \in Conns : (thread'[d] = "deleted") = (thread[d] = "deleted")
  BY <1>1
<1>4. \A d \in Conns : state'[d] \in Accepted => number[d] < MAX_CONNECTIONS
  BY <1>1 DEF Numbered
<1>5. Started(c)
  BY <1>1 DEF Started
<1>6. Numbered'
  BY <1>1, <1>2, <1>4, <1>5 DEF Numbered
<1>7. NoDeletedReceiver'
  BY <1>1, <1>3 DEF NoDeletedReceiver
<1> QED BY <1>1, <1>3, <1>6, <1>7

(* A command that touches neither the list of wanted variables nor the     *)
(* signal, outside REALTIME_SENDING_STATE.                                 *)
LEMMA HandleOther ==
    ASSUME TypeOK, Inv, NEW c \in Conns, NEW here, NEW code, NEW there \in States, NEW reply,
           Handle(c, here, code, there, reply), UNCHANGED <<subVars, strays>>,
           there \in Accepted => here \in Accepted \/ number[c] < MAX_CONNECTIONS,
           here # "sending", there # "sending"
    PROVE  Inv'
<1> USE DEF TypeOK, Inv, subVars
<1>1. /\ Numbered' /\ NoDeletedReceiver' /\ UNCHANGED push
      /\ state' = [state EXCEPT ![c] = there] /\ state[c] = here
      /\ \A d \in Conns : (thread'[d] = "deleted") = (thread[d] = "deleted")
  BY HandleStep DEF Handle
<1>2. SubscribedWhileSending' /\ Unlinked'
  BY <1>1 DEF SubscribedWhileSending, Unlinked
<1>3. OneStray' /\ FirstStray'
  BY <1>1 DEF OneStray, FirstStray
<1> QED BY <1>1, <1>2, <1>3

LEMMA CrashStep == Inv /\ Crash => Inv'
BY DEF Inv, Crash, connVars, subVars, Numbered, Started, SubscribedWhileSending, Unlinked,
   OneStray, FirstStray, NoDeletedReceiver

LEMMA StepMain == TypeOK /\ Inv /\ Main => Inv'
<1> SUFFICES ASSUME TypeOK, Inv, Main PROVE Inv'
  OBVIOUS
<1> USE AHPServerAssumption DEF TypeOK, Inv, connVars, subVars, clientVars, mainVars
<1>1. ASSUME NEW c \in Conns, IncomingConnection(c) PROVE Inv'
  <2>1. PICK s \in {"begin", "disconnected"}, t \in {"reading", "finished"} :
           /\ thread' = [thread EXCEPT ![c] = t] /\ state' = [state EXCEPT ![c] = s]
           /\ number' = [number EXCEPT ![c] = count] /\ count' = NextCount
           /\ thread[c] = "none" /\ UNCHANGED <<wanted, links, push, strays>>
    BY <1>1 DEF IncomingConnection
  <2>2. state[c] = "begin" /\ links[c] = 0 /\ wanted[c] = {}
    BY <2>1 DEF Numbered, Started, SubscribedWhileSending
  <2>3. \A d \in Conns : Started(d)' <=> Started(d) \/ d = c
    BY <2>1 DEF Started
  <2>4. \A d \in Conns : state'[d] \in Accepted => state[d] \in Accepted /\ d # c
    BY <2>1, SMTT(30) DEF Accepted
  <2>5. /\ count' = IF count < MAX_CONNECTIONS THEN count + 1 ELSE count
        /\ count \in 0 .. MAX_CONNECTIONS
    BY <2>1 DEF NextCount
  <2>6. ~Started(c)
    BY <2>1 DEF Started
  <2>7. Numbered'
    <3>1. \A d \in Conns : number'[d] = IF d = c THEN count ELSE number[d]
      BY <2>1
    <3>2. \A d \in Conns : Started(d) => number[d] < count \/ number[d] = MAX_CONNECTIONS
      BY DEF Numbered
    <3>3. \A d \in Conns : ~Started(d)' => state'[d] = "begin"
      BY <2>1, <2>3 DEF Numbered
    <3>4. \A d \in Conns : Started(d)' => number'[d] < count' \/ number'[d] = MAX_CONNECTIONS
      <4> SUFFICES ASSUME NEW d \in Conns, Started(d)'
                   PROVE  number'[d] < count' \/ number'[d] = MAX_CONNECTIONS
        OBVIOUS
      <4>1. number[d] \in 0 .. MAX_CONNECTIONS /\ MAX_CONNECTIONS \in Nat
        OBVIOUS
      <4>2. CASE d = c
        BY <2>5, <3>1, <4>2
      <4>3. CASE d # c
        BY <2>3, <2>5, <3>1, <3>2, <4>1, <4>3, SMTT(30)
      <4> QED BY <4>2, <4>3
    <3>5. ASSUME NEW d \in Conns, NEW e \in Conns, Started(d)', Started(e)', d # e,
                 number'[d] = number'[e]
          PROVE  number'[d] = MAX_CONNECTIONS
      <4>1. CASE d # c /\ e # c
        BY <2>3, <3>1, <3>5, <4>1 DEF Numbered
      <4>2. CASE d = c
        BY <2>3, <2>5, <3>1, <3>2, <3>5, <4>2, SMTT(30)
      <4>3. CASE e = c
        BY <2>3, <2>5, <3>1, <3>2, <3>5, <4>3, SMTT(30)
      <4> QED BY <4>1, <4>2, <4>3
    <3>6. \A d \in Conns : state'[d] \in Accepted => number'[d] < MAX_CONNECTIONS
      BY <2>4, <3>1 DEF Numbered
    <3> QED BY <3>3, <3>4, <3>5, <3>6, <2>1 DEF Numbered
  <2>8. SubscribedWhileSending' /\ Unlinked'
    BY <2>1, <2>2, ZenonT(40) DEF SubscribedWhileSending, Unlinked
  <2>9. (OneStray /\ FirstStray /\ NoDeletedReceiver)'
    BY <2>1, ZenonT(40) DEF OneStray, FirstStray, NoDeletedReceiver
  <2> QED BY <2>7, <2>8, <2>9
<1>2. ASSUME NEW c \in Conns, Delete(c) PROVE Inv'
  <2>1. Numbered'
    BY <1>2, ZenonT(40) DEF Delete, Numbered, Started
  <2>2. SubscribedWhileSending' /\ Unlinked'
    BY <1>2, ZenonT(40) DEF Delete, SubscribedWhileSending, Unlinked
  <2>3. (OneStray /\ FirstStray /\ NoDeletedReceiver)'
    BY <1>2 DEF Delete, MainIdle, OneStray, FirstStray, NoDeletedReceiver
  <2> QED BY <2>1, <2>2, <2>3
<1>3. ASSUME NEW c \in Conns, Enter(c) PROVE Inv'
  <2>1. Numbered' /\ SubscribedWhileSending' /\ Unlinked' /\ OneStray'
    BY <1>3 DEF Enter, Numbered, Started, SubscribedWhileSending, Unlinked, OneStray
  <2>2. push \in [var : Variables \cup {Nobody}, left : [Conns -> Nat], to : Conns \cup {Nobody}]
    OBVIOUS
  <2>3. /\ push'.to = IF links[c] > 0 /\ push.var \in wanted[c] THEN c ELSE Nobody
        /\ push'.to # Nobody => push'.var = push.var
    <3> DEFINE x == IF links[c] > 0 /\ push.var \in wanted[c] THEN c ELSE Nobody
               l == [push.left EXCEPT ![c] = @ - 1]
    <3>1. push' = Pushing(push.var, l, x) /\ push.left[c] > 0
      BY <1>3 DEF Enter
    <3>2. l \in [Conns -> Nat]
      BY <2>2, <3>1, SMTT(30)
    <3>3. x \in Conns \cup {Nobody} /\ push.var \in Variables \cup {Nobody}
      BY <2>2
    <3> HIDE DEF x, l
    <3>4. push'.to = x /\ (push'.to # Nobody => push'.var = push.var)
      <4>1. push'.to = x
        BY <3>1, PushingTo, Zenon
      <4>2. x # Nobody => Pushing(push.var, l, x).var = push.var
        BY ONLY <3>2, <3>3, PushingType, Zenon
      <4> QED BY <3>1, <4>1, <4>2, Zenon
    <3>5. /\ push'.to = IF links[c] > 0 /\ push.var \in wanted[c] THEN c ELSE Nobody
          /\ push'.to # Nobody => push'.var = push.var
      BY <3>4, Zenon DEF x
    <3> QED BY <3>5, Zenon
  <2>4. FirstStray'
    BY <1>3, <2>3 DEF Enter, FirstStray
  <2>5. NoDeletedReceiver'
    <3>1. CASE push'.to = Nobody
      BY <3>1 DEF NoDeletedReceiver
    <3>2. CASE push'.to = c /\ links[c] > 0
      BY <1>3, <3>2 DEF Enter, NoDeletedReceiver, Unlinked
    <3> QED BY <2>3, <3>1, <3>2
  <2> QED BY <2>1, <2>4, <2>5
<1>4. ASSUME NEW v \in Variables, EmitSample(v) PROVE Inv'
  <2>1. Numbered' /\ SubscribedWhileSending' /\ Unlinked' /\ OneStray'
    BY <1>4 DEF EmitSample, Numbered, Started, SubscribedWhileSending, Unlinked, OneStray
  <2>2. push'.to = Nobody
    BY <1>4, PushingTo DEF EmitSample
  <2> QED BY <2>1, <2>2 DEF FirstStray, NoDeletedReceiver
<1>5. ASSUME Write PROVE Inv'
  <2>1. Numbered' /\ SubscribedWhileSending' /\ Unlinked'
    BY <1>5 DEF Write, Numbered, Started, SubscribedWhileSending, Unlinked
  <2>2. push'.to = Nobody
    BY <1>5, PushingTo DEF Write
  <2>3. push.to \in Conns /\ strays \in [Conns -> Nat]
    BY <1>5 DEF Write
  <2>4. \/ strays' = strays
        \/ /\ push.var \notin wanted[push.to]
           /\ strays' = [strays EXCEPT ![push.to] = @ + 1]
    BY <1>5 DEF Write
  <2>5. push.var \notin wanted[push.to] => strays[push.to] = 0
    BY <2>3 DEF FirstStray
  <2>6. OneStray'
    <3> SUFFICES ASSUME NEW c \in Conns PROVE strays'[c] <= 1
      BY DEF OneStray
    <3>1. strays[c] <= 1 /\ strays[c] \in Nat
      BY DEF OneStray
    <3>2. CASE strays' = strays
      BY <3>1, <3>2
    <3>3. CASE push.var \notin wanted[push.to] /\ strays' = [strays EXCEPT ![push.to] = @ + 1]
      BY <2>3, <2>5, <3>1, <3>3
    <3> QED BY <2>4, <3>2, <3>3
  <2> QED BY <2>1, <2>2, <2>6, AHPServerAssumption DEF FirstStray, NoDeletedReceiver
<1>6. ASSUME NEW c \in Conns, Collide(c) PROVE Inv'
  BY <1>6, CrashStep DEF Collide
<1> QED BY <1>1, <1>2, <1>3, <1>4, <1>5, <1>6 DEF Main

LEMMA StepThread == ASSUME TypeOK, Inv, NEW c \in Conns, Thread(c) PROVE Inv'
<1> USE DEF connVars, subVars, clientVars, mainVars
<1>1. ASSUME ReadFrame(c) \/ LeaveLoop(c) \/ Ignore(c) \/ Answer(c) PROVE Inv'
  <2>1. PICK t \in Places \ {"none", "deleted"} : thread' = [thread EXCEPT ![c] = t]
    BY <1>1 DEF ReadFrame, LeaveLoop, Ignore, Answer, Places, Ended
  <2>2. Started(c) /\ thread[c] # "deleted"
    BY <1>1 DEF ReadFrame, LeaveLoop, Ignore, Answer, Started
  <2>3. UNCHANGED <<count, number, state, wanted, links, push, strays>>
    BY <1>1 DEF ReadFrame, LeaveLoop, Ignore, Answer
  <2> QED BY <2>1, <2>2, <2>3, QuietStep
<1>2. CASE ProcessBeginState(c)
  BY <1>2, HandleOther DEF ProcessBeginState, States, Accepted
<1>3. CASE ProcessConnectedState(c)
  BY <1>3, HandleOther DEF ProcessConnectedState, States, Accepted
<1>4. CASE ProcessHistorianState(c)
  BY <1>4, HandleOther DEF ProcessHistorianState, States, Accepted
<1>5. CASE ProcessRealtimeState(c)
  <2>1. CASE /\ Handle(c, "realtime", "RESET_MODE", "connected", "ACCEPT")
             /\ UNCHANGED <<subVars, strays>>
    BY <2>1, HandleOther DEF States, Accepted
  <2>2. CASE /\ Handle(c, "realtime", "GET_REALTIME_VARIABLES", "sending", "none")
             /\ wanted' = [wanted EXCEPT ![c] = request[c].vars]
             /\ links' = [links EXCEPT ![c] = @ + 1]
             /\ UNCHANGED strays
    <3>1. /\ Numbered' /\ NoDeletedReceiver' /\ UNCHANGED push /\ thread[c] # "deleted"
          /\ state' = [state EXCEPT ![c] = "sending"] /\ state[c] = "realtime"
          /\ \A d \in Conns : (thread'[d] = "deleted") = (thread[d] = "deleted")
      BY <2>2, HandleStep DEF Handle, States, Accepted
    <3>2. links[c] = 0 /\ wanted[c] = {}
      BY <3>1 DEF Inv, SubscribedWhileSending
    <3>3. SubscribedWhileSending' /\ Unlinked'
      BY <2>2, <3>1, <3>2 DEF TypeOK, Inv, SubscribedWhileSending, Unlinked
    <3>4. OneStray' /\ FirstStray'
      BY <2>2, <3>1, <3>2 DEF TypeOK, Inv, OneStray, FirstStray
    <3> QED BY <3>1, <3>3, <3>4 DEF Inv
  <2> QED BY <1>5, <2>1, <2>2 DEF ProcessRealtimeState
<1>6. CASE ProcessRealtimeSendingState(c)
  <2>1. /\ Numbered' /\ NoDeletedReceiver' /\ thread[c] # "deleted"
        /\ state' = [state EXCEPT ![c] = "realtime"] /\ state[c] = "sending"
        /\ \A d \in Conns : (thread'[d] = "deleted") = (thread[d] = "deleted")
    BY <1>6, HandleStep DEF ProcessRealtimeSendingState, States, Accepted
  <2>2. /\ links' = [links EXCEPT ![c] = 0] /\ wanted' = [wanted EXCEPT ![c] = {}]
        /\ strays' = [strays EXCEPT ![c] = 0] /\ UNCHANGED push
    BY <1>6 DEF ProcessRealtimeSendingState, Handle
  <2>3. SubscribedWhileSending' /\ Unlinked'
    BY <2>1, <2>2 DEF TypeOK, Inv, SubscribedWhileSending, Unlinked
  <2>4. OneStray' /\ FirstStray'
    BY <2>1, <2>2 DEF TypeOK, Inv, OneStray, FirstStray
  <2> QED BY <2>1, <2>3, <2>4 DEF Inv
<1>7. CASE Throws(c)
  BY <1>7, CrashStep DEF Throws
<1> QED BY <1>1, <1>2, <1>3, <1>4, <1>5, <1>6, <1>7 DEF Thread, Process

LEMMA StepInv == TypeOK /\ Inv /\ [Next]_vars => Inv'
<1> SUFFICES ASSUME TypeOK, Inv, [Next]_vars PROVE Inv'
  OBVIOUS
<1>1. CASE Main
  BY <1>1, StepMain
<1>2. ASSUME NEW c \in Conns, Thread(c) PROVE Inv'
  BY <1>2, StepThread
<1>3. ASSUME NEW c \in Conns, Client(c) \/ UNCHANGED vars PROVE Inv'
  <2>1. UNCHANGED <<count, number, state, thread, wanted, links, push, strays>>
    BY <1>3 DEF Client, Send, SendPart, HangUp, vars, connVars, subVars, mainVars
  <2> QED
    BY <2>1 DEF Inv, Numbered, Started, SubscribedWhileSending, Unlinked, OneStray, FirstStray,
       NoDeletedReceiver
<1>4. CASE UNCHANGED vars
  BY <1>4 DEF vars, connVars, subVars, mainVars, Inv, Numbered, Started, SubscribedWhileSending,
     Unlinked, OneStray, FirstStray, NoDeletedReceiver
<1> QED BY <1>1, <1>2, <1>3, <1>4 DEF Next

-----------------------------------------------------------------------------
(* TypeOK and the inductive invariant hold in every reachable state, for   *)
(* any number of clients and any behaviour of theirs.                      *)
THEOREM Invariance == Spec => [](TypeOK /\ Inv)
<1>1. TypeOK /\ Inv /\ [Next]_vars => (TypeOK /\ Inv)'
  BY StepType, StepInv
<1> QED BY InitInv, <1>1, PTL DEF Spec

(* The state of the server is well-formed: connections are numbered within *)
(* the limit, threads and sessions are in the states the code names.       *)
THEOREM TypeCorrect == Spec => []TypeOK
BY Invariance, PTL

LEMMA NumbersBoundSessions == TypeOK /\ Inv => SessionsBounded
<1> SUFFICES ASSUME TypeOK, Inv PROVE SessionsBounded
  OBVIOUS
<1> USE AHPServerAssumption DEF TypeOK, Inv
<1> DEFINE S == {c \in Conns : state[c] \in Accepted}
           T == 0 .. MAX_CONNECTIONS - 1
           f == [c \in S |-> number[c]]
<1>1. \A c \in S : number[c] \in T
  BY DEF Numbered
<1>2. \A c \in S : Started(c)
  BY DEF Numbered, Accepted
<1>3. \A c, d \in S : number[c] = number[d] => c = d
  BY <1>1, <1>2 DEF Numbered
<1>4. f \in Injection(S, T)
  BY <1>1, <1>3 DEF Injection, IsInjective
<1>5. IsFiniteSet(T) /\ Cardinality(T) = MAX_CONNECTIONS
  <2>1. MAX_CONNECTIONS \in Nat /\ 0 \in Int /\ MAX_CONNECTIONS - 1 \in Int
    OBVIOUS
  <2>2. /\ IsFiniteSet(T)
        /\ Cardinality(T) = IF 0 > MAX_CONNECTIONS - 1 THEN 0 ELSE MAX_CONNECTIONS - 1 - 0 + 1
    BY ONLY <2>1, FS_Interval
  <2> QED BY <2>1, <2>2
<1>6. Cardinality(S) <= Cardinality(T)
  BY <1>4, <1>5, FS_Injection
<1> QED
  BY <1>5, <1>6 DEF SessionsBounded

(* The limit is kept by any number of clients that come, say HELLO, stay   *)
(* or go (Connection::processBeginState with m_connectionCout).            *)
THEOREM LimitKept == Spec => []SessionsBounded
BY Invariance, NumbersBoundSessions, PTL

(* The signal and the list of wanted variables follow the session's state  *)
(* in every interleaving of the main thread and the connection threads.    *)
THEOREM SubscriptionFollowsState == Spec => []SubscribedWhileSending
<1>1. Inv => SubscribedWhileSending
  BY DEF Inv
<1> QED BY Invariance, <1>1, PTL

(* The unlocked write of the main thread sends at most one unexpected      *)
(* real-time frame per STOP, for any number of variables and samples.      *)
THEOREM AtMostOneStray == Spec => []OneStray
<1>1. Inv => OneStray
  BY DEF Inv
<1> QED BY Invariance, <1>1, PTL

(* The main thread never runs a slot of an object it has deleted.          *)
THEOREM ReceiversAlive == Spec => []NoDeletedReceiver
<1>1. Inv => NoDeletedReceiver
  BY DEF Inv
<1> QED BY Invariance, <1>1, PTL

-----------------------------------------------------------------------------
(* One command. *)
Turn(room, m, code) == Take(room, [mode |-> m, owed |-> << >>], code)

LEMMA Rows ==
    ASSUME NEW room, NEW r \in Protocol(room)
    PROVE  /\ r[1] \in States /\ r[3] \in States /\ r[2] \in Cases[r[1]]
           /\ r[4] = << >> \/ \E a \in Answers : r[4] = <<a>>
<1>1. r[1] \in States /\ r[3] \in States
  BY DEF Protocol, States, Accepted
<1>2. r[2] \in Cases[r[1]]
  BY DEF Protocol, Cases
<1>3. \/ r[4] = << >> \/ r[4] = <<"ACCEPT">> \/ r[4] = <<"REJECT">>
      \/ r[4] = <<"MODE_SUCCESSFULL">> \/ r[4] = <<"HISTORIAN_VARIABLES_RESPONSE">>
      \/ r[4] = <<"HISTORIAN_ALARMS_RESPONSE">>
  BY DEF Protocol
<1>4. r[4] = << >> \/ \E a \in Answers : r[4] = <<a>>
  BY <1>3 DEF Answers
<1> QED
  BY <1>1, <1>2, <1>4

LEMMA RowType ==
    ASSUME NEW room, NEW r \in Protocol(room)
    PROVE  r[4] \in Seq(Answers) /\ << >> \o r[4] = r[4]
<1>1. CASE r[4] = << >>
  BY <1>1
<1>2. ASSUME NEW a \in Answers, r[4] = <<a>>
      PROVE  r[4] \in Seq(Answers) /\ << >> \o r[4] = r[4]
  BY <1>2
<1> QED
  BY <1>1, <1>2, Rows

LEMMA RowsUnique ==
    ASSUME NEW room, NEW q \in Protocol(room), NEW r \in Protocol(room), q[1] = r[1], q[2] = r[2]
    PROVE  q = r
BY DEF Protocol

LEMMA RowTaken ==
    ASSUME NEW room, NEW r \in Protocol(room)
    PROVE  Turn(room, r[1], r[2]) = [mode |-> r[3], owed |-> r[4]]
<1> DEFINE rows == {q \in Protocol(room) : q[1] = r[1] /\ q[2] = r[2]}
<1>1. rows = {r}
  BY RowsUnique
<1>2. Turn(room, r[1], r[2]) = [mode |-> r[3], owed |-> << >> \o r[4]]
  BY <1>1 DEF Turn, Take
<1> QED
  BY <1>2, RowType

LEMMA NoRow ==
    ASSUME NEW room, NEW m \in States, NEW code, code \notin Cases[m]
    PROVE  Turn(room, m, code) = [mode |-> m, owed |-> << >>]
<1> DEFINE rows == {q \in Protocol(room) : q[1] = m /\ q[2] = code}
<1>1. rows = {}
  BY Rows
<1> QED
  BY <1>1 DEF Turn, Take

LEMMA Takes ==
    ASSUME NEW room, NEW m \in States, NEW code
    PROVE  /\ Turn(room, m, code).mode \in States /\ Turn(room, m, code).owed \in Seq(Answers)
           /\ \A w \in Seq(Answers) :
                 Take(room, [mode |-> m, owed |-> w], code) =
                    [mode |-> Turn(room, m, code).mode, owed |-> w \o Turn(room, m, code).owed]
<1> DEFINE rows == {q \in Protocol(room) : q[1] = m /\ q[2] = code}
<1>1. CASE rows = {}
  <2>1. Turn(room, m, code) = [mode |-> m, owed |-> << >>]
    BY <1>1 DEF Turn, Take
  <2>2. \A w \in Seq(Answers) : w \o << >> = w
    OBVIOUS
  <2>3. \A w \in Seq(Answers) :
           Take(room, [mode |-> m, owed |-> w], code) = [mode |-> m, owed |-> w]
    BY <1>1 DEF Take
  <2> QED
    BY <2>1, <2>2, <2>3
<1>2. CASE rows # {}
  <2> DEFINE r == CHOOSE q \in rows : TRUE
  <2>1. r \in rows
    BY <1>2
  <2>2. \A w \in Seq(Answers) :
           Take(room, [mode |-> m, owed |-> w], code) = [mode |-> r[3], owed |-> w \o r[4]]
    BY <1>2 DEF Take
  <2>3. r \in Protocol(room)
    BY <2>1
  <2> HIDE DEF r
  <2>4. r[3] \in States /\ r[4] \in Seq(Answers) /\ << >> \o r[4] = r[4]
    BY <2>3, Rows, RowType
  <2>5. << >> \in Seq(Answers)
    OBVIOUS
  <2>6. Turn(room, m, code) = [mode |-> r[3], owed |-> r[4]]
    BY <2>2, <2>4, <2>5 DEF Turn
  <2> DEFINE t == Turn(room, m, code)
  <2>7. t.mode = r[3] /\ t.owed = r[4]
    BY <2>6
  <2> HIDE DEF t
  <2>8. \A w \in Seq(Answers) :
           Take(room, [mode |-> m, owed |-> w], code) = [mode |-> t.mode, owed |-> w \o t.owed]
    BY <2>2, <2>7
  <2>9. t.mode \in States /\ t.owed \in Seq(Answers)
    BY <2>4, <2>7
  <2> QED
    BY <2>8, <2>9 DEF t
<1> QED
  BY <1>1, <1>2

-----------------------------------------------------------------------------
(***************************************************************************)
(* A sequence of commands: it leads from one mode to another and owes the  *)
(* answers ow.  m are the modes on the way, o what is owed from there on.  *)
(***************************************************************************)
On(s) == 1 .. Len(s) + 1
Way(room, s, m, o) ==
    /\ m \in [On(s) -> States] /\ o \in [On(s) -> Seq(Answers)]
    /\ o[Len(s) + 1] = << >>
    /\ \A k \in 1 .. Len(s) :
          /\ m[k + 1] = Turn(room, m[k], s[k].code).mode
          /\ o[k] = Turn(room, m[k], s[k].code).owed \o o[k + 1]
Leads(room, s, from, to, ow) ==
    \E m, o : Way(room, s, m, o) /\ m[1] = from /\ m[Len(s) + 1] = to /\ o[1] = ow

LEMMA LeadsNowhere ==
    ASSUME NEW room, NEW from \in States
    PROVE  /\ Leads(room, << >>, from, from, << >>)
           /\ \A to, ow : Leads(room, << >>, from, to, ow) => to = from /\ ow = << >>
<1>1. Len(<< >>) = 0 /\ On(<< >>) = {1}
  BY DEF On
<1>2. Leads(room, << >>, from, from, << >>)
  <2> DEFINE m == [i \in {1} |-> from]
             o == [i \in {1} |-> << >>]
  <2>1. m \in [{1} -> States] /\ o \in [{1} -> Seq(Answers)] /\ m[1] = from /\ o[1] = << >>
    OBVIOUS
  <2> HIDE DEF m, o
  <2>2. Way(room, << >>, m, o)
    BY <1>1, <2>1 DEF Way
  <2> QED
    BY <1>1, <2>1, <2>2 DEF Leads
<1> QED
  BY <1>1, <1>2 DEF Leads, Way

LEMMA LeadsOn ==
    ASSUME NEW room, NEW S, NEW s \in Seq(S), NEW f \in S, NEW from, NEW to, NEW ow,
           Leads(room, s, from, to, ow)
    PROVE  /\ to \in States /\ ow \in Seq(Answers)
           /\ Leads(room, Append(s, f), from, Turn(room, to, f.code).mode,
                    ow \o Turn(room, to, f.code).owed)
<1> DEFINE n == Len(s)
           a == Append(s, f)
           u == Turn(room, to, f.code)
<1>1. PICK m, o : Way(room, s, m, o) /\ m[1] = from /\ m[n + 1] = to /\ o[1] = ow
  BY DEF Leads
<1>2. n \in Nat /\ On(s) = 1 .. n + 1 /\ On(a) = 1 .. n + 2 /\ Len(a) = n + 1
  BY DEF On
<1>3. a[n + 1] = f /\ \A k \in 1 .. n : a[k] = s[k]
  OBVIOUS
<1>4. to \in States /\ ow \in Seq(Answers)
  BY <1>1, <1>2 DEF Way
<1>5. u.mode \in States /\ u.owed \in Seq(Answers)
  BY <1>4, Takes
<1> HIDE DEF n, a, u
<1> DEFINE m1 == [k \in 1 .. n + 2 |-> IF k = n + 2 THEN u.mode ELSE m[k]]
           o1 == [k \in 1 .. n + 2 |-> IF k = n + 2 THEN << >> ELSE o[k] \o u.owed]
<1>6. /\ m \in [1 .. n + 1 -> States] /\ o \in [1 .. n + 1 -> Seq(Answers)]
      /\ o[n + 1] = << >>
      /\ \A k \in 1 .. n : /\ m[k + 1] = Turn(room, m[k], s[k].code).mode
                           /\ o[k] = Turn(room, m[k], s[k].code).owed \o o[k + 1]
  BY <1>1, <1>2 DEF Way, n
<1>7. \A k \in 1 .. n + 2 : k # n + 2 => k \in 1 .. n + 1
  BY <1>2
<1>8. m1 \in [1 .. n + 2 -> States]
  BY <1>5, <1>6, <1>7
<1>9. o1 \in [1 .. n + 2 -> Seq(Answers)]
  <2>1. \A k \in 1 .. n + 1 : o[k] \o u.owed \in Seq(Answers)
    BY <1>5, <1>6
  <2>2. << >> \in Seq(Answers)
    OBVIOUS
  <2> QED
    BY <1>7, <2>1, <2>2
<1>10. /\ o1[n + 2] = << >> /\ m1[n + 2] = u.mode
       /\ \A k \in 1 .. n + 1 : m1[k] = m[k] /\ o1[k] = o[k] \o u.owed
  <2>1. /\ n + 2 \in 1 .. n + 2
        /\ \A k \in 1 .. n + 1 : k \in 1 .. n + 2 /\ k # n + 2
    BY <1>2
  <2> QED
    BY <2>1, Zenon
<1> HIDE DEF m1, o1
<1>11. \A k \in 1 .. n + 1 : /\ m1[k + 1] = Turn(room, m1[k], a[k].code).mode
                             /\ o1[k] = Turn(room, m1[k], a[k].code).owed \o o1[k + 1]
  <2> SUFFICES ASSUME NEW k \in 1 .. n + 1
               PROVE  /\ m1[k + 1] = Turn(room, m1[k], a[k].code).mode
                      /\ o1[k] = Turn(room, m1[k], a[k].code).owed \o o1[k + 1]
    OBVIOUS
  <2>1. CASE k = n + 1
    <3>1. m1[k] = to /\ a[k] = f /\ m1[k + 1] = u.mode /\ o1[k + 1] = << >>
          /\ o1[k] = << >> \o u.owed
      <4>1. k + 1 = n + 2
        BY <1>2, <2>1
      <4> QED
        BY <1>1, <1>3, <1>6, <1>10, <2>1, <4>1 DEF n, a
    <3>2. << >> \o u.owed = u.owed \o << >>
      BY <1>5
    <3> QED
      BY <3>1, <3>2 DEF u
  <2>2. CASE k \in 1 .. n
    <3> DEFINE t == Turn(room, m[k], s[k].code)
    <3>1. k + 1 \in 1 .. n + 1 /\ m[k] \in States
      BY <1>2, <1>6, <2>2
    <3>2. /\ m1[k] = m[k] /\ a[k] = s[k] /\ m1[k + 1] = t.mode
          /\ o1[k] = (t.owed \o o[k + 1]) \o u.owed /\ o1[k + 1] = o[k + 1] \o u.owed
      BY <1>3, <1>6, <1>10, <2>2, <3>1 DEF n, a
    <3>3. t.owed \in Seq(Answers) /\ o[k + 1] \in Seq(Answers)
      BY <1>6, <3>1, Takes
    <3> HIDE DEF t
    <3>4. \A x, y, z \in Seq(Answers) : (x \o y) \o z = x \o (y \o z)
      BY ConcatAssociative, SMTT(30)
    <3>5. (t.owed \o o[k + 1]) \o u.owed = t.owed \o (o[k + 1] \o u.owed)
      BY <1>5, <3>3, <3>4, Zenon
    <3>6. o1[k] = t.owed \o o1[k + 1]
      BY <3>2, <3>5, Zenon
    <3> QED
      BY <3>2, <3>6, Zenon DEF t
  <2>3. k = n + 1 \/ k \in 1 .. n
    BY <1>2
  <2> QED
    BY <2>1, <2>2, <2>3
<1>12. /\ Len(a) = n + 1 /\ Len(a) + 1 = n + 2 /\ On(a) = 1 .. n + 2
       /\ 1 \in 1 .. n + 1
  BY <1>2
<1>13. Way(room, a, m1, o1)
  BY <1>8, <1>9, <1>10, <1>11, <1>12 DEF Way
<1>14. m1[1] = from /\ o1[1] = ow \o u.owed /\ m1[Len(a) + 1] = u.mode
  BY <1>1, <1>10, <1>12
<1> QED
  BY <1>4, <1>13, <1>14 DEF Leads, a, u

LEMMA LeadsFrom ==
    ASSUME NEW room, NEW S, NEW s \in Seq(S), s # << >>, NEW from, NEW to, NEW ow,
           Leads(room, s, from, to, ow)
    PROVE  \E w \in Seq(Answers) :
              /\ Leads(room, Tail(s), Turn(room, from, Head(s).code).mode, to, w)
              /\ ow = Turn(room, from, Head(s).code).owed \o w
<1> DEFINE n == Len(s)
           r == Tail(s)
<1>1. PICK m, o : Way(room, s, m, o) /\ m[1] = from /\ m[n + 1] = to /\ o[1] = ow
  BY DEF Leads
<1>2. /\ n \in Nat \ {0} /\ Len(r) = n - 1 /\ Head(s) = s[1]
      /\ \A k \in 1 .. n - 1 : r[k] = s[k + 1]
  OBVIOUS
<1>3. On(s) = 1 .. n + 1 /\ On(r) = 1 .. n
  BY <1>2 DEF On
<1> HIDE DEF n, r
<1>4. /\ m \in [1 .. n + 1 -> States] /\ o \in [1 .. n + 1 -> Seq(Answers)]
      /\ o[n + 1] = << >>
      /\ \A k \in 1 .. n : /\ m[k + 1] = Turn(room, m[k], s[k].code).mode
                           /\ o[k] = Turn(room, m[k], s[k].code).owed \o o[k + 1]
  BY <1>1, <1>3 DEF Way, n
<1> DEFINE m1 == [k \in 1 .. n |-> m[k + 1]]
           o1 == [k \in 1 .. n |-> o[k + 1]]
<1>5. \A k \in 1 .. n : k + 1 \in 1 .. n + 1
  BY <1>2
<1>6. m1 \in [1 .. n -> States] /\ o1 \in [1 .. n -> Seq(Answers)]
  BY <1>4, <1>5
<1>7. \A k \in 1 .. n : m1[k] = m[k + 1] /\ o1[k] = o[k + 1]
  OBVIOUS
<1> HIDE DEF m1, o1
<1>8. \A k \in 1 .. n - 1 : k \in 1 .. n /\ k + 1 \in 1 .. n
  BY <1>2
<1>9. \A k \in 1 .. n - 1 : /\ m1[k + 1] = Turn(room, m1[k], r[k].code).mode
                            /\ o1[k] = Turn(room, m1[k], r[k].code).owed \o o1[k + 1]
  BY <1>2, <1>4, <1>7, <1>8, ZenonT(40)
<1>10. /\ 1 \in 1 .. n /\ n \in 1 .. n /\ Len(r) + 1 = n /\ 1 + 1 = 2
  BY <1>2
<1>11. Way(room, r, m1, o1)
  BY <1>3, <1>2, <1>4, <1>6, <1>7, <1>9, <1>10 DEF Way
<1>12. Leads(room, r, m1[1], to, o1[1])
  BY <1>1, <1>7, <1>10, <1>11 DEF Leads
<1>13. m1[1] = Turn(room, from, Head(s).code).mode
       /\ ow = Turn(room, from, Head(s).code).owed \o o1[1] /\ o1[1] \in Seq(Answers)
  BY <1>1, <1>2, <1>4, <1>6, <1>7, <1>10, ZenonT(40)
<1> QED
  BY <1>12, <1>13 DEF r

-----------------------------------------------------------------------------
(* The inductive invariant. *)

(* A connection no thread serves has no peer and no frames; an answer is   *)
(* there only while it is being made.                                      *)
Base ==
    \A c \in Conns :
        /\ thread[c] = "none" => ~open[c] /\ inbox[c] = << >>
        /\ open[c] => thread[c] \in {"reading", "handling", "answering"}
        /\ thread[c] # "answering" => answer[c] = "none"

(* The mode, and the answer, once the command being handled is done with.  *)
Handled(c) == Turn(Room(c), state[c], request[c].code)
From(c) == IF thread[c] = "handling" THEN Handled(c).mode ELSE state[c]
Due(c)  == IF thread[c] = "handling" THEN Handled(c).owed
           ELSE IF answer[c] = "none" THEN << >> ELSE <<answer[c]>>

Sync(c) ==
    open[c] =>
        \E w \in Seq(Answers) :
            /\ Leads(Room(c), inbox[c], From(c), view[c].mode, w)
            /\ view[c] = [mode |-> view[c].mode, owed |-> Due(c) \o w]

SessionInv == TypeOK /\ Base /\ \A c \in Conns : Sync(c)

-----------------------------------------------------------------------------
(* Nothing happens to the connection but that its client may leave. *)
LEMMA QuietSync ==
    ASSUME NEW c \in Conns, Sync(c), view'[c] = Observe(c), open'[c] => open[c],
           number'[c] = number[c], state'[c] = state[c], thread'[c] = thread[c],
           request'[c] = request[c], answer'[c] = answer[c], inbox'[c] = inbox[c],
           Len(inbox[c]) \in Nat
    PROVE  Sync(c)'
<1> SUFFICES ASSUME open'[c] PROVE Sync(c)'
  BY DEF Sync
<1>1. view'[c] = view[c]
  BY DEF Observe, Accepts, Closes, Sends, Receives
<1>2. From(c)' = From(c) /\ Due(c)' = Due(c) /\ Room(c)' = Room(c)
  BY DEF From, Due, Room, Handled, Turn
<1> QED
  BY <1>1, <1>2 DEF Sync

LEMMA AcceptSync ==
    ASSUME TypeOK, Base, NEW c \in Conns, IncomingConnection(c), view'[c] = Observe(c)
    PROVE  Sync(c)'
<1> SUFFICES ASSUME open'[c] PROVE Sync(c)'
  BY DEF Sync
<1>1. thread[c] = "none" /\ ~open[c] /\ inbox[c] = << >> /\ answer[c] = "none"
  BY DEF IncomingConnection, Base
<1>2. thread'[c] = "reading" /\ state'[c] = "begin" /\ inbox' = inbox /\ answer' = answer
  BY DEF IncomingConnection, TypeOK
<1>3. view'[c] = [mode |-> "begin", owed |-> << >>]
  BY <1>1 DEF Observe, Accepts, Closes, Sends, Receives
<1>4. From(c)' = "begin" /\ Due(c)' = << >>
  BY <1>1, <1>2 DEF From, Due
<1>5. Leads(Room(c)', << >>, "begin", "begin", << >>)
  BY LeadsNowhere DEF States
<1>6. << >> \in Seq(Answers) /\ << >> = << >> \o << >>
  OBVIOUS
<1>7. view'[c].mode = "begin" /\ inbox'[c] = << >>
  BY <1>1, <1>2, <1>3
<1>8. /\ Leads(Room(c)', inbox'[c], From(c)', view'[c].mode, << >>)
      /\ view'[c] = [mode |-> view'[c].mode, owed |-> Due(c)' \o << >>]
  BY <1>3, <1>4, <1>5, <1>6, <1>7
<1> QED
  BY <1>6, <1>8 DEF Sync

LEMMA DueType ==
    ASSUME TypeOK, NEW c \in Conns
    PROVE  Due(c) \in Seq(Answers) /\ From(c) \in States
<1>1. state[c] \in States /\ answer[c] \in Answers \cup {"none"}
  BY DEF TypeOK, Answers
<1>2. Handled(c).owed \in Seq(Answers) /\ Handled(c).mode \in States
  BY <1>1, Takes DEF Handled
<1>3. answer[c] # "none" => <<answer[c]>> \in Seq(Answers)
  BY <1>1
<1>4. << >> \in Seq(Answers)
  OBVIOUS
<1> QED
  BY <1>1, <1>2, <1>3, <1>4 DEF Due, From

LEMMA SendSync ==
    ASSUME TypeOK, NEW c \in Conns, NEW f \in Frame, Send(c, f), Sync(c), view'[c] = Observe(c)
    PROVE  Sync(c)'
<1>1. /\ open[c] /\ open' = open /\ inbox[c] \in Seq(Frame)
      /\ inbox'[c] = Append(inbox[c], f)
      /\ UNCHANGED <<number, state, thread, request, answer>>
  BY DEF Send, TypeOK, connVars
<1>2. Len(inbox'[c]) = Len(inbox[c]) + 1 /\ inbox'[c][Len(inbox'[c])] = f
      /\ Len(inbox[c]) \in Nat
  BY <1>1
<1> DEFINE room == Room(c)
           to   == view[c].mode
           u    == Turn(room, to, f.code)
<1>3. PICK w \in Seq(Answers) :
          /\ Leads(room, inbox[c], From(c), to, w)
          /\ view[c] = [mode |-> to, owed |-> Due(c) \o w]
  BY <1>1 DEF Sync
<1>4. /\ to \in States /\ w \in Seq(Answers)
      /\ Leads(room, Append(inbox[c], f), From(c), u.mode, w \o u.owed)
  BY <1>1, <1>3, LeadsOn
<1>5. Due(c) \in Seq(Answers) /\ u.mode \in States /\ u.owed \in Seq(Answers)
  BY <1>4, DueType, Takes
<1>6. view'[c] = Take(room, view[c], f.code)
  BY <1>1, <1>2 DEF Observe, Accepts, Closes, Sends, Receives
<1> HIDE DEF room, to
<1>7. Due(c) \o w \in Seq(Answers)
  BY <1>4, <1>5
<1>8. Take(room, [mode |-> to, owed |-> Due(c) \o w], f.code)
         = [mode |-> u.mode, owed |-> (Due(c) \o w) \o u.owed]
  BY <1>4, <1>7, Takes
<1> HIDE DEF u
<1>c. \A x, y, z \in Seq(Answers) :
          (x \o y) \o z = x \o (y \o z) /\ y \o z \in Seq(Answers)
  BY ConcatAssociative, ConcatProperties
<1>9. (Due(c) \o w) \o u.owed = Due(c) \o (w \o u.owed) /\ w \o u.owed \in Seq(Answers)
  BY <1>4, <1>5, <1>c, Zenon
<1>10. view'[c] = [mode |-> u.mode, owed |-> Due(c) \o (w \o u.owed)]
  BY <1>3, <1>6, <1>8, <1>9
<1>11. view'[c].mode = u.mode
  BY <1>10
<1>12. From(c)' = From(c) /\ Due(c)' = Due(c) /\ Room(c)' = room
  BY <1>1 DEF From, Due, Room, Handled, Turn, room
<1> QED
  BY <1>1, <1>4, <1>9, <1>10, <1>11, <1>12 DEF Sync

LEMMA ReadSync ==
    ASSUME TypeOK, Base, NEW c \in Conns, ReadFrame(c), Sync(c), view'[c] = Observe(c)
    PROVE  Sync(c)'
<1> SUFFICES ASSUME open'[c] PROVE Sync(c)'
  BY DEF Sync
<1>1. /\ open[c] /\ inbox[c] \in Seq(Frame) /\ inbox[c] # << >>
      /\ inbox'[c] = Tail(inbox[c]) /\ request'[c] = Head(inbox[c])
      /\ thread[c] = "reading" /\ thread'[c] = "handling" /\ answer[c] = "none"
      /\ UNCHANGED <<number, state, answer, open>>
  BY DEF ReadFrame, TypeOK, Base
<1>2. Len(inbox[c]) \in Nat /\ Len(inbox'[c]) = Len(inbox[c]) - 1
  BY <1>1
<1>3. view'[c] = view[c]
  BY <1>1, <1>2 DEF Observe, Accepts, Closes, Sends, Receives
<1> DEFINE room == Room(c)
           to   == view[c].mode
           u    == Turn(room, state[c], Head(inbox[c]).code)
<1>4. From(c) = state[c] /\ Due(c) = << >>
  BY <1>1 DEF From, Due
<1>5. PICK w \in Seq(Answers) :
          /\ Leads(room, inbox[c], state[c], to, w)
          /\ view[c] = [mode |-> to, owed |-> << >> \o w]
  BY <1>1, <1>4 DEF Sync
<1>6. << >> \o w = w
  OBVIOUS
<1> HIDE DEF room, to
<1>7. PICK v \in Seq(Answers) : Leads(room, Tail(inbox[c]), u.mode, to, v) /\ w = u.owed \o v
  <2>1. inbox[c] \in Seq(Frame) /\ inbox[c] # << >>
    BY <1>1
  <2>2. Leads(room, inbox[c], state[c], to, w)
    BY <1>5
  <2> DEFINE frames == inbox[c]
             from   == state[c]
  <2>3. /\ frames \in Seq(Frame) /\ frames # << >> /\ Leads(room, frames, from, to, w)
    BY <2>1, <2>2
  <2> HIDE DEF frames, from
  <2>4. \E v \in Seq(Answers) :
           /\ Leads(room, Tail(frames), Turn(room, from, Head(frames).code).mode, to, v)
           /\ w = Turn(room, from, Head(frames).code).owed \o v
    BY <2>3, LeadsFrom, SMTT(30)
  <2> QED
    BY <2>4, Zenon DEF frames, from
<1> USE DEF room, to
<1>8. From(c)' = u.mode /\ Due(c)' = u.owed /\ Room(c)' = room
  BY <1>1 DEF From, Due, Room, Handled, Turn
<1> HIDE DEF room, u
<1> QED
  BY <1>1, <1>3, <1>5, <1>6, <1>7, <1>8 DEF Sync

-----------------------------------------------------------------------------
(* A case of one of the process...State functions is a row of the table. *)
LEMMA CaseSync ==
    ASSUME TypeOK, Base, NEW c \in Conns, NEW here, NEW code, NEW there, NEW reply,
           Handle(c, here, code, there, reply),
           reply # "none" => <<here, code, there, <<reply>> >> \in Protocol(Room(c)),
           reply = "none" => <<here, code, there, << >> >> \in Protocol(Room(c)),
           Sync(c), view'[c] = Observe(c)
    PROVE  Sync(c)'
<1> SUFFICES ASSUME open'[c] PROVE Sync(c)'
  BY DEF Sync
<1>1. /\ open[c] /\ thread[c] = "handling" /\ thread'[c] = "answering"
      /\ state[c] = here /\ request[c].code = code
      /\ state'[c] = there /\ answer'[c] = reply
      /\ UNCHANGED <<number, request, inbox, open>>
  BY DEF Handle, TypeOK, clientVars
<1>2. Len(inbox[c]) \in Nat
  BY DEF TypeOK
<1>3. view'[c] = view[c]
  BY <1>1, <1>2 DEF Observe, Accepts, Closes, Sends, Receives
<1> DEFINE answers == IF reply = "none" THEN << >> ELSE <<reply>>
           r == <<here, code, there, answers>>
<1>4. r \in Protocol(Room(c))
  OBVIOUS
<1> HIDE DEF answers
<1>5. r[1] = here /\ r[2] = code /\ r[3] = there /\ r[4] = answers
  OBVIOUS
<1> HIDE DEF r
<1>6. Handled(c) = [mode |-> there, owed |-> answers]
  BY <1>1, <1>4, <1>5, RowTaken DEF Handled
<1>7. From(c) = there /\ Due(c) = answers
  BY <1>1, <1>6 DEF From, Due
<1>8. From(c)' = there /\ Due(c)' = answers /\ Room(c)' = Room(c)
  BY <1>1 DEF From, Due, Room, answers
<1> QED
  BY <1>1, <1>3, <1>7, <1>8 DEF Sync

LEMMA ProcessSync ==
    ASSUME TypeOK, Base, NEW c \in Conns, Process(c), Sync(c), view'[c] = Observe(c)
    PROVE  Sync(c)'
<1> DEFINE P == Protocol(Room(c))
<1>1. /\ <<"begin", "DISCONNECT", "disconnected", << >> >> \in P
      /\ Room(c) => <<"begin", "HELLO", "connected", <<"ACCEPT">> >> \in P
      /\ ~Room(c) => <<"begin", "HELLO", "disconnected", <<"REJECT">> >> \in P
  BY DEF Protocol
<1>2. /\ <<"connected", "SET_REALTIME_MODE", "realtime", <<"MODE_SUCCESSFULL">> >> \in P
      /\ <<"connected", "SET_HISTORIAN_MODE", "historian", <<"MODE_SUCCESSFULL">> >> \in P
      /\ <<"connected", "DISCONNECT", "disconnected", <<"ACCEPT">> >> \in P
  BY DEF Protocol
<1>3. /\ <<"realtime", "GET_REALTIME_VARIABLES", "sending", << >> >> \in P
      /\ <<"realtime", "RESET_MODE", "connected", <<"ACCEPT">> >> \in P
      /\ <<"sending", "STOP_REALTIME_SENDING", "realtime", <<"ACCEPT">> >> \in P
  BY DEF Protocol
<1>4. /\ <<"historian", "GET_HISTORIAN_VARIABLES", "historian",
           <<"HISTORIAN_VARIABLES_RESPONSE">> >> \in P
      /\ <<"historian", "GET_HISTORIAN_ALARMS", "historian",
           <<"HISTORIAN_ALARMS_RESPONSE">> >> \in P
      /\ <<"historian", "RESET_MODE", "connected", <<"ACCEPT">> >> \in P
  BY DEF Protocol
<1>r. number[c] \in Int /\ MAX_CONNECTIONS \in Int
  BY AHPServerAssumption DEF TypeOK
<1> HIDE DEF P
<1>5. CASE ProcessBeginState(c)
  <2>1. CASE Room(c) /\ Handle(c, "begin", "HELLO", "connected", "ACCEPT")
    BY <1>1, <2>1, CaseSync DEF P
  <2>2. CASE ~Room(c) /\ Handle(c, "begin", "HELLO", "disconnected", "REJECT")
    BY <1>1, <2>2, CaseSync DEF P
  <2>3. CASE Handle(c, "begin", "DISCONNECT", "disconnected", "none")
    BY <1>1, <2>3, CaseSync DEF P
  <2> QED
    BY <1>5, <1>r, <2>1, <2>2, <2>3 DEF ProcessBeginState, Room
<1>6. CASE ProcessConnectedState(c)
  <2>1. CASE Handle(c, "connected", "SET_REALTIME_MODE", "realtime", "MODE_SUCCESSFULL")
    BY <1>2, <2>1, CaseSync DEF P
  <2>2. CASE Handle(c, "connected", "SET_HISTORIAN_MODE", "historian", "MODE_SUCCESSFULL")
    BY <1>2, <2>2, CaseSync DEF P
  <2>3. CASE Handle(c, "connected", "DISCONNECT", "disconnected", "ACCEPT")
    BY <1>2, <2>3, CaseSync DEF P
  <2> QED
    BY <1>6, <2>1, <2>2, <2>3 DEF ProcessConnectedState
<1>7. CASE ProcessRealtimeState(c)
  <2>1. CASE Handle(c, "realtime", "GET_REALTIME_VARIABLES", "sending", "none")
    BY <1>3, <2>1, CaseSync DEF P
  <2>2. CASE Handle(c, "realtime", "RESET_MODE", "connected", "ACCEPT")
    BY <1>3, <2>2, CaseSync DEF P
  <2> QED
    BY <1>7, <2>1, <2>2 DEF ProcessRealtimeState
<1>8. CASE ProcessRealtimeSendingState(c)
  <2>1. Handle(c, "sending", "STOP_REALTIME_SENDING", "realtime", "ACCEPT")
    BY <1>8 DEF ProcessRealtimeSendingState
  <2> QED
    BY <1>3, <2>1, CaseSync DEF P
<1>9. CASE ProcessHistorianState(c)
  <2>1. CASE Handle(c, "historian", "GET_HISTORIAN_VARIABLES", "historian",
                    "HISTORIAN_VARIABLES_RESPONSE")
    BY <1>4, <2>1, CaseSync DEF P
  <2>2. CASE Handle(c, "historian", "GET_HISTORIAN_ALARMS", "historian",
                    "HISTORIAN_ALARMS_RESPONSE")
    BY <1>4, <2>2, CaseSync DEF P
  <2>3. CASE Handle(c, "historian", "RESET_MODE", "connected", "ACCEPT")
    BY <1>4, <2>3, CaseSync DEF P
  <2> QED
    BY <1>9, <2>1, <2>2, <2>3 DEF ProcessHistorianState
<1> QED
  BY <1>5, <1>6, <1>7, <1>8, <1>9 DEF Process

LEMMA IgnoreSync ==
    ASSUME TypeOK, Base, NEW c \in Conns, Ignore(c), Sync(c), view'[c] = Observe(c)
    PROVE  Sync(c)'
<1> SUFFICES ASSUME open'[c] PROVE Sync(c)'
  BY DEF Sync
<1>1. /\ open[c] /\ thread[c] = "handling" /\ thread'[c] = "reading" /\ answer[c] = "none"
      /\ state[c] \in States /\ request[c].code \notin Cases[state[c]]
      /\ UNCHANGED <<number, state, answer, inbox, open>>
  BY DEF Ignore, TypeOK, Base, clientVars
<1>2. Len(inbox[c]) \in Nat
  BY DEF TypeOK
<1>3. view'[c] = view[c]
  BY <1>1, <1>2 DEF Observe, Accepts, Closes, Sends, Receives
<1>4. Handled(c) = [mode |-> state[c], owed |-> << >>]
  BY <1>1, NoRow DEF Handled
<1>5. From(c) = state[c] /\ Due(c) = << >>
  BY <1>1, <1>4 DEF From, Due
<1>6. From(c)' = state[c] /\ Due(c)' = << >> /\ Room(c)' = Room(c)
  BY <1>1 DEF From, Due, Room
<1> QED
  BY <1>1, <1>3, <1>5, <1>6 DEF Sync

LEMMA AnswerSync ==
    ASSUME TypeOK, Base, NEW c \in Conns, Answer(c), Sync(c), view'[c] = Observe(c)
    PROVE  Sync(c)'
<1> SUFFICES ASSUME open'[c] PROVE Sync(c)'
  BY DEF Sync
<1>1. /\ open[c] /\ state[c] # "disconnected" /\ thread[c] = "answering"
      /\ thread'[c] = "reading" /\ answer'[c] = "none"
      /\ UNCHANGED <<number, state, inbox>>
  BY DEF Answer, TypeOK
<1>2. Len(inbox[c]) \in Nat
  BY DEF TypeOK
<1>3. From(c) = state[c] /\ From(c)' = state[c] /\ Due(c)' = << >> /\ Room(c)' = Room(c)
  BY <1>1 DEF From, Due, Room
<1>4. PICK w \in Seq(Answers) :
          /\ Leads(Room(c), inbox[c], state[c], view[c].mode, w)
          /\ view[c] = [mode |-> view[c].mode, owed |-> Due(c) \o w]
  BY <1>1, <1>3 DEF Sync
<1>5. << >> \o w = w
  OBVIOUS
<1>6. view'[c] = [mode |-> view[c].mode, owed |-> w]
  <2>1. CASE answer[c] = "none"
    <3>1. Due(c) = << >>
      BY <1>1, <2>1 DEF Due
    <3>2. view'[c] = view[c]
      BY <1>1, <1>2, <2>1 DEF Observe, Accepts, Closes, Sends, Receives
    <3> QED
      BY <1>4, <1>5, <3>1, <3>2
  <2>2. CASE answer[c] # "none"
    <3>1. Due(c) = <<answer[c]>> /\ answer[c] \in Answers
      BY <1>1, <2>2 DEF Due, TypeOK, Answers
    <3>2. <<answer[c]>> \o w # << >> /\ Tail(<<answer[c]>> \o w) = w
      BY <3>1
    <3>3. view'[c] = [view[c] EXCEPT !.owed = IF @ = << >> THEN @ ELSE Tail(@)]
      BY <1>1, <1>2, <2>2 DEF Observe, Accepts, Closes, Sends, Receives
    <3> DEFINE q == <<answer[c]>> \o w
    <3>4. view[c] = [mode |-> view[c].mode, owed |-> q] /\ q # << >> /\ Tail(q) = w
      BY <1>4, <3>1, <3>2
    <3> HIDE DEF q
    <3> QED
      BY <3>3, <3>4
  <2> QED
    BY <2>1, <2>2
<1> QED
  BY <1>1, <1>3, <1>4, <1>5, <1>6 DEF Sync

-----------------------------------------------------------------------------
(* What is the same for every connection but c. *)
Own(c) == <<number[c], state[c], thread[c], request[c], answer[c], inbox[c], open[c]>>
Serves(c) == ReadFrame(c) \/ LeaveLoop(c) \/ Process(c) \/ Ignore(c) \/ Answer(c)
OthersQuiet(c) == \A d \in Conns \ {c} : Own(d)' = Own(d)

LEMMA ThreadLocal ==
    ASSUME TypeOK, NEW c \in Conns, Serves(c) \/ Client(c) \/ IncomingConnection(c)
    PROVE  OthersQuiet(c)
<1> USE DEF TypeOK, OthersQuiet, Own, connVars, clientVars
<1>1. CASE ReadFrame(c) \/ LeaveLoop(c) \/ Ignore(c) \/ Answer(c)
  BY <1>1 DEF ReadFrame, LeaveLoop, Ignore, Answer
<1>2. ASSUME NEW here, NEW code, NEW there, NEW reply, Handle(c, here, code, there, reply)
      PROVE  OthersQuiet(c)
  BY <1>2 DEF Handle
<1>3. CASE Process(c)
  <2>1. \E here, code, there, reply : Handle(c, here, code, there, reply)
    BY <1>3, Zenon DEF Process, ProcessBeginState, ProcessConnectedState, ProcessRealtimeState,
       ProcessRealtimeSendingState, ProcessHistorianState
  <2> QED
    BY <1>2, <2>1
<1>4. CASE Client(c)
  <2>1. CASE SendPart(c) \/ HangUp(c)
    BY <2>1 DEF SendPart, HangUp
  <2>2. ASSUME NEW f, Send(c, f) PROVE OthersQuiet(c)
    BY <2>2 DEF Send
  <2> QED
    BY <1>4, <2>1, <2>2 DEF Client
<1>5. CASE IncomingConnection(c)
  BY <1>5 DEF IncomingConnection
<1> QED
  BY <1>1, <1>3, <1>4, <1>5 DEF Serves

LEMMA BaseOf ==
    ASSUME TypeOK, Base, NEW c \in Conns, OthersQuiet(c),
           /\ thread'[c] # "none"
           /\ open'[c] => thread'[c] \in {"reading", "handling", "answering"}
           /\ thread'[c] # "answering" => answer'[c] = "none"
    PROVE  Base'
<1> SUFFICES ASSUME NEW d \in Conns
             PROVE  /\ thread'[d] = "none" => ~open'[d] /\ inbox'[d] = << >>
                    /\ open'[d] => thread'[d] \in {"reading", "handling", "answering"}
                    /\ thread'[d] # "answering" => answer'[d] = "none"
  BY DEF Base
<1>1. CASE d = c
  BY <1>1
<1>2. CASE d # c
  BY <1>2 DEF Base, OthersQuiet, Own
<1> QED
  BY <1>1, <1>2

LEMMA StepBase == TypeOK /\ Base /\ [Next]_vars => Base'
<1> SUFFICES ASSUME TypeOK, Base, [Next]_vars PROVE Base'
  OBVIOUS
<1> USE DEF connVars, subVars, clientVars, mainVars
<1>1. ASSUME NEW c \in Conns, IncomingConnection(c) PROVE Base'
  <2>1. /\ thread'[c] \in {"reading", "finished"} /\ (open'[c] => thread'[c] = "reading")
        /\ answer'[c] = answer[c] /\ answer[c] = "none"
    BY <1>1 DEF IncomingConnection, TypeOK, Base
  <2> QED
    BY <1>1, <2>1, ThreadLocal, BaseOf
<1>2. ASSUME NEW c \in Conns, Serves(c) PROVE Base'
  <2>1. CASE ReadFrame(c)
    <3>1. thread'[c] = "handling" /\ answer'[c] = "none"
      BY <2>1 DEF ReadFrame, TypeOK, Base
    <3> QED
      BY <1>2, <3>1, ThreadLocal, BaseOf
  <2>2. CASE LeaveLoop(c)
    <3>1. thread'[c] = "finished" /\ answer'[c] = "none" /\ ~open'[c]
      BY <2>2 DEF LeaveLoop, TypeOK, Base
    <3> QED
      BY <1>2, <3>1, ThreadLocal, BaseOf
  <2>3. CASE Process(c)
    <3>1. \E here, code, there, reply : Handle(c, here, code, there, reply)
      BY <2>3, Zenon DEF Process, ProcessBeginState, ProcessConnectedState,
         ProcessRealtimeState, ProcessRealtimeSendingState, ProcessHistorianState
    <3>2. thread'[c] = "answering"
      BY <3>1 DEF Handle, TypeOK
    <3> QED
      BY <1>2, <3>2, ThreadLocal, BaseOf
  <2>4. CASE Ignore(c)
    <3>1. thread'[c] = "reading" /\ answer'[c] = "none"
      BY <2>4 DEF Ignore, TypeOK, Base
    <3> QED
      BY <1>2, <3>1, ThreadLocal, BaseOf
  <2>5. CASE Answer(c)
    <3>1. /\ thread'[c] \in {"reading", "finished"} /\ answer'[c] = "none"
          /\ open'[c] => thread'[c] = "reading"
      BY <2>5 DEF Answer, TypeOK
    <3> QED
      BY <1>2, <3>1, ThreadLocal, BaseOf
  <2> QED
    BY <1>2, <2>1, <2>2, <2>3, <2>4, <2>5 DEF Serves
<1>3. ASSUME NEW c \in Conns, Client(c) PROVE Base'
  <2>1. /\ open[c] /\ thread' = thread /\ answer' = answer
    BY <1>3, Zenon DEF Client, Send, SendPart, HangUp
  <2>2. thread[c] \in {"reading", "handling", "answering"}
        /\ (thread[c] # "answering" => answer[c] = "none")
    BY <2>1 DEF Base
  <2> QED
    BY <1>3, <2>1, <2>2, ThreadLocal, BaseOf
<1>4. CASE UNCHANGED vars \/ (\E c \in Conns : Enter(c)) \/ (\E v \in Variables : EmitSample(v))
  <2>1. UNCHANGED <<thread, open, inbox, answer>>
    BY <1>4 DEF vars, Enter, EmitSample
  <2> QED
    BY <2>1 DEF Base
<1>5. CASE Write \/ Crash
  <2>1. UNCHANGED <<thread, inbox, answer>> /\ \A d \in Conns : open'[d] => open[d]
    BY <1>5 DEF Write, Crash
  <2> QED
    BY <2>1 DEF Base
<1>6. ASSUME NEW c \in Conns, Delete(c) PROVE Base'
  <2>1. /\ thread[c] = "finished" /\ thread' = [thread EXCEPT ![c] = "deleted"]
        /\ UNCHANGED <<open, inbox, answer>>
    BY <1>6 DEF Delete
  <2>2. /\ thread'[c] = "deleted" /\ \A d \in Conns : d # c => thread'[d] = thread[d]
    BY <2>1 DEF TypeOK
  <2> QED
    BY <2>1, <2>2 DEF Base
<1> QED
  BY <1>1, <1>2, <1>3, <1>4, <1>5, <1>6 DEF Next, Main, Thread, Serves, Throws, Collide

LEMMA StepSync ==
    ASSUME TypeOK, Base, Next, NEW c \in Conns, Sync(c), view'[c] = Observe(c)
    PROVE  Sync(c)'
<1> USE DEF connVars, subVars, clientVars, mainVars
<1>l. Len(inbox[c]) \in Nat
  BY DEF TypeOK
<1>1. ASSUME NEW d \in Conns, Serves(d) \/ Client(d) \/ IncomingConnection(d), d # c
      PROVE  Sync(c)'
  <2>1. Own(c)' = Own(c)
    BY <1>1, ThreadLocal DEF OthersQuiet
  <2> QED
    BY <1>l, <2>1, QuietSync DEF Own
<1>2. CASE IncomingConnection(c)
  BY <1>2, AcceptSync
<1>3. CASE ReadFrame(c)
  BY <1>3, ReadSync
<1>4. CASE Process(c)
  BY <1>4, ProcessSync
<1>5. CASE Ignore(c)
  BY <1>5, IgnoreSync
<1>6. CASE Answer(c)
  BY <1>6, AnswerSync
<1>7. CASE LeaveLoop(c)
  BY <1>7 DEF LeaveLoop, Sync
<1>8. ASSUME NEW f \in Frames[c], Send(c, f) PROVE Sync(c)'
  BY <1>8, SendSync, AHPServerAssumption
<1>9. CASE SendPart(c) \/ HangUp(c)
  <2>1. /\ UNCHANGED <<number, state, thread, request, answer, inbox>>
        /\ open'[c] => open[c]
    BY <1>9 DEF SendPart, HangUp
  <2> QED
    BY <1>l, <2>1, QuietSync
<1>10. CASE (\E d \in Conns : Enter(d)) \/ (\E v \in Variables : EmitSample(v)) \/ Write \/ Crash
  <2>1. /\ UNCHANGED <<number, state, thread, request, answer, inbox>>
        /\ open'[c] => open[c]
    BY <1>10 DEF Enter, EmitSample, Write, Crash
  <2> QED
    BY <1>l, <2>1, QuietSync
<1>11. ASSUME NEW d \in Conns, Delete(d) PROVE Sync(c)'
  <2>1. /\ thread[d] = "finished" /\ thread' = [thread EXCEPT ![d] = "deleted"]
        /\ UNCHANGED <<number, state, request, answer, inbox, open>>
    BY <1>11 DEF Delete
  <2>2. CASE open[c]
    <3>1. thread'[c] = thread[c]
      BY <2>1, <2>2 DEF Base
    <3> QED
      BY <1>l, <2>1, <3>1, QuietSync
  <2>3. CASE ~open[c]
    BY <2>1, <2>3 DEF Sync
  <2> QED
    BY <2>2, <2>3
<1> QED
  BY <1>1, <1>2, <1>3, <1>4, <1>5, <1>6, <1>7, <1>8, <1>9, <1>10, <1>11
     DEF Next, Main, Thread, Serves, Throws, Collide, Client

-----------------------------------------------------------------------------
LEMMA InitSession == SessionInit => SessionInv
<1> SUFFICES ASSUME SessionInit PROVE SessionInv
  OBVIOUS
<1>1. TypeOK
  BY InitInv DEF SessionInit
<1>2. \A c \in Conns : /\ thread[c] = "none" /\ ~open[c]
                       /\ inbox[c] = << >> /\ answer[c] = "none"
  BY DEF SessionInit, Init
<1> QED
  BY <1>1, <1>2 DEF SessionInv, Base, Sync

LEMMA StepSession == SessionInv /\ [SessionNext]_<<vars, view>> => SessionInv'
<1> SUFFICES ASSUME SessionInv, [SessionNext]_<<vars, view>> PROVE SessionInv'
  OBVIOUS
<1>1. [Next]_vars
  BY DEF SessionNext
<1>2. TypeOK' /\ Base'
  BY <1>1, StepType, StepBase DEF SessionInv
<1>3. CASE SessionNext
  <2>1. \A c \in Conns : view'[c] = Observe(c)
    BY <1>3 DEF SessionNext
  <2>2. \A c \in Conns : Sync(c)'
    BY <1>3, <2>1, StepSync DEF SessionInv, SessionNext
  <2> QED
    BY <1>2, <2>2 DEF SessionInv
<1>4. CASE UNCHANGED <<vars, view>>
  <2>1. ASSUME NEW c \in Conns PROVE Sync(c)'
    <3>1. UNCHANGED <<number, state, thread, request, answer, inbox, open, view>>
      BY <1>4 DEF vars, connVars, clientVars
    <3> QED
      BY <3>1 DEF SessionInv, Sync, From, Due, Room, Handled, Turn
  <2> QED
    BY <1>2, <2>1 DEF SessionInv
<1> QED
  BY <1>3, <1>4

(* However far ahead a client sends, and however the threads of the others *)
(* are interleaved, what its thread writes is the answer it waits for next *)
(* by the table of connection.cpp.                                         *)
THEOREM AnswersAlwaysInOrder == SessionSpec => []AnswersInOrder
<1>1. SessionInv => AnswersInOrder
  <2> SUFFICES ASSUME SessionInv, NEW c \in Conns,
                      open[c], thread[c] = "answering", answer[c] # "none"
               PROVE  view[c].owed # << >> /\ Head(view[c].owed) = answer[c]
    BY DEF AnswersInOrder
  <2>1. Due(c) = <<answer[c]>> /\ answer[c] \in Answers
    BY DEF Due, SessionInv, TypeOK, Answers
  <2>2. PICK w \in Seq(Answers) : view[c] = [mode |-> view[c].mode, owed |-> Due(c) \o w]
    BY DEF SessionInv, Sync
  <2>3. Due(c) \o w # << >> /\ Head(Due(c) \o w) = answer[c]
    BY <2>1
  <2>4. view[c].owed = Due(c) \o w
    BY <2>2
  <2> QED
    BY <2>3, <2>4
<1> QED
  BY <1>1, InitSession, StepSession, PTL DEF SessionSpec

(* Once a thread has handled all its client has sent, the two agree on the *)
(* mode of the session and no answer is missing or left over.              *)
THEOREM AlwaysInStep == SessionSpec => []InStep
<1>1. SessionInv => InStep
  <2> SUFFICES ASSUME SessionInv, NEW c \in Conns,
                      open[c], thread[c] = "reading", inbox[c] = << >>
               PROVE  view[c] = [mode |-> state[c], owed |-> << >>]
    BY DEF InStep
  <2>1. From(c) = state[c] /\ Due(c) = << >> /\ state[c] \in States
    BY DEF From, Due, SessionInv, Base, TypeOK
  <2>2. PICK w \in Seq(Answers) :
            /\ Leads(Room(c), << >>, state[c], view[c].mode, w)
            /\ view[c] = [mode |-> view[c].mode, owed |-> << >> \o w]
    BY <2>1 DEF SessionInv, Sync
  <2>3. view[c].mode = state[c] /\ w = << >>
    <3> DEFINE room == Room(c)
               from == state[c]
               to   == view[c].mode
    <3>1. from \in States /\ Leads(room, << >>, from, to, w)
      BY <2>1, <2>2
    <3> HIDE DEF room, from, to
    <3>2. to = from /\ w = << >>
      BY <3>1, LeadsNowhere
    <3> QED
      BY <3>2 DEF from, to
  <2>4. << >> \o << >> = << >>
    OBVIOUS
  <2> QED
    BY <2>2, <2>3, <2>4
<1> QED
  BY <1>1, InitSession, StepSession, PTL DEF SessionSpec
=============================================================================
