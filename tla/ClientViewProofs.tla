--------------------------- MODULE ClientViewProofs ---------------------------
(***************************************************************************)
(* The client for any number of connections, commands, queries and broken  *)
(* connections, whatever commands get lost: the slots that follow m_client *)
(* only run while the AHPClient it points to exists, a historian session   *)
(* never has two frames under way, and every result that is shown belongs  *)
(* to the query it is shown for, in the order of the queries.  And as long *)
(* as nothing of what AHPClient cannot handle has happened, the window and *)
(* the session agree and no two threads read the socket.                   *)
(***************************************************************************)
EXTENDS ClientView, TLAPS

Code ==
    Answers \cup {"none", "HELLO", "SET_HISTORIAN_MODE", "SET_REALTIME_MODE", "RESET_MODE",
                  "DISCONNECT", "GET_HISTORIAN_VARIABLES", "GET_HISTORIAN_ALARMS",
                  "GET_REALTIME_VARIABLES", "STOP_REALTIME_SENDING",
                  "REALTIME_VARIABLES_RESPONSE"}
Query  == [n : Nat, ranges : Nat]
Frame  == [code : Code, query : Query]
Signal == [signal : {"refused", "connected", "result"}, query : Query]

Types ==
    /\ requests \in Seq(Frame) /\ answers \in Seq(Frame) /\ events \in Seq(Signal)
    /\ request \in Query /\ draft \in Nat /\ asked \in Seq(Nat)

-----------------------------------------------------------------------------
(* One command in the table of the protocol. *)

LEMMA TakesOne ==
    ASSUME NEW room, NEW m, NEW c
    PROVE  /\ \/ Take(room, [mode |-> m, owed |-> << >>], c).owed = << >>
              \/ \E a \in Answers : Take(room, [mode |-> m, owed |-> << >>], c).owed = <<a>>
           /\ Take(room, [mode |-> m, owed |-> << >>], c).mode = "sending"
                 => m = "sending" \/ c = "GET_REALTIME_VARIABLES"
<1> DEFINE rows == {r \in Protocol(room) : r[1] = m /\ r[2] = c}
           s == Take(room, [mode |-> m, owed |-> << >>], c)
<1>1. CASE rows = {}
  <2>1. s = [mode |-> m, owed |-> << >>]
    BY <1>1 DEF Take
  <2> QED
    BY <2>1
<1>2. CASE rows # {}
  <2>1. PICK r \in rows : s = [mode |-> r[3], owed |-> << >> \o r[4]]
    BY <1>2 DEF Take
  <2>2. /\ r[4] = << >> \/ \E a \in Answers : r[4] = <<a>>
        /\ r[3] = "sending" => r[2] = "GET_REALTIME_VARIABLES"
    <3>1. r \in Protocol(room)
      OBVIOUS
    <3> HIDE DEF rows, s
    <3>2. r[3] = "sending" => r[2] = "GET_REALTIME_VARIABLES"
      BY <3>1 DEF Protocol
    <3>3. \/ r[4] = << >> \/ r[4] = <<"ACCEPT">> \/ r[4] = <<"REJECT">>
          \/ r[4] = <<"MODE_SUCCESSFULL">> \/ r[4] = <<"HISTORIAN_VARIABLES_RESPONSE">>
          \/ r[4] = <<"HISTORIAN_ALARMS_RESPONSE">>
      BY <3>1 DEF Protocol
    <3>5. r[4] = << >> \/ \E a \in Answers : r[4] = <<a>>
      BY <3>3 DEF Answers
    <3> QED
      BY <3>2, <3>5, Zenon
  <2>3. << >> \o r[4] = r[4]
    <3>1. CASE r[4] = << >>
      BY <3>1
    <3>2. ASSUME NEW a \in Answers, r[4] = <<a>> PROVE << >> \o r[4] = r[4]
      BY <3>2
    <3> QED
      BY <2>2, <3>1, <3>2
  <2> QED
    BY <2>1, <2>2, <2>3
<1> QED
  BY <1>1, <1>2

-----------------------------------------------------------------------------
(* Reading one frame. *)

LEMMA FrameRead ==
    ASSUME Types, NEW f \in Readable, ReadFrame(f)
    PROVE  /\ f \in Frame /\ answers' \in Seq(Frame)
           /\ link' # link => link # "up" /\ link' = "unconnected"
           /\ ~cut => \/ Len(answers') = Len(answers) - 1
                      \/ link # "up" /\ answers = << >> /\ answers' = answers
<1> USE DEF Types
<1>1. f \in Frame
  <2>1. \A c \in Code : PlainFrame(c) \in Frame
    BY DEF PlainFrame, NoQuery, Frame, Query
  <2>2. {"none", "ACCEPT"} \subseteq Code
    BY DEF Code, Answers
  <2>3. \A i \in DOMAIN answers : answers[i] \in Frame
    OBVIOUS
  <2> QED
    BY <2>1, <2>2, <2>3 DEF Readable, NoFrame
<1>2. CASE answers # << >> /\ answers' = Tail(answers) /\ link' = link
  <2>1. answers' \in Seq(Frame) /\ Len(answers') = Len(answers) - 1
    BY <1>2
  <2> QED
    BY <1>1, <1>2, <2>1
<1>3. ASSUME cut, link' = link, NEW n \in 1 .. Len(answers),
             answers' = SubSeq(answers, n + 1, Len(answers))
      PROVE  answers' \in Seq(Frame)
  BY <1>3
<1>4. CASE answers = << >> /\ link # "up" /\ f = NoFrame /\ link' = "unconnected" /\ answers' = answers
  BY <1>1, <1>4
<1> QED
  BY <1>1, <1>2, <1>3, <1>4 DEF ReadFrame

-----------------------------------------------------------------------------
(* The signal "connected" among those queued for the main thread. *)

Has(es) == \E i \in DOMAIN es : es[i].signal = "connected"
One(es) == \A i, j \in DOMAIN es :
              es[i].signal = "connected" /\ es[j].signal = "connected" => i = j

LEMMA SignalAdded ==
    ASSUME NEW es \in Seq(Signal), NEW e \in Signal, One(es), e.signal = "connected" => ~Has(es)
    PROVE  /\ One(Append(es, e))
           /\ Has(Append(es, e)) <=> Has(es) \/ e.signal = "connected"
<1> DEFINE a == Append(es, e)
<1>1. /\ DOMAIN es = 1 .. Len(es) /\ Len(es) \in Nat /\ DOMAIN a = 1 .. Len(es) + 1
      /\ \A i \in DOMAIN es : a[i] = es[i]
      /\ a[Len(es) + 1] = e
  OBVIOUS
<1> HIDE DEF a
<1>2. DOMAIN a = DOMAIN es \cup {Len(es) + 1} /\ Len(es) + 1 \notin DOMAIN es
  BY <1>1
<1> QED
  BY <1>1, <1>2 DEF Has, One, a

LEMMA SignalTaken ==
    ASSUME NEW es \in Seq(Signal), es # << >>, One(es)
    PROVE  /\ One(Tail(es))
           /\ Has(Tail(es)) <=> Has(es) /\ Head(es).signal # "connected"
           /\ Head(es).signal = "connected" => Has(es)
<1> DEFINE r == Tail(es)
<1>1. /\ DOMAIN es = 1 .. Len(es) /\ Len(es) \in Nat \ {0} /\ DOMAIN r = 1 .. Len(es) - 1
      /\ \A i \in DOMAIN r : r[i] = es[i + 1]
      /\ Head(es) = es[1]
  OBVIOUS
<1> HIDE DEF r
<1>2. \A i \in DOMAIN r : i + 1 \in DOMAIN es /\ i + 1 # 1
  BY <1>1
<1>3. \A i \in DOMAIN es : i # 1 => i - 1 \in DOMAIN r /\ (i - 1) + 1 = i
  BY <1>1
<1>4. One(r)
  <2> SUFFICES ASSUME NEW i \in DOMAIN r, NEW j \in DOMAIN r,
                      r[i].signal = "connected", r[j].signal = "connected"
               PROVE  i = j
    BY DEF One
  <2>1. i + 1 = j + 1
    BY <1>1, <1>2 DEF One
  <2> QED
    BY <1>1, <2>1
<1>5. Head(es).signal = "connected" => Has(es) /\ ~Has(r)
  BY <1>1, <1>2 DEF Has, One
<1>6. Head(es).signal # "connected" => (Has(r) <=> Has(es))
  <2>1. Has(r) => Has(es)
    BY <1>1, <1>2 DEF Has
  <2>2. Head(es).signal # "connected" /\ Has(es) => Has(r)
    <3>1. SUFFICES ASSUME NEW i \in DOMAIN es, es[i].signal = "connected",
                          Head(es).signal # "connected"
                   PROVE  Has(r)
      BY DEF Has
    <3>2. i - 1 \in DOMAIN r /\ (i - 1) + 1 = i
      BY <1>1, <1>3, <3>1
    <3>3. r[i - 1] = es[i]
      BY <1>1, <3>2
    <3> QED
      BY <3>1, <3>2, <3>3 DEF Has
  <2> QED
    BY <2>1, <2>2
<1> QED
  BY <1>4, <1>5, <1>6 DEF r

-----------------------------------------------------------------------------
(* The steps, so that each is looked at once in what follows. *)

LEMMA Steps ==
    ASSUME [Next]_vars
    PROVE  \/ User \/ Deliver \/ Calls
           \/ alive /\ UNCHANGED viewVars /\ (RunStarts \/ Wait \/ RunEnds \/ TakeCommand)
           \/ alive /\ UNCHANGED viewVars /\ BeginCommand
           \/ alive /\ UNCHANGED viewVars /\ Returns
           \/ UNCHANGED threadVars /\ UNCHANGED viewVars /\ (MtReads \/ Push \/ Drop)
           \/ UNCHANGED threadVars /\ UNCHANGED viewVars /\ \E room \in BOOLEAN : Serve(room)
           \/ UNCHANGED vars
BY DEF Next, Below, WorkerStep, ServerSteps

LEMMA SameTab == [Next]_vars => tab' = tab
BY Steps DEF User, ClickConnect, CloseDialog, ClickAdd, ClickClear, ClickQuery, ClickSelect,
     ClickDeselect, ClickStart, ClickStop, ClickChoose, Deliver, Calls, CallConnect, CallSetMode,
     CallVarsConfigured, CallDisconnect, CallQuery, CallDescribe, CallLook, CallStart, CallStop,
     ConnectToServer, Give, RunStarts, Wait, RunEnds, TakeCommand, BeginCommand, Asks,
     Returns, HelloReturns, QueryReturns, ResetReturns, DisconnectReturns, ModeReturns,
     StopReturns, vars, workerVars, threadVars

LEMMA StepTypes == Types /\ [Next]_vars => Types'
<1> SUFFICES ASSUME Types, [Next]_vars PROVE Types'
  OBVIOUS
<1>c. \A c \in Code : PlainFrame(c) \in Frame
  BY DEF PlainFrame, NoQuery, Frame, Query
<1>q. NoQuery \in Query
  BY DEF NoQuery, Query
<1>s. \A q \in Query, g \in {"refused", "connected", "result"} :
         [signal |-> g, query |-> q] \in Signal
  BY DEF Signal
<1>e. \A e \in Signal : Append(events, e) \in Seq(Signal)
  BY DEF Types
<1>w. ASSUME NEW code \in Code, NEW query \in Query, WriteFrame(code, query)
      PROVE  requests' \in Seq(Frame)
  <2>1. [code |-> code, query |-> query] \in Frame
    BY DEF Frame
  <2> QED
    BY <1>w, <2>1 DEF Types, WriteFrame
<1>1. CASE User
  BY <1>1 DEF Types, User, ClickConnect, CloseDialog, ClickAdd, ClickClear, ClickQuery, ClickSelect,
              ClickDeselect, ClickStart, ClickStop, ClickChoose, workerVars, clientVars, netVars, serverVars,
              threadVars
<1>2. CASE Deliver
  <2>1. UNCHANGED <<requests, answers, request, draft, asked>> /\ events' = Tail(events)
        /\ events # << >>
    BY <1>2 DEF Deliver, clientVars, netVars, serverVars
  <2> QED
    BY <2>1 DEF Types
<1>3. CASE Calls
  <2>1. UNCHANGED <<requests, answers, events>>
    BY <1>3 DEF Calls, CallConnect, CallSetMode, CallVarsConfigured, CallDisconnect, CallQuery,
                CallDescribe, CallLook, CallStart, CallStop, ConnectToServer, Give, netVars, serverVars
  <2>2. CASE CallQuery
    <3>1. /\ asked' = Append(asked, draft) /\ request' = [n |-> Len(asked'), ranges |-> draft]
          /\ draft' = 0
      BY <2>2 DEF CallQuery
    <3>2. asked' \in Seq(Nat) /\ Len(asked') \in Nat
      BY <3>1 DEF Types
    <3>3. request' \in Query
      BY <3>1, <3>2 DEF Types, Query
    <3> QED
      BY <2>1, <3>1, <3>2, <3>3 DEF Types
  <2>3. CASE UNCHANGED <<request, asked>> /\ draft' \in {draft, draft + 1, 0}
    BY <2>1, <2>3 DEF Types
  <2> QED
    BY <1>3, <2>2, <2>3
    DEF Calls, CallConnect, CallSetMode, CallVarsConfigured, CallDisconnect,
        CallDescribe, CallLook, CallStart, CallStop, ConnectToServer
<1>v. CASE UNCHANGED viewVars
  <2>v. UNCHANGED <<draft, asked>>
    BY <1>v DEF viewVars
  <2>4. CASE RunStarts \/ Wait \/ RunEnds \/ TakeCommand
    <3>1. UNCHANGED request
      BY <2>4 DEF RunStarts, Wait, RunEnds, TakeCommand
    <3>2. CASE AskHello /\ UNCHANGED events
      <4>1. requests' = <<PlainFrame("HELLO")>> /\ answers' = << >>
        BY <3>2 DEF AskHello
      <4>2. PlainFrame("HELLO") \in Frame
        BY <1>c DEF Code
      <4> QED
        BY <2>v, <3>1, <3>2, <4>1, <4>2 DEF Types
    <3>3. CASE /\ events' = Append(events, [signal |-> "refused", query |-> NoQuery])
               /\ UNCHANGED clientVars
      <4>1. [signal |-> "refused", query |-> NoQuery] \in Signal
        BY <1>q, <1>s
      <4> QED
        BY <2>v, <3>1, <3>3, <4>1 DEF Types, clientVars, netVars, serverVars
    <3>4. CASE UNCHANGED <<requests, answers, events>>
      BY <2>v, <3>1, <3>4 DEF Types
    <3> QED
      BY <2>4, <3>2, <3>3, <3>4
      DEF RunStarts, Wait, RunEnds, TakeCommand, clientVars, netVars, serverVars
  <2>5. CASE BeginCommand
    <3>1. UNCHANGED <<answers, request>>
      BY <2>5 DEF BeginCommand, Asks, Ask, AskStop, GetRealtimeVariables, clientVars, netVars,
                  serverVars
    <3>2. requests' \in Seq(Frame)
      <4>1. CASE UNCHANGED requests
        BY <4>1 DEF Types
      <4>2. ASSUME NEW code \in Code, WriteFrame(code, NoQuery) PROVE requests' \in Seq(Frame)
        BY <1>q, <1>w, <4>2
      <4>3. ASSUME NEW code \in Code, WriteFrame(code, request) PROVE requests' \in Seq(Frame)
        BY <1>w, <4>3 DEF Types
      <4>4. {ModeCommand, QueryCommand, "RESET_MODE", "STOP_REALTIME_SENDING",
             "GET_REALTIME_VARIABLES"} \subseteq Code
        BY DEF ModeCommand, QueryCommand, Code
      <4> QED
        BY <2>5, <4>1, <4>2, <4>3, <4>4
        DEF BeginCommand, Asks, Ask, AskStop, GetRealtimeVariables, clientVars, netVars, serverVars
    <3>3. events' \in Seq(Signal)
      <4>1. [signal |-> "result", query |-> NoQuery] \in Signal
        BY <1>q, <1>s
      <4>2. events' = events \/ events' = Append(events, [signal |-> "result", query |-> NoQuery])
        BY <2>5 DEF BeginCommand, Asks
      <4> QED
        BY <4>1, <4>2, <1>e DEF Types
    <3> QED
      BY <2>v, <3>1, <3>2, <3>3 DEF Types
  <2>6. CASE Returns
    <3>1. PICK f \in Readable : HelloReturns(f) \/ QueryReturns(f) \/ ResetReturns(f)
             \/ DisconnectReturns(f) \/ ModeReturns(f) \/ StopReturns(f)
      BY <2>6 DEF Returns
    <3>2. ReadFrame(f) /\ UNCHANGED request
      BY <3>1 DEF HelloReturns, QueryReturns, ResetReturns, DisconnectReturns, ModeReturns, StopReturns
    <3>3. answers' \in Seq(Frame) /\ f \in Frame
      BY <3>2, FrameRead
    <3>4. requests' \in Seq(Frame)
      <4>1. requests' = requests \/ WriteFrame("DISCONNECT", NoQuery)
        BY <3>1 DEF HelloReturns, QueryReturns, ResetReturns, DisconnectReturns, ModeReturns,
                    StopReturns, EndAnswered, QueryAnswered, ResetAnswered, ModeAnswered
      <4>2. "DISCONNECT" \in Code
        BY DEF Code
      <4> QED
        BY <4>1, <4>2, <1>q, <1>w DEF Types
    <3>5. events' \in Seq(Signal)
      <4>1. /\ [signal |-> "connected", query |-> NoQuery] \in Signal
            /\ [signal |-> "refused", query |-> NoQuery] \in Signal
            /\ [signal |-> "result", query |-> f.query] \in Signal
        BY <1>q, <1>s, <3>3 DEF Frame
      <4>2. \/ events' = events
            \/ events' = Append(events, [signal |-> "connected", query |-> NoQuery])
            \/ events' = Append(events, [signal |-> "refused", query |-> NoQuery])
            \/ events' = Append(events, [signal |-> "result", query |-> f.query])
        BY <3>1 DEF HelloReturns, QueryReturns, ResetReturns, DisconnectReturns, ModeReturns, StopReturns
      <4> QED
        BY <4>1, <4>2, <1>e DEF Types
    <3> QED
      BY <2>v, <3>2, <3>3, <3>4, <3>5 DEF Types
  <2>7. CASE UNCHANGED threadVars /\ (MtReads \/ Push \/ Drop)
    <3>1. UNCHANGED <<events, request>>
      BY <2>7 DEF threadVars
    <3>2. CASE MtReads
      <4>1. PICK f \in Readable : ReadFrame(f)
        BY <3>2 DEF MtReads
      <4>2. answers' \in Seq(Frame)
        BY <4>1, FrameRead
      <4> QED
        BY <2>v, <3>1, <3>2, <4>2 DEF Types, MtReads, serverVars
    <3>3. CASE Push
      <4>1. PlainFrame("REALTIME_VARIABLES_RESPONSE") \in Frame
        BY <1>c DEF Code
      <4>2. requests' = requests
            /\ answers' = Append(answers, PlainFrame("REALTIME_VARIABLES_RESPONSE"))
        BY <3>3 DEF Push
      <4> QED
        BY <2>v, <3>1, <4>1, <4>2 DEF Types
    <3>4. CASE Drop
      BY <2>v, <3>1, <3>4 DEF Types, Drop
    <3> QED
      BY <2>7, <3>2, <3>3, <3>4
  <2>8. ASSUME NEW room, Serve(room), UNCHANGED threadVars PROVE Types'
    <3>1. UNCHANGED <<events, request>>
      BY <2>8 DEF threadVars
    <3> DEFINE c == Head(requests)
               owed == Take(room, [mode |-> mode, owed |-> << >>], c.code).owed
               reply == [i \in DOMAIN owed |-> [code |-> owed[i], query |-> c.query]]
    <3>2. requests # << >> /\ requests' = Tail(requests) /\ answers' = answers \o reply
      BY <2>8 DEF Serve
    <3>3. c \in Frame /\ requests' \in Seq(Frame)
      <4>1. requests \in Seq(Frame) /\ requests # << >> /\ requests' = Tail(requests)
        BY <3>2, Zenon DEF Types
      <4> QED
        BY <4>1
    <3>4. owed = << >> \/ \E a \in Answers : owed = <<a>>
      <4> DEFINE code == c.code
      <4> HIDE DEF code
      <4>1. \/ Take(room, [mode |-> mode, owed |-> << >>], code).owed = << >>
            \/ \E a \in Answers : Take(room, [mode |-> mode, owed |-> << >>], code).owed = <<a>>
        BY TakesOne, ZenonT(40)
      <4> QED
        BY <4>1 DEF code
    <3> HIDE DEF owed, c
    <3>5. reply \in Seq(Frame)
      <4>1. c.query \in Query
        BY <3>3 DEF Frame
      <4>2. CASE owed = << >>
        <5>1. reply = << >>
          BY <4>2
        <5> QED
          BY <5>1
      <4>3. ASSUME NEW a \in Answers, owed = <<a>> PROVE reply \in Seq(Frame)
        <5>1. [code |-> a, query |-> c.query] \in Frame
          BY <4>1 DEF Frame, Code
        <5>2. reply = <<[code |-> a, query |-> c.query]>>
          BY <4>3
        <5> HIDE DEF reply
        <5> QED
          BY <5>1, <5>2
      <4> QED
        BY <3>4, <4>2, <4>3
    <3> HIDE DEF reply
    <3> QED
      BY <2>v, <3>1, <3>2, <3>3, <3>5 DEF Types
  <2>9. CASE UNCHANGED vars
    BY <2>9 DEF vars, workerVars, clientVars, netVars, serverVars, threadVars, Types, viewVars
  <2> QED
    BY <1>1, <1>2, <1>3, <2>4, <2>5, <2>6, <2>7, <2>8, <2>9, Steps, Zenon
<1>9. CASE UNCHANGED vars
  BY <1>9 DEF vars, workerVars, clientVars, netVars, serverVars, threadVars, viewVars, Types
<1> QED
  BY <1>1, <1>2, <1>3, <1>v, <1>9, Steps

-----------------------------------------------------------------------------
(***************************************************************************)
(* The life of the thread.  A session is live from the signal "connected"  *)
(* to the click that disconnects it.  While it is, run() has not been told *)
(* to end, and one source at most speaks for it: the signal, the slot that *)
(* the signal runs, or the window.                                         *)
(***************************************************************************)
Hello == pc = "calling" /\ call = "HELLO"
Live == Has(events) \/ gui \in {"set_mode", "vars"} \/ state = "CONNECT"

Thread ==
    /\ pc \in {"idle", "starting", "calling", "top", "waiting", "awoken", "serving"}
    /\ call # "none" <=> pc = "calling"
    /\ pc \in {"idle", "starting"} \/ Hello => ~Live
    /\ pc = "starting" \/ Hello => command # "DISCONNECT"
    /\ Hello => ~quit
EndsOnlyIfTold ==
    Live => /\ ~quit /\ command # "DISCONNECT"
            /\ pc = "serving" => cmd # "DISCONNECT"
            /\ call \notin {"RESET_MODE", "DISCONNECT"}
OneSource ==
    /\ One(events)
    /\ gui \in {"set_mode", "vars"} => ~Has(events)
    /\ state = "CONNECT" => ~Has(events) /\ gui \notin {"set_mode", "vars"}
    /\ gui \in {"disconnect", "look", "describe"} => state = "CONNECT"
LifeInv == Thread /\ EndsOnlyIfTold /\ OneSource

LEMMA StepLife ==
    ASSUME Types, LifeInv, [Next]_vars
    PROVE  LifeInv'
<1> USE DEF LifeInv, Thread, EndsOnlyIfTold, OneSource, Live, Hello
<1>o. ASSUME NEW e \in Signal, e.signal # "connected"
      PROVE  One(Append(events, e)) /\ (Has(Append(events, e)) <=> Has(events))
  BY <1>o, SignalAdded DEF Types
<1>1. CASE User
  <2>1. UNCHANGED <<pc, call, command, cmd, quit, events, state>>
    BY <1>1 DEF User, ClickConnect, CloseDialog, ClickAdd, ClickClear, ClickQuery, ClickSelect,
                ClickDeselect, ClickStart, ClickStop, ClickChoose, workerVars, clientVars, netVars, serverVars,
                threadVars
  <2>2. /\ gui' = gui \/ gui = "idle"
        /\ gui' \notin {"set_mode", "vars"} \/ gui' = gui
        /\ gui' \in {"disconnect", "look", "describe"} => gui' = gui \/ state = "CONNECT"
    BY <1>1 DEF User, ClickConnect, CloseDialog, ClickAdd, ClickClear, ClickQuery, ClickSelect,
                ClickDeselect, ClickStart, ClickStop, ClickChoose, Free, UserMay
  <2>3. gui \in {"set_mode", "vars"} => gui' = gui
    BY <2>2
  <2> QED
    BY <2>1, <2>2, <2>3
<1>2. CASE Deliver
  <2>1. /\ UNCHANGED <<pc, call, command, cmd, quit, state>>
        /\ events # << >> /\ events' = Tail(events) /\ gui = "idle"
        /\ gui' = IF Head(events).signal = "connected" THEN "set_mode" ELSE "idle"
    BY <1>2 DEF Deliver, clientVars, netVars, serverVars
  <2>2. /\ One(events')
        /\ Has(events') <=> Has(events) /\ Head(events).signal # "connected"
        /\ Head(events).signal = "connected" => Has(events)
    BY <2>1, SignalTaken DEF Types
  <2> QED
    BY <2>1, <2>2
<1>3. CASE Calls
  <2>1. UNCHANGED <<events, call, cmd, quit>>
    BY <1>3 DEF Calls, CallConnect, CallSetMode, CallVarsConfigured, CallDisconnect, CallQuery,
                CallDescribe, CallLook, CallStart, CallStop, ConnectToServer, Give, netVars, serverVars
  <2>2. CASE CallConnect
    BY <2>1, <2>2 DEF CallConnect, ConnectToServer
  <2>3. CASE CallVarsConfigured
    BY <2>1, <2>3 DEF CallVarsConfigured, MutexFree
  <2>4. CASE CallDisconnect
    BY <2>1, <2>4 DEF CallDisconnect, Give
  <2>5. CASE CallSetMode
    BY <2>1, <2>5 DEF CallSetMode, Give
  <2>6. CASE CallQuery \/ CallStart \/ CallStop
    <3>1. /\ gui' = "idle" /\ state' = state /\ command' # "DISCONNECT"
          /\ pc' = IF pc = "waiting" THEN "awoken" ELSE pc
          /\ gui \notin {"set_mode", "vars"}
      BY <2>6 DEF CallQuery, CallStart, CallStop, Give, QueryCommand
    <3> QED
      BY <2>1, <3>1
  <2>7. CASE CallDescribe \/ CallLook
    BY <2>1, <2>7 DEF CallDescribe, CallLook
  <2> QED
    BY <1>3, <2>2, <2>3, <2>4, <2>5, <2>6, <2>7 DEF Calls
<1>4. CASE UNCHANGED viewVars /\ (RunStarts \/ Wait \/ RunEnds \/ TakeCommand)
  <2>1. UNCHANGED <<gui, state>>
    BY <1>4 DEF viewVars
  <2>2. CASE RunStarts
    <3>1. pc = "starting" /\ quit' = FALSE /\ UNCHANGED <<command, cmd>>
      BY <2>2 DEF RunStarts
    <3>2. CASE AskHello /\ pc' = "calling" /\ UNCHANGED events
      BY <2>1, <3>1, <3>2 DEF AskHello
    <3>3. CASE /\ pc' = "idle" /\ call' = call
               /\ events' = Append(events, [signal |-> "refused", query |-> NoQuery])
      <4>1. [signal |-> "refused", query |-> NoQuery] \in Signal
        BY DEF Signal, NoQuery, Query
      <4>2. One(events') /\ (Has(events') <=> Has(events))
        BY <3>3, <4>1, SignalAdded DEF Types
      <4> QED
        BY <2>1, <3>1, <3>3, <4>2
    <3> QED
      BY <2>2, <3>2, <3>3 DEF RunStarts, clientVars
  <2>3. CASE Wait
    BY <2>1, <2>3 DEF Wait, clientVars
  <2>4. CASE RunEnds
    BY <2>1, <2>4 DEF RunEnds
  <2>5. CASE TakeCommand
    BY <2>1, <2>5 DEF TakeCommand, clientVars
  <2> QED
    BY <1>4, <2>2, <2>3, <2>4, <2>5
<1>5. CASE UNCHANGED viewVars /\ BeginCommand
  <2>1. UNCHANGED <<gui, state, command, quit, cmd>> /\ pc = "serving" /\ pc' \in {"calling", "top"}
    BY <1>5 DEF viewVars, BeginCommand, Asks
  <2>2. One(events') /\ (Has(events') <=> Has(events))
    <3>1. events' = events \/ events' = Append(events, [signal |-> "result", query |-> NoQuery])
      BY <1>5 DEF BeginCommand, Asks
    <3>2. [signal |-> "result", query |-> NoQuery] \in Signal
      BY DEF Signal, NoQuery, Query
    <3> QED
      BY <1>o, <3>1, <3>2
  <2>3. /\ (call' # "none" <=> pc' = "calling") /\ call' # "HELLO"
        /\ cmd # "DISCONNECT" => call' \notin {"RESET_MODE", "DISCONNECT"}
    BY <1>5, <2>1 DEF BeginCommand, Asks, Ask, AskStop, GetRealtimeVariables, ModeCommand,
                      QueryCommand, clientVars
  <2> QED
    BY <2>1, <2>2, <2>3
<1>6. CASE UNCHANGED viewVars /\ Returns
  <2>1. UNCHANGED <<gui, state>>
    BY <1>6 DEF viewVars
  <2>2. PICK f \in Readable : HelloReturns(f) \/ QueryReturns(f) \/ ResetReturns(f)
           \/ DisconnectReturns(f) \/ ModeReturns(f) \/ StopReturns(f)
    BY <1>6 DEF Returns
  <2>3. f \in Frame
    BY <2>2, FrameRead DEF HelloReturns, QueryReturns, ResetReturns, DisconnectReturns, ModeReturns,
                           StopReturns
  <2>4. /\ [signal |-> "refused", query |-> NoQuery] \in Signal
        /\ [signal |-> "connected", query |-> NoQuery] \in Signal
        /\ [signal |-> "result", query |-> f.query] \in Signal
    BY <2>3 DEF Signal, NoQuery, Query, Frame
  <2>5. CASE HelloReturns(f)
    <3>1. /\ Hello /\ call' = "none" /\ UNCHANGED <<command, cmd, quit>>
          /\ \/ /\ pc' = "top"
                /\ events' = Append(events, [signal |-> "connected", query |-> NoQuery])
             \/ /\ pc' = "idle"
                /\ events' = Append(events, [signal |-> "refused", query |-> NoQuery])
      BY <2>5 DEF HelloReturns, EndAnswered
    <3>2. CASE /\ pc' = "top"
               /\ events' = Append(events, [signal |-> "connected", query |-> NoQuery])
      <4>1. One(events') /\ Has(events')
        BY <2>4, <3>1, <3>2, SignalAdded DEF Types
      <4> QED
        BY <2>1, <3>1, <3>2, <4>1
    <3>3. CASE /\ pc' = "idle"
               /\ events' = Append(events, [signal |-> "refused", query |-> NoQuery])
      <4>1. One(events') /\ (Has(events') <=> Has(events))
        BY <2>4, <3>3, SignalAdded DEF Types
      <4> QED
        BY <2>1, <3>1, <3>3, <4>1
    <3> QED
      BY <3>1, <3>2, <3>3
  <2>6. CASE QueryReturns(f)
    <3>1. /\ pc = "calling" /\ call # "HELLO" /\ call' = "none" /\ pc' = "top"
          /\ UNCHANGED <<command, cmd, quit>>
          /\ events' = events \/ events' = Append(events, [signal |-> "result", query |-> f.query])
      BY <2>6 DEF QueryReturns, QueryAnswered
    <3>2. One(events') /\ (Has(events') <=> Has(events))
      BY <1>o, <2>4, <3>1
    <3> QED
      BY <2>1, <3>1, <3>2
  <2>7. CASE ResetReturns(f)
    BY <2>1, <2>7 DEF ResetReturns, ResetAnswered
  <2>8. CASE DisconnectReturns(f)
    BY <2>1, <2>8 DEF DisconnectReturns, EndAnswered
  <2>9. CASE ModeReturns(f) \/ StopReturns(f)
    BY <2>1, <2>9 DEF ModeReturns, StopReturns, ModeAnswered, EndAnswered
  <2> QED
    BY <2>2, <2>5, <2>6, <2>7, <2>8, <2>9
<1>7. CASE UNCHANGED <<call, pc, command, cmd, quit, events, gui, state>>
  BY <1>7
<1>8. CASE UNCHANGED threadVars /\ UNCHANGED viewVars /\ (MtReads \/ Push \/ Drop)
  BY <1>7, <1>8 DEF threadVars, viewVars, MtReads, Push, Drop
<1>9. CASE UNCHANGED threadVars /\ UNCHANGED viewVars /\ \E room \in BOOLEAN : Serve(room)
  BY <1>7, <1>9 DEF threadVars, viewVars, Serve
<1>10. CASE UNCHANGED vars
  BY <1>7, <1>10 DEF vars, workerVars, clientVars, threadVars, viewVars
<1> QED
  BY <1>1, <1>2, <1>3, <1>4, <1>5, <1>6, <1>8, <1>9, <1>10, Steps

-----------------------------------------------------------------------------
(***************************************************************************)
(* A tab that is not the real-time one: no second reader, nothing sent     *)
(* unasked, and so one frame under way while an answer is awaited.         *)
(***************************************************************************)
RealtimeOnly == {"GET_REALTIME", "STOP_REALTIME_SENDING"}
Lone ==
    /\ gui \notin {"start", "stop"}
    /\ command \notin RealtimeOnly
    /\ pc = "serving" => cmd \notin RealtimeOnly
    /\ ~reader /\ ~cut /\ ~late /\ mode # "sending"
    /\ \A i \in DOMAIN requests : requests[i].code # "GET_REALTIME_VARIABLES"
    /\ link # "up" => requests = << >>
    /\ Len(requests) + Len(answers) <= IF call = "none" THEN 0 ELSE 1
LoneInv == tab # "realtime" => Lone

LEMMA LoneWrite ==
    ASSUME Types, NEW code \in Code \ {"GET_REALTIME_VARIABLES"}, NEW query \in Query,
           requests = << >>, WriteFrame(code, query)
    PROVE  /\ \A i \in DOMAIN requests' : requests'[i].code # "GET_REALTIME_VARIABLES"
           /\ link # "up" => requests' = << >>
           /\ Len(requests') <= 1 /\ Len(requests') \in Nat
<1> DEFINE e == [code |-> code, query |-> query]
<1>1. e \in Frame /\ e.code # "GET_REALTIME_VARIABLES"
  BY DEF Frame
<1>2. CASE link = "up"
  <2>1. requests' = Append(<< >>, e)
    BY <1>2 DEF WriteFrame
  <2> HIDE DEF e
  <2>2. requests' = <<e>>
    BY <1>1, <2>1
  <2> QED
    BY <1>1, <1>2, <2>2
<1>3. CASE link # "up"
  BY <1>3 DEF WriteFrame
<1> QED
  BY <1>2, <1>3

LEMMA StepLone ==
    ASSUME Types, LifeInv, LoneInv, [Next]_vars
    PROVE  LoneInv'
<1> SUFFICES ASSUME tab' # "realtime" PROVE Lone'
  BY DEF LoneInv
<1>t. tab' = tab
  BY SameTab
<1>l. Lone /\ tab # "realtime"
  BY <1>t DEF LoneInv
<1>n. /\ Len(requests) \in Nat /\ Len(answers) \in Nat
      /\ Len(requests) = 0 => requests = << >>
      /\ Len(answers) = 0 => answers = << >>
  BY DEF Types
<1>b. /\ Len(requests) + Len(answers) <= 1
      /\ call = "none" => Len(requests) + Len(answers) = 0
  <2>1. Len(requests) + Len(answers) <= IF call = "none" THEN 0 ELSE 1
    BY <1>l DEF Lone
  <2> QED
    BY <1>n, <2>1
<1>q. NoQuery \in Query /\ request \in Query
  BY DEF Types, NoQuery, Query
<1> USE DEF Lone
<1>0. CASE UNCHANGED <<reader, cut, late, mode, requests, link, answers, call>>
           /\ gui' \notin {"start", "stop"} /\ command' \notin RealtimeOnly
           /\ (pc' = "serving" => cmd' \notin RealtimeOnly)
  BY <1>0, <1>l
<1>1. CASE User
  <2>1. UNCHANGED <<reader, cut, late, mode, requests, link, answers, call, command, pc, cmd>>
    BY <1>1 DEF User, ClickConnect, CloseDialog, ClickAdd, ClickClear, ClickQuery, ClickSelect,
                ClickDeselect, ClickStart, ClickStop, ClickChoose, workerVars, clientVars, netVars, serverVars,
                threadVars
  <2>2. gui' \notin {"start", "stop"}
    BY <1>1, <1>l DEF User, ClickConnect, CloseDialog, ClickAdd, ClickClear, ClickQuery, ClickSelect,
                ClickDeselect, ClickStart, ClickStop, ClickChoose
  <2> QED
    BY <1>0, <1>l, <2>1, <2>2
<1>2. CASE Deliver
  <2>1. /\ UNCHANGED <<reader, cut, late, mode, requests, link, answers, call, command, pc, cmd>>
        /\ gui' \in {"set_mode", "idle"}
    BY <1>2 DEF Deliver, clientVars, netVars, serverVars
  <2> QED
    BY <1>0, <1>l, <2>1
<1>3. CASE Calls
  <2>1. UNCHANGED <<reader, cut, late, mode, requests, link, answers, call, cmd>>
    BY <1>3 DEF Calls, CallConnect, CallSetMode, CallVarsConfigured, CallDisconnect, CallQuery,
                CallDescribe, CallLook, CallStart, CallStop, ConnectToServer, Give, netVars, serverVars
  <2>2. pc' = "serving" => pc = "serving"
    BY <1>3 DEF Calls, CallConnect, CallSetMode, CallVarsConfigured, CallDisconnect, CallQuery,
                CallDescribe, CallLook, CallStart, CallStop, ConnectToServer, Give
  <2>3. gui' \in {"idle", "vars", "look"}
    BY <1>3 DEF Calls, CallConnect, CallSetMode, CallVarsConfigured, CallDisconnect, CallQuery,
                CallDescribe, CallLook, CallStart, CallStop
  <2>4. command' \notin RealtimeOnly
    BY <1>3, <1>l DEF Calls, CallConnect, CallSetMode, CallVarsConfigured, CallDisconnect, CallQuery,
                CallDescribe, CallLook, CallStart, CallStop, ConnectToServer, Give, QueryCommand, RealtimeOnly
  <2> QED
    BY <1>0, <1>l, <2>1, <2>2, <2>3, <2>4
<1>4. CASE UNCHANGED viewVars /\ (RunStarts \/ Wait \/ RunEnds \/ TakeCommand)
  <2>1. gui' = gui
    BY <1>4 DEF viewVars
  <2>2. CASE RunStarts
    <3>1. pc' # "serving" /\ command' = command
      BY <2>2 DEF RunStarts
    <3>2. CASE AskHello
      <4>1. /\ requests' = <<PlainFrame("HELLO")>> /\ answers' = << >> /\ call' = "HELLO"
            /\ link' = "up" /\ mode' = "begin" /\ late' = FALSE /\ cut' = FALSE /\ reader' = FALSE
        BY <3>2 DEF AskHello
      <4>2. PlainFrame("HELLO").code = "HELLO"
        BY DEF PlainFrame
      <4> QED
        BY <1>l, <2>1, <3>1, <4>1, <4>2
    <3>3. CASE UNCHANGED clientVars
      BY <1>0, <1>l, <2>1, <3>1, <3>3 DEF clientVars, netVars, serverVars
    <3> QED
      BY <2>2, <3>2, <3>3 DEF RunStarts
  <2>3. CASE Wait \/ TakeCommand
    BY <1>0, <1>l, <2>1, <2>3 DEF Wait, TakeCommand, clientVars, netVars, serverVars
  <2>4. CASE RunEnds
    <3>1. /\ UNCHANGED <<reader, cut, late, mode, requests, answers, call, command>>
          /\ pc = "top" /\ pc' = "idle" /\ link' = "unconnected"
      BY <2>4 DEF RunEnds, serverVars
    <3>2. call = "none" /\ requests = << >>
      BY <1>l, <1>n, <3>1 DEF LifeInv, Thread
    <3> QED
      BY <1>l, <2>1, <3>1, <3>2
  <2> QED
    BY <1>4, <2>2, <2>3, <2>4
<1>5. CASE UNCHANGED viewVars /\ BeginCommand
  <2>1. /\ UNCHANGED <<gui, command, cmd>> /\ pc = "serving" /\ pc' # "serving"
    BY <1>5 DEF viewVars, BeginCommand, Asks
  <2>2. call = "none" /\ requests = << >> /\ answers = << >>
    BY <1>l, <1>n, <2>1 DEF LifeInv, Thread
  <2>3. CASE UNCHANGED clientVars
    BY <1>0, <1>l, <2>1, <2>3 DEF clientVars, netVars, serverVars
  <2>4. ASSUME NEW code \in Code \ {"none", "GET_REALTIME_VARIABLES"}, NEW query \in Query,
               Ask(code, query)
        PROVE  Lone'
    <3>1. /\ WriteFrame(code, query) /\ call' = code
          /\ UNCHANGED <<mode, late, link, answers, cut, reader>>
      BY <2>4 DEF Ask
    <3>2. /\ \A i \in DOMAIN requests' : requests'[i].code # "GET_REALTIME_VARIABLES"
          /\ link # "up" => requests' = << >>
          /\ Len(requests') <= 1 /\ Len(requests') \in Nat
      BY <2>2, <3>1, LoneWrite
    <3> QED
      BY <1>l, <1>n, <2>1, <2>2, <3>1, <3>2
  <2>5. \/ UNCHANGED clientVars
        \/ Ask(ModeCommand, NoQuery) \/ Ask(QueryCommand, request) \/ Ask("RESET_MODE", NoQuery)
    BY <1>5, <1>l, <2>1 DEF BeginCommand, Asks, RealtimeOnly
  <2>6. {ModeCommand, QueryCommand, "RESET_MODE"} \subseteq Code \ {"none", "GET_REALTIME_VARIABLES"}
    BY DEF ModeCommand, QueryCommand, Code, Answers
  <2> QED
    BY <1>q, <2>3, <2>4, <2>5, <2>6
<1>6. CASE UNCHANGED viewVars /\ Returns
  <2>1. PICK f \in Readable : HelloReturns(f) \/ QueryReturns(f) \/ ResetReturns(f)
           \/ DisconnectReturns(f) \/ ModeReturns(f) \/ StopReturns(f)
    BY <1>6 DEF Returns
  <2>2. /\ UNCHANGED <<gui, command, cmd, reader, cut, late, mode>>
        /\ pc = "calling" /\ pc' # "serving" /\ ReadFrame(f)
    BY <1>6, <2>1 DEF viewVars, HelloReturns, QueryReturns, ResetReturns, DisconnectReturns,
         ModeReturns, StopReturns, EndAnswered, QueryAnswered, ResetAnswered, ModeAnswered, Answered
  <2>3. /\ answers' \in Seq(Frame) /\ (link' # link => link # "up")
        /\ \/ Len(answers') = Len(answers) - 1
           \/ link # "up" /\ answers = << >> /\ answers' = answers
    BY <1>l, <2>2, FrameRead
  <2>4. Len(answers') = 0 /\ requests = << >>
    <3>1. CASE Len(answers') = Len(answers) - 1
      <4>1. Len(answers') \in Nat
        BY <2>3
      <4> QED
        BY <1>b, <1>n, <3>1, <4>1
    <3>2. CASE link # "up" /\ answers = << >> /\ answers' = answers
      BY <1>l, <3>2
    <3> QED
      BY <2>3, <3>1, <3>2
  <2>5. CASE requests' = requests
    BY <1>l, <2>2, <2>3, <2>4, <2>5
  <2>6. CASE ResetReturns(f) /\ f.code = "ACCEPT"
    <3>1. WriteFrame("DISCONNECT", NoQuery) /\ call' = "DISCONNECT"
      BY <2>6 DEF ResetReturns, ResetAnswered
    <3>2. "DISCONNECT" \in Code \ {"GET_REALTIME_VARIABLES"}
      BY DEF Code
    <3>3. /\ \A i \in DOMAIN requests' : requests'[i].code # "GET_REALTIME_VARIABLES"
          /\ link # "up" => requests' = << >>
          /\ Len(requests') <= 1 /\ Len(requests') \in Nat
      BY <1>q, <2>4, <3>1, <3>2, LoneWrite
    <3> QED
      BY <1>l, <2>2, <2>3, <2>4, <3>1, <3>3
  <2> QED
    BY <2>1, <2>5, <2>6 DEF HelloReturns, QueryReturns, ResetReturns, DisconnectReturns,
         ModeReturns, StopReturns, EndAnswered, QueryAnswered, ResetAnswered, ModeAnswered
<1>7. CASE UNCHANGED threadVars /\ UNCHANGED viewVars
  <2>1. UNCHANGED <<gui, command, cmd, pc>>
    BY <1>7 DEF threadVars, viewVars
  <2>2. CASE MtReads \/ Push
    BY <1>l, <2>2 DEF MtReads, Push
  <2>3. CASE Drop
    <3>1. /\ requests' = << >> /\ mode' = "disconnected" /\ link' = "lost"
          /\ UNCHANGED <<late, answers, cut, call, reader>>
      BY <2>3 DEF Drop
    <3> QED
      BY <1>l, <1>n, <2>1, <3>1
  <2>4. ASSUME NEW room, Serve(room) PROVE Lone'
    <3> DEFINE c == Head(requests)
               code == c.code
               owed == Take(room, [mode |-> mode, owed |-> << >>], code).owed
               reply == [i \in DOMAIN owed |-> [code |-> owed[i], query |-> c.query]]
    <3>1. /\ requests # << >> /\ requests' = Tail(requests) /\ answers' = answers \o reply
          /\ mode' = Take(room, [mode |-> mode, owed |-> << >>], code).mode
          /\ late' = (late \/ (mode = "sending" /\ mode' # "sending"))
          /\ UNCHANGED <<cut, call, reader>>
      BY <2>4 DEF Serve
    <3>2. code # "GET_REALTIME_VARIABLES"
      <4>0. requests \in Seq(Frame) /\ requests # << >>
        BY <3>1, Zenon DEF Types
      <4>1. 1 \in DOMAIN requests /\ c = requests[1]
        BY <4>0
      <4> QED
        BY <1>l, <4>1
    <3> HIDE DEF code
    <3>3. /\ owed = << >> \/ \E a \in Answers : owed = <<a>>
          /\ mode' # "sending"
      BY <1>l, <3>1, <3>2, TakesOne
    <3> HIDE DEF owed, c
    <3>4. Len(requests) = 1 /\ Len(answers) = 0 /\ answers = << >> /\ call # "none"
      <4>1. Len(requests) # 0
        BY <3>1, <1>n
      <4>2. Len(requests) = 1 /\ Len(answers) = 0
        <5>1. \A r, a \in Nat : r + a <= 1 /\ r # 0 => r = 1 /\ a = 0
          OBVIOUS
        <5> QED
          BY <1>b, <1>n, <4>1, <5>1, Zenon
      <4>3. call # "none"
        BY <1>b, <4>2
      <4> QED
        BY <1>n, <4>2, <4>3
    <3>5. requests' = << >>
      <4>1. Tail(requests) \in Seq(Frame) /\ Len(Tail(requests)) = 0
        BY <3>1, <3>4 DEF Types
      <4> QED
        BY <3>1, <4>1
    <3>6. Len(answers') <= 1 /\ Len(answers') \in Nat
      <4>1. CASE owed = << >>
        <5>1. reply = << >>
          BY <4>1
        <5> QED
          BY <3>1, <3>4, <5>1
      <4>2. ASSUME NEW a \in Answers, owed = <<a>> PROVE Len(answers') <= 1 /\ Len(answers') \in Nat
        <5>1. reply = <<[code |-> a, query |-> c.query]>>
          BY <4>2
        <5> HIDE DEF reply
        <5>2. answers' = <<[code |-> a, query |-> c.query]>>
          BY <3>1, <3>4, <5>1
        <5> QED
          BY <5>2
      <4> QED
        BY <3>3, <4>1, <4>2
    <3> HIDE DEF reply
    <3>7. ~late'
      BY <1>l, <3>1
    <3>8. Len(requests') + Len(answers') <= IF call' = "none" THEN 0 ELSE 1
      BY <3>1, <3>4, <3>5, <3>6
    <3> QED
      BY <1>l, <2>1, <3>1, <3>3, <3>5, <3>7, <3>8
  <2>5. CASE UNCHANGED vars
    BY <1>0, <1>l, <2>1, <2>5 DEF vars, workerVars, clientVars, netVars, serverVars
  <2> QED
    BY <1>1, <1>2, <1>3, <1>4, <1>5, <1>6, <2>2, <2>3, <2>4, <2>5, Steps
<1>8. CASE UNCHANGED vars
  BY <1>7, <1>8 DEF vars, workerVars
<1> QED
  BY <1>1, <1>2, <1>3, <1>4, <1>5, <1>6, <1>7, <1>8, Steps

-----------------------------------------------------------------------------
ClientInv == Types /\ LifeInv /\ LoneInv

LEMMA InitClient == Init => ClientInv
<1> SUFFICES ASSUME Init PROVE ClientInv
  OBVIOUS
<1> USE DEF Init, WorkerInit, ClientInit
<1>1. Types
  BY DEF Types, NoQuery, Query
<1>2. LifeInv
  BY DEF LifeInv, Thread, EndsOnlyIfTold, OneSource, Live, Hello, Has, One
<1>3. LoneInv
  BY DEF LoneInv, Lone, RealtimeOnly
<1> QED
  BY <1>1, <1>2, <1>3 DEF ClientInv

LEMMA AlwaysClient == Spec => []ClientInv
<1>1. ClientInv /\ [Next]_vars => ClientInv'
  BY StepTypes, StepLife, StepLone DEF ClientInv
<1> QED
  BY InitClient, <1>1, PTL DEF Spec

(* ClientView::enableTab... and on_pushButton_4_clicked follow m_client    *)
(* only while the AHPClient on the stack of ClientWorker::run exists,      *)
(* however often the user connects and whatever commands are lost.         *)
THEOREM NeverDangles == Spec => []NoDangling
<1>1. ClientInv => NoDangling
  BY DEF ClientInv, LifeInv, Thread, Live, Hello, OneSource, NoDangling, ClientExists
<1> QED
  BY AlwaysClient, <1>1, PTL

(* AHPClient takes the next frame for the answer: in a historian session   *)
(* that is the answer, for there is never another frame under way.         *)
THEOREM AlwaysLockstep == Spec => []Lockstep
<1>1. ClientInv => Lockstep
  BY DEF ClientInv, LoneInv, Lone, Lockstep
<1> QED
  BY AlwaysClient, <1>1, PTL

-----------------------------------------------------------------------------
(***************************************************************************)
(* The queries, from the request put together in the window over the       *)
(* command, the answer and the signal to the screen.                       *)
(***************************************************************************)
QueriesIn(s) == {s[i].query : i \in DOMAIN s}
Known(q) == q.n \in 1 .. Len(asked) /\ q.ranges = asked[q.n]
Fine(q) == q = NoQuery \/ Known(q)

(* The query about to be sent, and those that were sent and whose answer   *)
(* was not taken.                                                          *)
Fresh ==
    \/ pc = "awoken" /\ command = QueryCommand
    \/ pc = "serving" /\ cmd = QueryCommand
Pending ==
    QueriesIn(requests) \cup QueriesIn(answers) \cup (IF Fresh THEN {request} ELSE {})
Anywhere == {request} \cup Pending \cup QueriesIn(events)

Genuine ==
    /\ \A q \in Anywhere : Fine(q)
    /\ shown \in Seq(Query) /\ \A i \in DOMAIN shown : Known(shown[i])
    /\ tab = "realtime" => asked = << >> /\ gui # "query"

LEMMA QueriesOfAppend ==
    ASSUME NEW S, NEW s \in Seq(S), NEW e \in S
    PROVE  QueriesIn(Append(s, e)) = QueriesIn(s) \cup {e.query}
<1> DEFINE a == Append(s, e)
<1>1. /\ DOMAIN s = 1 .. Len(s) /\ Len(s) \in Nat /\ DOMAIN a = 1 .. Len(s) + 1
      /\ \A i \in DOMAIN s : a[i] = s[i]
      /\ a[Len(s) + 1] = e
  OBVIOUS
<1> HIDE DEF a
<1>2. DOMAIN a = DOMAIN s \cup {Len(s) + 1}
  BY <1>1
<1> QED
  BY <1>1, <1>2 DEF QueriesIn, a

LEMMA QueriesOfTail ==
    ASSUME NEW S, NEW s \in Seq(S), s # << >>
    PROVE  Head(s).query \in QueriesIn(s) /\ QueriesIn(Tail(s)) \subseteq QueriesIn(s)
<1> DEFINE r == Tail(s)
<1>1. /\ DOMAIN s = 1 .. Len(s) /\ Len(s) \in Nat \ {0} /\ DOMAIN r = 1 .. Len(s) - 1
      /\ \A i \in DOMAIN r : r[i] = s[i + 1]
      /\ Head(s) = s[1]
  OBVIOUS
<1> HIDE DEF r
<1>2. \A i \in DOMAIN r : i + 1 \in DOMAIN s
  BY <1>1
<1>3. 1 \in DOMAIN s
  BY <1>1
<1> QED
  BY <1>1, <1>2, <1>3 DEF QueriesIn, r

LEMMA QueriesRead ==
    ASSUME Types, NEW f \in Readable, ReadFrame(f)
    PROVE  f.query \in QueriesIn(answers) \cup {NoQuery} /\ QueriesIn(answers') \subseteq QueriesIn(answers)
<1>1. f.query \in QueriesIn(answers) \cup {NoQuery}
  BY DEF Readable, NoFrame, PlainFrame, QueriesIn
<1>2. CASE answers # << >> /\ answers' = Tail(answers)
  BY <1>1, <1>2, QueriesOfTail DEF Types
<1>3. ASSUME NEW n \in 1 .. Len(answers), answers' = SubSeq(answers, n + 1, Len(answers))
      PROVE  QueriesIn(answers') \subseteq QueriesIn(answers)
  <2>1. /\ DOMAIN answers = 1 .. Len(answers) /\ DOMAIN answers' = 1 .. Len(answers) - n
        /\ \A i \in DOMAIN answers' : answers'[i] = answers[i + n]
    BY <1>3 DEF Types
  <2>2. \A i \in DOMAIN answers' : i + n \in DOMAIN answers
    BY <2>1
  <2> QED
    BY <2>1, <2>2 DEF QueriesIn
<1>4. CASE answers' = answers
  BY <1>1, <1>4
<1> QED
  BY <1>1, <1>2, <1>3, <1>4 DEF ReadFrame

LEMMA QueriesServed ==
    ASSUME Types, NEW room, Serve(room)
    PROVE  /\ QueriesIn(answers') \subseteq QueriesIn(answers) \cup QueriesIn(requests)
           /\ QueriesIn(requests') \subseteq QueriesIn(requests)
<1> DEFINE c == Head(requests)
           code == c.code
           owed == Take(room, [mode |-> mode, owed |-> << >>], code).owed
           reply == [i \in DOMAIN owed |-> [code |-> owed[i], query |-> c.query]]
<1>1. requests # << >> /\ requests' = Tail(requests) /\ answers' = answers \o reply
  BY DEF Serve
<1>2. c.query \in QueriesIn(requests) /\ QueriesIn(requests') \subseteq QueriesIn(requests)
  BY <1>1, QueriesOfTail DEF Types
<1>3. c \in Frame
  <2>1. requests \in Seq(Frame) /\ requests # << >>
    BY <1>1, Zenon DEF Types
  <2> QED
    BY <2>1
<1> HIDE DEF code, c
<1>4. owed = << >> \/ \E a \in Answers : owed = <<a>>
  BY TakesOne, ZenonT(40)
<1> HIDE DEF owed
<1>5. CASE owed = << >>
  <2>1. reply = << >>
    BY <1>5
  <2>2. answers' = answers
    BY <1>1, <2>1 DEF Types
  <2> QED
    BY <1>2, <2>2
<1>6. ASSUME NEW a \in Answers, owed = <<a>>
      PROVE  QueriesIn(answers') \subseteq QueriesIn(answers) \cup QueriesIn(requests)
  <2> DEFINE e == [code |-> a, query |-> c.query]
  <2>1. reply = <<e>>
    BY <1>6
  <2>2. e \in Frame /\ e.query = c.query
    BY <1>3 DEF Frame, Code
  <2> HIDE DEF e, reply
  <2>3. answers' = Append(answers, e)
    BY <1>1, <2>1, <2>2 DEF Types
  <2>4. QueriesIn(answers') = QueriesIn(answers) \cup {c.query}
    BY <2>2, <2>3, QueriesOfAppend DEF Types
  <2> QED
    BY <1>2, <2>4
<1> QED
  BY <1>2, <1>4, <1>5, <1>6

(* A step that makes no query moves those there are, or drops them; it    *)
(* queues a result only when it has taken the answer.                      *)
Queues(e) == e \in Signal /\ events' = Append(events, e) /\ UNCHANGED shown
Moves ==
    /\ UNCHANGED <<request, asked>>
    /\ Pending' \subseteq Pending \cup {NoQuery}
    /\ \/ UNCHANGED <<events, shown>>
       \/ \E e : Queues(e) /\ e.query = NoQuery
       \/ /\ \E e : Queues(e) /\ e.query \in QueriesIn(answers)
          /\ call' = "none" /\ pc' = "top"
       \/ Deliver

LEMMA QueriesMove ==
    ASSUME Types, [Next]_vars, ~(gui = "query" /\ CallQuery)
    PROVE  Moves
<1>q. NoQuery \in Query /\ request \in Query
  BY DEF Types, NoQuery, Query
<1>s. \A q \in Query, g \in {"refused", "connected", "result"} :
         /\ [signal |-> g, query |-> q] \in Signal
         /\ [signal |-> g, query |-> q].query = q
  BY DEF Signal
<1>e. ASSUME NEW g \in {"refused", "connected", "result"}, NEW q \in Query,
             events' = Append(events, [signal |-> g, query |-> q]), shown' = shown
      PROVE  \E e : Queues(e) /\ e.query = q
  BY <1>e, <1>s DEF Queues
<1>w. ASSUME NEW code \in Code, NEW query \in Query, WriteFrame(code, query)
      PROVE  QueriesIn(requests') \subseteq QueriesIn(requests) \cup {query}
  <2>1. [code |-> code, query |-> query] \in Frame
    BY DEF Frame
  <2> QED
    BY <1>w, <2>1, QueriesOfAppend DEF Types, WriteFrame
<1>x. QueryCommand \in {"GET_HISTORIAN_ALARMS", "GET_HISTORIAN_VARIABLES"}
  BY DEF QueryCommand
<1>f. ASSUME Fresh', UNCHANGED <<command, cmd, tab>>, pc' = pc PROVE Fresh
  BY <1>f DEF Fresh, QueryCommand
<1>0. CASE UNCHANGED <<request, requests, answers, events, asked, shown, pc, command, cmd, tab>>
  <2>1. Pending' \subseteq Pending
    BY <1>0, <1>f DEF Pending, QueriesIn
  <2> QED
    BY <1>0, <2>1 DEF Moves
<1>1. CASE User
  BY <1>0, <1>1 DEF User, ClickConnect, CloseDialog, ClickAdd, ClickClear, ClickQuery, ClickSelect,
              ClickDeselect, ClickStart, ClickStop, ClickChoose, workerVars, clientVars, netVars, serverVars,
              threadVars
<1>2. CASE Deliver
  <2>1. UNCHANGED <<requests, answers, request, asked, pc, command, cmd, tab>>
    BY <1>2 DEF Deliver, clientVars, netVars, serverVars
  <2>2. Pending' \subseteq Pending
    BY <1>f, <2>1 DEF Pending, QueriesIn
  <2> QED
    BY <1>2, <2>1, <2>2 DEF Moves
<1>3. CASE Calls
  <2>1. ~CallQuery
    BY DEF CallQuery
  <2>2. UNCHANGED <<request, requests, answers, events, asked, shown, cmd, tab>>
    BY <1>3, <2>1 DEF Calls, CallConnect, CallSetMode, CallVarsConfigured, CallDisconnect,
        CallDescribe, CallLook, CallStart, CallStop, ConnectToServer, Give, netVars, serverVars
  <2>3. \/ UNCHANGED <<pc, command>>
        \/ /\ command' \in {"CONNECT", "SET_MODE", "DISCONNECT", "GET_REALTIME",
                            "STOP_REALTIME_SENDING"}
           /\ pc' # pc => pc' # "serving"
    BY <1>3, <2>1 DEF Calls, CallConnect, CallSetMode, CallVarsConfigured, CallDisconnect,
        CallDescribe, CallLook, CallStart, CallStop, ConnectToServer, Give
  <2>4. Fresh' => Fresh
    BY <1>x, <2>2, <2>3 DEF Fresh, QueryCommand
  <2>5. Pending' \subseteq Pending
    BY <2>2, <2>4 DEF Pending, QueriesIn
  <2> QED
    BY <2>2, <2>5 DEF Moves
<1>4. CASE UNCHANGED viewVars /\ (RunStarts \/ Wait \/ RunEnds \/ TakeCommand)
  <2>1. UNCHANGED <<request, asked, shown, tab, command>> /\ (Fresh' => Fresh)
    BY <1>4 DEF viewVars, RunStarts, Wait, RunEnds, TakeCommand, Fresh, QueryCommand
  <2>2. CASE AskHello /\ UNCHANGED events
    <3>1. requests' = <<PlainFrame("HELLO")>> /\ answers' = << >>
      BY <2>2 DEF AskHello
    <3>2. QueriesIn(requests') = {NoQuery} /\ QueriesIn(answers') = {}
      BY <3>1 DEF QueriesIn, PlainFrame
    <3>3. Pending' \subseteq Pending \cup {NoQuery}
      BY <2>1, <3>2 DEF Pending
    <3> QED
      BY <2>1, <2>2, <3>3 DEF Moves
  <2>3. CASE UNCHANGED <<requests, answers>>
    <3>1. Pending' \subseteq Pending
      BY <2>1, <2>3 DEF Pending, QueriesIn
    <3>2. CASE events' = events
      BY <2>1, <3>1, <3>2 DEF Moves
    <3>3. CASE events' = Append(events, [signal |-> "refused", query |-> NoQuery])
      <4>1. \E e : Queues(e) /\ e.query = NoQuery
        BY <1>e, <1>q, <2>1, <3>3
      <4> QED
        BY <2>1, <3>1, <4>1 DEF Moves
    <3> QED
      BY <1>4, <2>2, <3>2, <3>3 DEF RunStarts, Wait, RunEnds, TakeCommand
  <2> QED
    BY <1>4, <2>2, <2>3
    DEF RunStarts, Wait, RunEnds, TakeCommand, clientVars, netVars, serverVars
<1>5. CASE UNCHANGED viewVars /\ BeginCommand
  <2>1. /\ UNCHANGED <<answers, request, asked, shown>>
        /\ pc = "serving" /\ pc' \in {"calling", "top"}
    BY <1>5 DEF viewVars, BeginCommand, Asks, Ask, AskStop, GetRealtimeVariables, clientVars,
                netVars, serverVars
  <2>2. ~Fresh'
    BY <2>1 DEF Fresh
  <2>3. QueriesIn(requests') \subseteq Pending \cup {NoQuery}
    <3>1. \/ requests' = requests
          \/ \E code \in Code : WriteFrame(code, NoQuery)
          \/ cmd = QueryCommand /\ \E code \in Code : WriteFrame(code, request)
      <4>1. {ModeCommand, QueryCommand, "RESET_MODE", "STOP_REALTIME_SENDING",
             "GET_REALTIME_VARIABLES"} \subseteq Code
        BY DEF ModeCommand, QueryCommand, Code
      <4> QED
        BY <1>5, <4>1
        DEF BeginCommand, Asks, Ask, AskStop, GetRealtimeVariables, clientVars, netVars, serverVars
    <3>2. \/ QueriesIn(requests') \subseteq QueriesIn(requests) \cup {NoQuery}
          \/ /\ cmd = QueryCommand
             /\ QueriesIn(requests') \subseteq QueriesIn(requests) \cup {request}
      BY <1>q, <1>w, <3>1
    <3> QED
      BY <2>1, <3>2 DEF Pending, Fresh
  <2>4. Pending' \subseteq Pending \cup {NoQuery}
    BY <2>1, <2>2, <2>3 DEF Pending, QueriesIn
  <2>5. events' = events \/ events' = Append(events, [signal |-> "result", query |-> NoQuery])
    BY <1>5 DEF BeginCommand, Asks
  <2>6. events' = events \/ \E e : Queues(e) /\ e.query = NoQuery
    BY <1>e, <1>q, <2>1, <2>5
  <2> QED
    BY <2>1, <2>4, <2>6 DEF Moves
<1>6. CASE UNCHANGED viewVars /\ Returns
  <2>1. PICK f \in Readable : HelloReturns(f) \/ QueryReturns(f) \/ ResetReturns(f)
           \/ DisconnectReturns(f) \/ ModeReturns(f) \/ StopReturns(f)
    BY <1>6 DEF Returns
  <2>2. /\ ReadFrame(f) /\ UNCHANGED <<request, asked, shown>>
        /\ pc' \notin {"awoken", "serving"}
    BY <1>6, <2>1 DEF viewVars, HelloReturns, QueryReturns, ResetReturns, DisconnectReturns,
                      ModeReturns, StopReturns
  <2>3. /\ f.query \in QueriesIn(answers) \cup {NoQuery}
        /\ QueriesIn(answers') \subseteq QueriesIn(answers)
    BY <2>2, QueriesRead
  <2>4. QueriesIn(requests') \subseteq QueriesIn(requests) \cup {NoQuery}
    <3>1. requests' = requests \/ WriteFrame("DISCONNECT", NoQuery)
      BY <2>1 DEF HelloReturns, QueryReturns, ResetReturns, DisconnectReturns, ModeReturns,
                  StopReturns, EndAnswered, QueryAnswered, ResetAnswered, ModeAnswered
    <3>2. "DISCONNECT" \in Code
      BY DEF Code
    <3> QED
      BY <1>q, <1>w, <3>1, <3>2
  <2>5. Pending' \subseteq Pending \cup {NoQuery}
    BY <2>2, <2>3, <2>4 DEF Pending, Fresh
  <2>6. f.query \in Query
    BY <2>2, FrameRead DEF Frame
  <2>7. \/ events' = events
        \/ events' = Append(events, [signal |-> "connected", query |-> NoQuery])
        \/ events' = Append(events, [signal |-> "refused", query |-> NoQuery])
        \/ /\ events' = Append(events, [signal |-> "result", query |-> f.query])
           /\ call' = "none" /\ pc' = "top"
    BY <2>1 DEF HelloReturns, QueryReturns, ResetReturns, DisconnectReturns, ModeReturns, StopReturns,
                QueryAnswered
  <2>8. \/ events' = events
        \/ \E e : Queues(e) /\ e.query = NoQuery
        \/ call' = "none" /\ pc' = "top" /\ \E e : Queues(e) /\ e.query = f.query
    BY <1>e, <1>q, <2>2, <2>6, <2>7
  <2>9. \/ events' = events
        \/ \E e : Queues(e) /\ e.query = NoQuery
        \/ /\ \E e : Queues(e) /\ e.query \in QueriesIn(answers)
          /\ call' = "none" /\ pc' = "top"
    BY <2>3, <2>8
  <2> QED
    BY <2>2, <2>5, <2>9 DEF Moves
<1>7. CASE UNCHANGED threadVars /\ UNCHANGED viewVars
  <2>1. UNCHANGED <<request, events, asked, shown, pc, command, cmd, tab>>
    BY <1>7 DEF threadVars, viewVars
  <2>a. ASSUME QueriesIn(requests') \subseteq QueriesIn(requests),
               QueriesIn(answers') \subseteq QueriesIn(answers) \cup QueriesIn(requests) \cup {NoQuery}
        PROVE  Moves
    <3>1. Pending' \subseteq Pending \cup {NoQuery}
      BY <1>f, <2>1, <2>a DEF Pending
    <3> QED
      BY <2>1, <3>1 DEF Moves
  <2>2. CASE MtReads
    <3>1. PICK f \in Readable : ReadFrame(f)
      BY <2>2 DEF MtReads
    <3>2. QueriesIn(answers') \subseteq QueriesIn(answers) /\ requests' = requests
      BY <2>2, <3>1, QueriesRead DEF MtReads, serverVars
    <3> QED
      BY <2>a, <3>2
  <2>3. CASE Push
    <3>1. requests' = requests
          /\ answers' = Append(answers, PlainFrame("REALTIME_VARIABLES_RESPONSE"))
      BY <2>3 DEF Push
    <3>2. /\ PlainFrame("REALTIME_VARIABLES_RESPONSE") \in Frame
          /\ PlainFrame("REALTIME_VARIABLES_RESPONSE").query = NoQuery
      BY DEF PlainFrame, NoQuery, Frame, Query, Code
    <3>3. QueriesIn(answers') = QueriesIn(answers) \cup {NoQuery}
      BY <3>1, <3>2, QueriesOfAppend DEF Types
    <3> QED
      BY <2>a, <3>1, <3>3
  <2>4. CASE Drop
    <3>1. requests' = << >> /\ answers' = answers
      BY <2>4 DEF Drop
    <3>2. QueriesIn(requests') = {}
      BY <3>1 DEF QueriesIn
    <3> QED
      BY <2>a, <3>1, <3>2
  <2>5. ASSUME NEW room, Serve(room) PROVE Moves
    BY <2>a, <2>5, QueriesServed
  <2>6. CASE UNCHANGED vars
    BY <1>0, <2>6 DEF vars, workerVars, clientVars, netVars, serverVars, threadVars, viewVars
  <2> QED
    BY <1>1, <1>2, <1>3, <1>4, <1>5, <1>6, <2>2, <2>3, <2>4, <2>5, <2>6, Steps, Zenon
<1>8. CASE UNCHANGED vars
  BY <1>7, <1>8 DEF vars, workerVars
<1> QED
  BY <1>1, <1>2, <1>3, <1>4, <1>5, <1>6, <1>7, <1>8, Steps, Zenon

(* The step that makes one. *)
LEMMA QueryMade ==
    ASSUME Types, Genuine, gui = "query", CallQuery
    PROVE  /\ UNCHANGED <<requests, answers, events, shown, tab>> /\ gui' = "idle"
           /\ tab # "realtime"
           /\ asked' = Append(asked, draft) /\ request' = [n |-> Len(asked) + 1, ranges |-> draft]
           /\ \A q : Known(q) => Known(q)'
           /\ Known(request)' /\ request' # NoQuery
           /\ Pending' \subseteq Pending \cup {request'}
<1>1. /\ UNCHANGED <<requests, answers, events, shown, tab>> /\ gui' = "idle"
      /\ asked' = Append(asked, draft) /\ request' = [n |-> Len(asked'), ranges |-> draft]
  BY DEF CallQuery, Give, netVars, serverVars
<1>2. tab # "realtime"
  BY DEF Genuine
<1>3. /\ Len(asked') = Len(asked) + 1 /\ Len(asked) \in Nat /\ asked'[Len(asked) + 1] = draft
      /\ \A i \in 1 .. Len(asked) : asked'[i] = asked[i]
  BY <1>1 DEF Types
<1>4. request' = [n |-> Len(asked) + 1, ranges |-> draft]
  BY <1>1, <1>3
<1>5. \A q : Known(q) => Known(q)'
  BY <1>3 DEF Known
<1>6. Known(request)' /\ request' # NoQuery
  <2>1. request'.n = Len(asked) + 1 /\ request'.ranges = draft /\ NoQuery.n = 0
    BY <1>4 DEF NoQuery
  <2> QED
    BY <1>3, <2>1 DEF Known
<1>7. Pending' \subseteq Pending \cup {request'}
  BY <1>1 DEF Pending, QueriesIn
<1> QED
  BY <1>1, <1>2, <1>4, <1>5, <1>6, <1>7

LEMMA Delivered ==
    ASSUME Types, Deliver
    PROVE  /\ events # << >> /\ events' = Tail(events)
           /\ Head(events).query \in QueriesIn(events) /\ Head(events).query \in Query
           /\ \/ shown' = shown
              \/ Head(events).query # NoQuery /\ shown' = Append(shown, Head(events).query)
<1>1. Head(events) \in Signal
  BY DEF Deliver, Types
<1> QED
  BY <1>1, QueriesOfTail DEF Deliver, Types, Signal

LEMMA StepGenuine ==
    ASSUME Types, Genuine, [Next]_vars
    PROVE  Genuine'
<1>1. CASE gui = "query" /\ CallQuery
  <2>1. /\ UNCHANGED <<requests, answers, events, shown, tab>> /\ gui' = "idle"
        /\ tab # "realtime"
        /\ \A q : Known(q) => Known(q)'
        /\ Known(request)'
        /\ Pending' \subseteq Pending \cup {request'}
    BY <1>1, QueryMade
  <2>2. Anywhere' \subseteq Anywhere \cup {request'}
    BY <2>1 DEF Anywhere, QueriesIn
  <2>3. \A q \in Anywhere' : Fine(q)'
    BY <2>1, <2>2 DEF Genuine, Fine
  <2>4. shown' \in Seq(Query) /\ \A i \in DOMAIN shown' : Known(shown[i])'
    <3>1. \A i \in DOMAIN shown' : Known(shown[i]) /\ shown'[i] = shown[i]
      BY <2>1 DEF Genuine
    <3> QED
      BY <2>1, <3>1 DEF Genuine, Known
  <2> QED
    BY <2>1, <2>3, <2>4 DEF Genuine
<1>2. CASE ~(gui = "query" /\ CallQuery)
  <2>1. Moves
    BY <1>2, QueriesMove
  <2>2. QueriesIn(events') \subseteq QueriesIn(events) \cup QueriesIn(answers) \cup {NoQuery}
    <3>1. ASSUME NEW e, Queues(e)
          PROVE  QueriesIn(events') = QueriesIn(events) \cup {e.query}
      BY <3>1, QueriesOfAppend DEF Queues, Types
    <3>2. CASE Deliver
      BY <3>2, Delivered, QueriesOfTail DEF Types
    <3> QED
      BY <2>1, <3>1, <3>2 DEF Moves
  <2>3. Anywhere' \subseteq Anywhere \cup {NoQuery} /\ asked' = asked
    BY <2>1, <2>2 DEF Moves, Anywhere, Pending
  <2>4. \A q : Known(q)' <=> Known(q)
    BY <2>3 DEF Known
  <2>5. \A q \in Anywhere' : Fine(q)'
    BY <2>3, <2>4 DEF Genuine, Fine
  <2>6. shown' \in Seq(Query) /\ \A i \in DOMAIN shown' : Known(shown'[i])
    <3>1. CASE shown' = shown
      BY <3>1 DEF Genuine
    <3>2. ASSUME NEW q \in Query, Known(q), shown' = Append(shown, q)
          PROVE  shown' \in Seq(Query) /\ \A i \in DOMAIN shown' : Known(shown'[i])
      <4>1. /\ shown' \in Seq(Query) /\ Len(shown) \in Nat /\ DOMAIN shown = 1 .. Len(shown)
            /\ DOMAIN shown' = 1 .. Len(shown) + 1 /\ shown'[Len(shown) + 1] = q
            /\ \A i \in DOMAIN shown : shown'[i] = shown[i]
        BY <3>2 DEF Genuine
      <4>2. \A i \in DOMAIN shown' : i \in DOMAIN shown \/ i = Len(shown) + 1
        BY <4>1
      <4> QED
        BY <3>2, <4>1, <4>2 DEF Genuine
    <3>3. CASE Deliver /\ shown' # shown
      <4> DEFINE q == Head(events).query
      <4>1. q \in Query /\ q # NoQuery /\ q \in Anywhere /\ shown' = Append(shown, q)
        BY <3>3, Delivered DEF Anywhere
      <4>2. Known(q)
        BY <4>1 DEF Genuine, Fine
      <4> QED
        BY <3>2, <4>1, <4>2
    <3> QED
      BY <2>1, <3>1, <3>3 DEF Moves, Queues
  <2>7. tab' = "realtime" => asked' = << >> /\ gui' # "query"
    <3>1. tab' = tab
      BY SameTab
    <3>2. gui' = "query" => gui = "query" \/ tab # "realtime"
      BY Steps DEF User, ClickConnect, CloseDialog, ClickAdd, ClickClear, ClickQuery, ClickSelect,
               ClickDeselect, ClickStart, ClickStop, ClickChoose, Deliver, Calls, CallConnect, CallSetMode,
               CallVarsConfigured, CallDisconnect, CallQuery, CallDescribe, CallLook, CallStart, CallStop,
               vars, viewVars
    <3> QED
      BY <2>3, <3>1, <3>2 DEF Genuine
  <2> QED
    BY <2>4, <2>5, <2>6, <2>7 DEF Genuine
<1> QED
  BY <1>1, <1>2

-----------------------------------------------------------------------------
(***************************************************************************)
(* Results are queued and shown in the order of the queries: a query that  *)
(* is still to be answered was made after all that were, since nothing of  *)
(* an earlier one is under way when the thread sends it.                   *)
(***************************************************************************)
Above(q) ==
    /\ \A i \in DOMAIN shown : shown[i].n < q.n
    /\ \A i \in DOMAIN events : events[i].query = NoQuery \/ events[i].query.n < q.n
Ordered ==
    /\ \A i, j \in DOMAIN shown : i < j => shown[i].n < shown[j].n
    /\ \A i, j \in DOMAIN events :
          \/ ~(i < j) \/ events[i].query = NoQuery \/ events[j].query = NoQuery
          \/ events[i].query.n < events[j].query.n
    /\ \A i \in DOMAIN shown, j \in DOMAIN events :
          events[j].query = NoQuery \/ shown[i].n < events[j].query.n
    /\ \A q \in Pending : q = NoQuery \/ Above(q)

LEMMA OrderQueued ==
    ASSUME Types, Ordered, NEW e, Queues(e), e.query = NoQuery \/ Above(e.query),
           \A q \in Pending' : q = NoQuery \/ (q \in Pending /\ e.query = NoQuery)
    PROVE  Ordered'
<1>1. /\ DOMAIN events = 1 .. Len(events) /\ Len(events) \in Nat
      /\ DOMAIN events' = 1 .. Len(events) + 1 /\ events'[Len(events) + 1] = e
      /\ \A i \in DOMAIN events : events'[i] = events[i]
      /\ shown' = shown
  BY DEF Queues, Types
<1>2. /\ DOMAIN events' = DOMAIN events \cup {Len(events) + 1}
      /\ \A i \in DOMAIN events : ~(Len(events) + 1 < i)
  BY <1>1
<1>3. \A i, j \in DOMAIN events' :
          \/ ~(i < j) \/ events'[i].query = NoQuery \/ events'[j].query = NoQuery
          \/ events'[i].query.n < events'[j].query.n
  <2> SUFFICES ASSUME NEW i \in DOMAIN events', NEW j \in DOMAIN events', i < j,
                      events'[i].query # NoQuery, events'[j].query # NoQuery
               PROVE  events'[i].query.n < events'[j].query.n
    OBVIOUS
  <2>1. i \in DOMAIN events
    BY <1>1
  <2>2. CASE j \in DOMAIN events
    BY <1>1, <2>1, <2>2 DEF Ordered
  <2>3. CASE j = Len(events) + 1
    BY <1>1, <2>1, <2>3 DEF Above
  <2> QED
    BY <1>2, <2>2, <2>3
<1>4. \A i \in DOMAIN shown', j \in DOMAIN events' :
          events'[j].query = NoQuery \/ shown'[i].n < events'[j].query.n
  BY <1>1, <1>2 DEF Ordered, Above
<1>5. \A q \in Pending' : q = NoQuery \/ Above(q)'
  BY <1>1, <1>2 DEF Ordered, Above
<1> QED
  BY <1>1, <1>3, <1>4, <1>5 DEF Ordered

LEMMA OrderDelivered ==
    ASSUME Types, Genuine, Ordered, Deliver, Pending' \subseteq Pending \cup {NoQuery}
    PROVE  Ordered'
<1> DEFINE e == Head(events).query
<1>1. /\ events # << >> /\ events' = Tail(events)
      /\ \/ shown' = shown
         \/ e # NoQuery /\ shown' = Append(shown, e)
      /\ e \in Query
  BY Delivered
<1>2. /\ DOMAIN events = 1 .. Len(events) /\ Len(events) \in Nat \ {0}
      /\ DOMAIN events' = 1 .. Len(events) - 1 /\ e = events[1].query
      /\ \A i \in DOMAIN events' : events'[i] = events[i + 1]
  BY <1>1 DEF Types
<1> HIDE DEF e
<1>3. /\ 1 \in DOMAIN events
      /\ \A i \in DOMAIN events' : i + 1 \in DOMAIN events /\ 1 < i + 1
      /\ \A i, j \in DOMAIN events' : i < j => i + 1 < j + 1
  BY <1>2
<1>4. \A i, j \in DOMAIN events' :
          \/ ~(i < j) \/ events'[i].query = NoQuery \/ events'[j].query = NoQuery
          \/ events'[i].query.n < events'[j].query.n
  BY <1>2, <1>3 DEF Ordered
<1>5. CASE shown' = shown
  <2>1. \A q : Above(q) => Above(q)'
    BY <1>2, <1>3, <1>5 DEF Above
  <2>2. \A i \in DOMAIN shown', j \in DOMAIN events' :
          events'[j].query = NoQuery \/ shown'[i].n < events'[j].query.n
    BY <1>2, <1>3, <1>5 DEF Ordered
  <2>3. \A i, j \in DOMAIN shown' : i < j => shown'[i].n < shown'[j].n
    BY <1>5 DEF Ordered
  <2>4. \A q \in Pending' : q = NoQuery \/ Above(q)'
    BY <2>1 DEF Ordered
  <2> QED
    BY <1>4, <2>2, <2>3, <2>4 DEF Ordered
<1>6. CASE e # NoQuery /\ shown' = Append(shown, e)
  <2>1. /\ DOMAIN shown = 1 .. Len(shown) /\ Len(shown) \in Nat
        /\ DOMAIN shown' = 1 .. Len(shown) + 1 /\ shown'[Len(shown) + 1] = e
        /\ \A i \in DOMAIN shown : shown'[i] = shown[i]
    BY <1>1, <1>6 DEF Genuine
  <2>2. /\ DOMAIN shown' = DOMAIN shown \cup {Len(shown) + 1}
        /\ \A i, j \in DOMAIN shown' : i < j => i \in DOMAIN shown
    BY <2>1
  <2>3. \A q : Above(q) => Above(q)'
    BY <1>2, <1>3, <1>6, <2>1, <2>2 DEF Above
  <2>4. \A j \in DOMAIN events' : events'[j].query = NoQuery \/ e.n < events'[j].query.n
    BY <1>2, <1>3, <1>6 DEF Ordered
  <2>5. \A i \in DOMAIN shown', j \in DOMAIN events' :
          events'[j].query = NoQuery \/ shown'[i].n < events'[j].query.n
    <3>1. \A i \in DOMAIN shown, j \in DOMAIN events' :
             events'[j].query = NoQuery \/ shown[i].n < events'[j].query.n
      BY <1>2, <1>3 DEF Ordered
    <3> QED
      BY <2>1, <2>2, <2>4, <3>1
  <2>6. \A i, j \in DOMAIN shown' : i < j => shown'[i].n < shown'[j].n
    <3>1. \A i \in DOMAIN shown : shown[i].n < e.n
      BY <1>2, <1>3, <1>6 DEF Ordered
    <3> SUFFICES ASSUME NEW i \in DOMAIN shown', NEW j \in DOMAIN shown', i < j
                 PROVE  shown'[i].n < shown'[j].n
      OBVIOUS
    <3>2. i \in DOMAIN shown
      BY <2>2
    <3>3. CASE j \in DOMAIN shown
      BY <2>1, <3>2, <3>3 DEF Ordered
    <3>4. CASE j = Len(shown) + 1
      BY <2>1, <3>1, <3>2, <3>4
    <3> QED
      BY <2>2, <3>3, <3>4
  <2>7. \A q \in Pending' : q = NoQuery \/ Above(q)'
    BY <2>3 DEF Ordered
  <2> QED
    BY <1>4, <2>5, <2>6, <2>7 DEF Ordered
<1> QED
  BY <1>1, <1>5, <1>6

LEMMA StepOrdered ==
    ASSUME Types, Genuine, Genuine', LoneInv', Types', Ordered, [Next]_vars
    PROVE  Ordered'
<1>1. CASE gui = "query" /\ CallQuery
  <2>1. /\ UNCHANGED <<events, shown>>
        /\ request' = [n |-> Len(asked) + 1, ranges |-> draft]
        /\ Pending' \subseteq Pending \cup {request'}
    BY <1>1, QueryMade
  <2>2. Len(asked) \in Nat /\ request'.n = Len(asked) + 1
    BY <2>1 DEF Types
  <2>3. \A q : Known(q) => q.n < request'.n
    BY <2>2 DEF Known
  <2>4. \A i \in DOMAIN shown : Known(shown[i])
    BY DEF Genuine
  <2>5. \A i \in DOMAIN events : events[i].query = NoQuery \/ Known(events[i].query)
    BY DEF Genuine, Anywhere, QueriesIn, Fine
  <2>6. Above(request')
    BY <2>3, <2>4, <2>5 DEF Above
  <2>7. \A q : Above(q) => Above(q)'
    BY <2>1 DEF Above
  <2>8. \A q \in Pending' : q = NoQuery \/ Above(q)
    BY <2>1, <2>6 DEF Ordered
  <2>9. \A q \in Pending' : q = NoQuery \/ Above(q)'
    BY <2>7, <2>8
  <2> QED
    BY <2>1, <2>9 DEF Ordered
<1>2. CASE ~(gui = "query" /\ CallQuery)
  <2>1. Moves
    BY <1>2, QueriesMove
  <2>2. Pending' \subseteq Pending \cup {NoQuery}
    BY <2>1 DEF Moves
  <2>3. CASE UNCHANGED <<events, shown>>
    <3>1. \A q : Above(q) => Above(q)'
      BY <2>3 DEF Above
    <3>2. \A q \in Pending' : q = NoQuery \/ Above(q)'
      BY <2>2, <3>1 DEF Ordered
    <3> QED
      BY <2>3, <3>2 DEF Ordered
  <2>4. ASSUME NEW e, Queues(e), e.query = NoQuery PROVE Ordered'
    BY <2>2, <2>4, OrderQueued
  <2>5. ASSUME NEW e, Queues(e), e.query \in QueriesIn(answers), call' = "none", pc' = "top"
        PROVE  Ordered'
    <3>1. e.query \in Pending
      BY <2>5 DEF Pending
    <3>2. e.query = NoQuery \/ Above(e.query)
      BY <3>1 DEF Ordered
    <3>3. CASE tab' = "realtime"
      <4>1. asked' = << >> /\ asked' = asked
        BY <2>1, <3>3 DEF Genuine, Moves
      <4>2. ~Known(e.query)
        BY <4>1 DEF Known
      <4>3. e.query = NoQuery
        BY <3>1, <4>2 DEF Genuine, Anywhere, Fine
      <4> QED
        BY <2>4, <2>5, <4>3
    <3>4. CASE tab' # "realtime"
      <4>1. Len(requests') + Len(answers') <= 0
        BY <2>5, <3>4 DEF LoneInv, Lone
      <4>2. requests' = << >> /\ answers' = << >>
        BY <4>1 DEF Types
      <4>3. Pending' = {}
        BY <2>5, <4>2 DEF Pending, QueriesIn, Fresh
      <4> QED
        BY <2>5, <3>2, <4>3, OrderQueued
    <3> QED
      BY <3>3, <3>4
  <2>6. CASE Deliver
    BY <2>2, <2>6, OrderDelivered
  <2> QED
    BY <2>1, <2>3, <2>4, <2>5, <2>6 DEF Moves
<1> QED
  BY <1>1, <1>2

LEMMA AlwaysOrdered == Spec => [](Genuine /\ Ordered)
<1>1. Init => Genuine /\ Ordered
  <2> SUFFICES ASSUME Init PROVE Genuine /\ Ordered
    OBVIOUS
  <2>1. /\ requests = << >> /\ answers = << >> /\ events = << >> /\ shown = << >> /\ asked = << >>
        /\ request = NoQuery /\ gui = "idle"
    BY DEF Init, WorkerInit, ClientInit
  <2>2. /\ QueriesIn(requests) = {} /\ QueriesIn(answers) = {} /\ QueriesIn(events) = {}
    BY <2>1 DEF QueriesIn
  <2>3. Pending \subseteq {NoQuery} /\ Anywhere = {NoQuery}
    BY <2>1, <2>2 DEF Pending, Anywhere
  <2> QED
    BY <2>1, <2>3 DEF Genuine, Ordered, Fine
<1>2. ClientInv /\ ClientInv' /\ Genuine /\ Ordered /\ [Next]_vars => (Genuine /\ Ordered)'
  BY StepGenuine, StepOrdered DEF ClientInv
<1> QED
  BY AlwaysClient, <1>1, <1>2, PTL DEF Spec

(* Historian and alarm queries: what AHPClient::getHistorianVariables and  *)
(* getHistorianAlarms return is shown for the query it answers, as the     *)
(* user put it together, in the order of the queries and none twice - for  *)
(* any number of queries and connections, whatever commands are lost.      *)
THEOREM AlwaysShownAsAsked == Spec => []ShownAsAsked
<1>1. Genuine /\ Ordered => ShownAsAsked
  BY DEF Genuine, Ordered, Known, ShownAsAsked
<1> QED
  BY AlwaysOrdered, <1>1, PTL
-----------------------------------------------------------------------------
(***************************************************************************)
(* The client without trouble.  The session of a tab is at any time in one *)
(* of seven phases, from the HELLO to the end of run(); in each of them    *)
(* one command at most is on its way - from the slot that gives it, over   *)
(* m_command and its copy, to the request and the answer - and where it is *)
(* says in which mode the server's session is.  Besides the answer only    *)
(* real-time frames can be in the channel.                                 *)
(***************************************************************************)
Pushed     == "REALTIME_VARIABLES_RESPONSE"
All(fs, c) == \A i \in DOMAIN fs : fs[i].code = c
With(fs, a) ==
    \E k \in DOMAIN fs :
        fs[k].code = a /\ \A i \in DOMAIN fs : i = k \/ fs[i].code = Pushed
OnlyPushed == All(answers, Pushed)
OnlyGets   == All(requests, "GET_REALTIME_VARIABLES")

OwnMode == IF tab = "realtime" THEN "realtime" ELSE "historian"
QueryAnswer == IF tab = "alarms" THEN "HISTORIAN_ALARMS_RESPONSE" ELSE "HISTORIAN_VARIABLES_RESPONSE"

Resting == pc \in {"top", "waiting"}
Under(c) == (pc = "awoken" /\ command = c) \/ (pc = "serving" /\ cmd = c)
Calling(c) == pc = "calling" /\ call = c /\ ~reader

Ready(m) == link = "up" /\ mode = m /\ requests = << >> /\ OnlyPushed /\ ~reader
Waits(c, m) ==
    /\ link = "up" /\ mode = m /\ OnlyPushed
    /\ Len(requests) = 1 /\ Head(requests).code = c
Answer(a) == requests = << >> /\ With(answers, a)
Exchange(c, before, after, a) ==
    /\ Calling(c)
    /\ \/ Waits(c, before)
       \/ link = "up" /\ mode = after /\ Answer(a)

Away == pc \in {"idle", "starting"} /\ state = "DISCONNECT" /\ ~reader
Greets ==
    /\ state = "DISCONNECT"
    /\ \/ Exchange("HELLO", "begin", "connected", "ACCEPT")
       \/ Calling("HELLO") /\ Answer("REJECT")
    /\ ~known
Greeted ==
    /\ Has(events) \/ gui = "set_mode"
    /\ state = "DISCONNECT" /\ ~known /\ Resting /\ Ready("connected")
SetsMode ==
    /\ gui = "vars" /\ state = "DISCONNECT"
    /\ \/ ~known /\ Under("SET_MODE") /\ Ready("connected")
       \/ ~known /\ Exchange(ModeCommand, "connected", OwnMode, "MODE_SUCCESSFULL")
       \/ known /\ Resting /\ Ready(OwnMode)
Queries ==
    /\ state = "CONNECT" /\ known /\ tab # "realtime"
    /\ \/ Resting /\ Ready("historian")
       \/ Under(QueryCommand) /\ Ready("historian")
       \/ Exchange(QueryCommand, "historian", "historian", QueryAnswer)
Stops ==
    /\ Calling("STOP_REALTIME_SENDING")
    /\ \/ /\ OnlyPushed
          /\ \A i \in DOMAIN requests :
                \/ requests[i].code = "GET_REALTIME_VARIABLES"
                \/ i = Len(requests) /\ requests[i].code = "STOP_REALTIME_SENDING"
       \/ mode = "realtime" /\ Answer("ACCEPT")
Receives ==
    /\ state = "CONNECT" /\ known /\ tab = "realtime"
    /\ link = "up" /\ mode \in {"realtime", "sending"}
    /\ \/ Resting /\ "connect" \in buttons /\ Ready("realtime")
       \/ Resting /\ "connect" \notin buttons /\ OnlyPushed /\ OnlyGets
       \/ Under("GET_REALTIME") /\ "connect" \notin buttons /\ OnlyPushed /\ OnlyGets
       \/ Under("STOP_REALTIME_SENDING") /\ OnlyPushed /\ OnlyGets
       \/ Stops
Leaves ==
    /\ state = "DISCONNECT" /\ ~Has(events) /\ gui \notin {"set_mode", "vars"}
    /\ \/ Under("DISCONNECT") /\ Ready(OwnMode)
       \/ Exchange("RESET_MODE", OwnMode, "connected", "ACCEPT")
       \/ Calling("DISCONNECT") /\ Waits("DISCONNECT", "connected")
       \/ Calling("DISCONNECT") /\ Answer("ACCEPT")
       \/ pc = "top" /\ quit /\ ~reader

Phase == Away \/ Greets \/ Greeted \/ SetsMode \/ Queries \/ Receives \/ Leaves
Calm  == trouble = {} => alive /\ ~cut /\ Phase

(* The buttons follow the state of the tab, in trouble too. *)
Window ==
    /\ state \in {"CONNECT", "DISCONNECT"}
    /\ state = "DISCONNECT" => "connect" \in buttons
    /\ "connect" \in buttons => "stop" \notin buttons /\ gui \notin {"start", "stop"}
    /\ gui = "stop" => "stop" \in buttons
    /\ gui = "disconnect" => "connect" \in buttons
    /\ gui = "query" => state = "CONNECT" /\ tab # "realtime"
    /\ gui \in {"start", "stop"} => state = "CONNECT" /\ tab = "realtime"

(* Sequences of frames: writing a request, reading an answer, pushing.     *)
LEMMA AllOfTail ==
    ASSUME NEW fs \in Seq(Frame), fs # << >>
    PROVE  /\ Tail(fs) \in Seq(Frame)
           /\ \A c : All(fs, c) => Head(fs).code = c /\ All(Tail(fs), c)
<1> DEFINE r == Tail(fs)
<1>1. /\ DOMAIN fs = 1 .. Len(fs) /\ Len(fs) \in Nat \ {0} /\ DOMAIN r = 1 .. Len(fs) - 1
      /\ \A i \in DOMAIN r : r[i] = fs[i + 1]
      /\ Head(fs) = fs[1] /\ r \in Seq(Frame)
  OBVIOUS
<1> HIDE DEF r
<1>2. 1 \in DOMAIN fs /\ \A i \in DOMAIN r : i + 1 \in DOMAIN fs
  BY <1>1
<1>3. \A c : All(fs, c) => Head(fs).code = c /\ All(r, c)
  BY <1>1, <1>2, Zenon DEF All
<1> QED
  BY <1>1, <1>3 DEF r

LEMMA WithOfTail ==
    ASSUME NEW fs \in Seq(Frame), NEW a, With(fs, a)
    PROVE  /\ fs # << >>
           /\ Head(fs).code = Pushed \/ (Head(fs).code = a /\ All(Tail(fs), Pushed))
<1>1. PICK k \in DOMAIN fs : fs[k].code = a /\ \A i \in DOMAIN fs : i = k \/ fs[i].code = Pushed
  BY DEF With
<1>2. fs # << >>
  BY <1>1
<1> DEFINE r == Tail(fs)
<1>3. /\ DOMAIN fs = 1 .. Len(fs) /\ Len(fs) \in Nat \ {0} /\ DOMAIN r = 1 .. Len(fs) - 1
      /\ \A i \in DOMAIN r : r[i] = fs[i + 1]
      /\ Head(fs) = fs[1]
  BY <1>2
<1> HIDE DEF r
<1>4. 1 \in DOMAIN fs /\ \A i \in DOMAIN r : i + 1 \in DOMAIN fs /\ i + 1 # 1
  BY <1>3
<1>5. k = 1 => Head(fs).code = a /\ All(r, Pushed)
  BY <1>1, <1>3, <1>4 DEF All
<1>6. k # 1 => Head(fs).code = Pushed
  BY <1>1, <1>3, <1>4
<1> QED
  BY <1>2, <1>5, <1>6 DEF r

LEMMA FrameAdded ==
    ASSUME NEW fs \in Seq(Frame), NEW e \in Frame
    PROVE  /\ Append(fs, e) \in Seq(Frame) /\ Len(Append(fs, e)) = Len(fs) + 1
           /\ Append(fs, e)[Len(fs) + 1] = e
           /\ \A i \in DOMAIN Append(fs, e) :
                 \/ i \in DOMAIN fs /\ Append(fs, e)[i] = fs[i]
                 \/ i = Len(fs) + 1
           /\ \A c : All(fs, c) /\ e.code = c => All(Append(fs, e), c)
           /\ \A a : With(fs, a) /\ e.code = Pushed => With(Append(fs, e), a)
           /\ All(fs, Pushed) => With(Append(fs, e), e.code)
<1> DEFINE r == Append(fs, e)
<1>1. /\ DOMAIN fs = 1 .. Len(fs) /\ Len(fs) \in Nat /\ DOMAIN r = 1 .. Len(fs) + 1
      /\ r \in Seq(Frame) /\ Len(r) = Len(fs) + 1
      /\ r[Len(fs) + 1] = e
      /\ \A i \in DOMAIN fs : r[i] = fs[i]
  OBVIOUS
<1> HIDE DEF r
<1>2. \A i \in DOMAIN r : i \in DOMAIN fs \/ i = Len(fs) + 1
  BY <1>1
<1>3. \A c : All(fs, c) /\ e.code = c => All(r, c)
  BY <1>1, <1>2 DEF All
<1>4. Len(fs) + 1 \in DOMAIN r /\ \A i \in DOMAIN fs : i \in DOMAIN r
  BY <1>1
<1>5. \A a : With(fs, a) /\ e.code = Pushed => With(r, a)
  <2> SUFFICES ASSUME NEW a, With(fs, a), e.code = Pushed PROVE With(r, a)
    OBVIOUS
  <2>1. PICK k \in DOMAIN fs : fs[k].code = a /\ \A i \in DOMAIN fs : i = k \/ fs[i].code = Pushed
    BY DEF With
  <2>2. k \in DOMAIN r /\ r[k].code = a
    BY <1>1, <1>4, <2>1
  <2>3. \A i \in DOMAIN r : i = k \/ r[i].code = Pushed
    BY <1>1, <1>2, <2>1
  <2> QED
    BY <2>2, <2>3 DEF With
<1>6. All(fs, Pushed) => With(r, e.code)
  BY <1>1, <1>2, <1>4 DEF All, With
<1> QED
  BY <1>1, <1>2, <1>3, <1>5, <1>6 DEF r

(* Reading a frame: one that was pushed, or the answer.                    *)
LEMMA ReadsPushed ==
    ASSUME Types, ~cut, link = "up", OnlyPushed, NEW f, ReadFrame(f)
    PROVE  f.code = Pushed /\ OnlyPushed' /\ link' = link
<1>1. answers \in Seq(Frame) /\ answers # << >> /\ f = Head(answers) /\ answers' = Tail(answers)
      /\ link' = link
  BY DEF ReadFrame, Types
<1> QED
  BY <1>1, AllOfTail DEF OnlyPushed

LEMMA ReadsAnswer ==
    ASSUME Types, ~cut, NEW a, Answer(a), NEW f, ReadFrame(f), f.code # Pushed
    PROVE  f.code = a /\ OnlyPushed' /\ link' = link
<1>1. answers \in Seq(Frame) /\ answers # << >>
  BY WithOfTail DEF Types, Answer
<1>2. f = Head(answers) /\ answers' = Tail(answers) /\ link' = link
  BY <1>1 DEF ReadFrame
<1>3. Head(answers).code = Pushed \/ (Head(answers).code = a /\ All(Tail(answers), Pushed))
  BY <1>1, WithOfTail DEF Answer
<1> QED
  BY <1>2, <1>3 DEF OnlyPushed

(* Writing a command into an empty channel.                                *)
LEMMA WritesOne ==
    ASSUME NEW code \in Code, NEW query \in Query, requests = << >>, link = "up",
           WriteFrame(code, query)
    PROVE  Len(requests') = 1 /\ Head(requests').code = code
<1> DEFINE e == [code |-> code, query |-> query]
<1>1. e \in Frame /\ e.code = code
  BY DEF Frame
<1>2. requests' = Append(<< >>, e)
  BY DEF WriteFrame
<1> HIDE DEF e
<1>3. requests' = <<e>>
  BY <1>1, <1>2
<1> QED
  BY <1>1, <1>3

(* The server takes one command: it has an answer, or it is ignored.       *)
LEMMA Serves ==
    ASSUME Types, NEW room, Serve(room),
           NEW c, Head(requests).code = c, NEW m, m = mode
    PROVE  /\ requests # << >> /\ requests' = Tail(requests)
           /\ mode' = Take(room, [mode |-> m, owed |-> << >>], c).mode
           /\ link' = IF mode' = "disconnected" THEN "lost" ELSE link
           /\ Take(room, [mode |-> m, owed |-> << >>], c).owed = << >> => answers' = answers
           /\ \A a \in Answers :
                 /\ Take(room, [mode |-> m, owed |-> << >>], c).owed = <<a>>
                 /\ OnlyPushed
                 => With(answers, a)'
           /\ UNCHANGED <<cut, call, known, reader, alive, trouble>>
<1> DEFINE s == Take(room, [mode |-> m, owed |-> << >>], c)
           q == Head(requests).query
           reply == [i \in DOMAIN s.owed |-> [code |-> s.owed[i], query |-> q]]
<1>1. /\ requests # << >> /\ requests' = Tail(requests) /\ mode' = s.mode
      /\ link' = IF s.mode = "disconnected" THEN "lost" ELSE link
      /\ answers' = answers \o reply
      /\ UNCHANGED <<cut, call, known, reader, alive, trouble>>
  BY DEF Serve
<1>2. q \in Query
  <2>1. requests \in Seq(Frame) /\ requests # << >>
    BY <1>1, Zenon DEF Types
  <2>2. Head(requests) \in Frame
    BY <2>1
  <2> QED
    BY <2>2 DEF Frame
<1> HIDE DEF s, q
<1>3. s.owed = << >> => answers' = answers
  <2> SUFFICES ASSUME s.owed = << >> PROVE answers' = answers
    OBVIOUS
  <2>1. reply = << >>
    OBVIOUS
  <2> HIDE DEF reply
  <2> QED
    BY <1>1, <2>1 DEF Types
<1>4. ASSUME NEW a \in Answers, s.owed = <<a>>, OnlyPushed PROVE With(answers, a)'
  <2> DEFINE e == [code |-> a, query |-> q]
  <2>1. e \in Frame /\ e.code = a
    BY <1>2 DEF Frame, Code
  <2>2. reply = <<e>>
    BY <1>4
  <2> HIDE DEF reply, e
  <2>3. answers \in Seq(Frame)
    BY DEF Types
  <2>4. answers' = Append(answers, e)
    BY <1>1, <2>1, <2>2, <2>3
  <2>5. With(Append(answers, e), a)
    BY <1>4, <2>1, <2>3, FrameAdded DEF OnlyPushed
  <2> QED
    BY <2>4, <2>5
<1> QED
  BY <1>1, <1>3, <1>4 DEF s

(* What a command makes of a session, by the protocol's table.             *)
Turns(m, c, m2, a) ==
    \A room \in BOOLEAN :
        /\ Take(room, [mode |-> m, owed |-> << >>], c).mode = m2
        /\ Take(room, [mode |-> m, owed |-> << >>], c).owed = <<a>>
Ignored(m, c) ==
    \A room \in BOOLEAN :
        /\ Take(room, [mode |-> m, owed |-> << >>], c).mode = m
        /\ Take(room, [mode |-> m, owed |-> << >>], c).owed = << >>

OneRow(room, m, c, m2, owed) ==
    /\ owed \in Seq(Answers) /\ <<m, c, m2, owed>> \in Protocol(room)
    /\ \A r \in Protocol(room) : r[1] = m /\ r[2] = c => r = <<m, c, m2, owed>>

LEMMA Row ==
    ASSUME NEW room, NEW m, NEW c, NEW m2, NEW owed, OneRow(room, m, c, m2, owed)
    PROVE  /\ Take(room, [mode |-> m, owed |-> << >>], c).mode = m2
           /\ Take(room, [mode |-> m, owed |-> << >>], c).owed = owed
<1> USE DEF OneRow
<1> DEFINE rows == {r \in Protocol(room) : r[1] = m /\ r[2] = c}
           s == Take(room, [mode |-> m, owed |-> << >>], c)
           row == <<m, c, m2, owed>>
<1>1. rows = {row}
  OBVIOUS
<1>2. (CHOOSE r \in rows : TRUE) = row
  BY <1>1
<1>3. s = [mode |-> row[3], owed |-> << >> \o row[4]]
  BY <1>1, <1>2 DEF Take
<1>4. << >> \o owed = owed
  OBVIOUS
<1> QED
  BY <1>3, <1>4

LEMMA NoRow ==
    ASSUME NEW m, NEW c,
           \A room \in BOOLEAN : \A r \in Protocol(room) : ~(r[1] = m /\ r[2] = c)
    PROVE  Ignored(m, c)
<1> SUFFICES ASSUME NEW room \in BOOLEAN
             PROVE  Take(room, [mode |-> m, owed |-> << >>], c) = [mode |-> m, owed |-> << >>]
  BY DEF Ignored
<1>1. {r \in Protocol(room) : r[1] = m /\ r[2] = c} = {}
  OBVIOUS
<1> QED
  BY <1>1 DEF Take

LEMMA OneTurns ==
    ASSUME NEW m, NEW c, NEW m2, NEW a, \A room \in BOOLEAN : OneRow(room, m, c, m2, <<a>>)
    PROVE  Turns(m, c, m2, a)
<1>1. PICK owed : owed = <<a>>
  OBVIOUS
<1>2. \A room \in BOOLEAN : OneRow(room, m, c, m2, owed)
  BY <1>1
<1>3. ASSUME NEW room \in BOOLEAN
      PROVE  /\ Take(room, [mode |-> m, owed |-> << >>], c).mode = m2
             /\ Take(room, [mode |-> m, owed |-> << >>], c).owed = owed
  <2>1. OneRow(room, m, c, m2, owed)
    BY <1>2
  <2> QED
    BY <2>1, Row
<1> QED
  BY <1>1, <1>3 DEF Turns

LEMMA Table ==
    /\ Turns("connected", "SET_REALTIME_MODE", "realtime", "MODE_SUCCESSFULL")
    /\ Turns("connected", "SET_HISTORIAN_MODE", "historian", "MODE_SUCCESSFULL")
    /\ Turns("connected", "DISCONNECT", "disconnected", "ACCEPT")
    /\ Turns("realtime", "RESET_MODE", "connected", "ACCEPT")
    /\ Turns("historian", "RESET_MODE", "connected", "ACCEPT")
    /\ Turns("sending", "STOP_REALTIME_SENDING", "realtime", "ACCEPT")
    /\ Turns("historian", "GET_HISTORIAN_VARIABLES", "historian", "HISTORIAN_VARIABLES_RESPONSE")
    /\ Turns("historian", "GET_HISTORIAN_ALARMS", "historian", "HISTORIAN_ALARMS_RESPONSE")
<1>0. \A a \in Answers : <<a>> \in Seq(Answers)
  OBVIOUS
<1>1. \A room \in BOOLEAN :
         /\ OneRow(room, "connected", "SET_REALTIME_MODE", "realtime", <<"MODE_SUCCESSFULL">>)
         /\ OneRow(room, "connected", "SET_HISTORIAN_MODE", "historian", <<"MODE_SUCCESSFULL">>)
         /\ OneRow(room, "connected", "DISCONNECT", "disconnected", <<"ACCEPT">>)
         /\ OneRow(room, "realtime", "RESET_MODE", "connected", <<"ACCEPT">>)
         /\ OneRow(room, "historian", "RESET_MODE", "connected", <<"ACCEPT">>)
         /\ OneRow(room, "sending", "STOP_REALTIME_SENDING", "realtime", <<"ACCEPT">>)
         /\ OneRow(room, "historian", "GET_HISTORIAN_VARIABLES", "historian", <<"HISTORIAN_VARIABLES_RESPONSE">>)
         /\ OneRow(room, "historian", "GET_HISTORIAN_ALARMS", "historian", <<"HISTORIAN_ALARMS_RESPONSE">>)
  BY <1>0 DEF OneRow, Protocol, Answers
<1> QED
  BY <1>1, OneTurns

LEMMA TableOfReceiving ==
    /\ Ignored("sending", "GET_REALTIME_VARIABLES") /\ Ignored("realtime", "STOP_REALTIME_SENDING")
    /\ \A room \in BOOLEAN :
          /\ Take(room, [mode |-> "realtime", owed |-> << >>], "GET_REALTIME_VARIABLES").mode = "sending"
          /\ Take(room, [mode |-> "realtime", owed |-> << >>], "GET_REALTIME_VARIABLES").owed = << >>
<1>1. \A room \in BOOLEAN : \A r \in Protocol(room) :
         /\ ~(r[1] = "sending" /\ r[2] = "GET_REALTIME_VARIABLES")
         /\ ~(r[1] = "realtime" /\ r[2] = "STOP_REALTIME_SENDING")
  BY DEF Protocol
<1>2. Ignored("sending", "GET_REALTIME_VARIABLES") /\ Ignored("realtime", "STOP_REALTIME_SENDING")
  BY <1>1, NoRow
<1>3. ASSUME NEW room \in BOOLEAN
      PROVE  /\ Take(room, [mode |-> "realtime", owed |-> << >>], "GET_REALTIME_VARIABLES").mode = "sending"
             /\ Take(room, [mode |-> "realtime", owed |-> << >>], "GET_REALTIME_VARIABLES").owed = << >>
  <2>1. PICK owed : owed = << >>
    OBVIOUS
  <2>2. OneRow(room, "realtime", "GET_REALTIME_VARIABLES", "sending", owed)
    <3>1. owed \in Seq(Answers)
      BY <2>1
    <3> QED
      BY <2>1, <3>1 DEF OneRow, Protocol
  <2> QED
    BY <2>1, <2>2, Row
<1> QED
  BY <1>2, <1>3

LEMMA TableOfHello ==
    ASSUME NEW room \in BOOLEAN
    PROVE  LET s == Take(room, [mode |-> "begin", owed |-> << >>], "HELLO")
           IN  IF room THEN s.mode = "connected" /\ s.owed = <<"ACCEPT">>
               ELSE s.mode = "disconnected" /\ s.owed = <<"REJECT">>
<1>1. PICK m2, owed : /\ m2 = IF room THEN "connected" ELSE "disconnected"
                     /\ owed = IF room THEN <<"ACCEPT">> ELSE <<"REJECT">>
  OBVIOUS
<1>2. OneRow(room, "begin", "HELLO", m2, owed)
  <2>2. <<"ACCEPT">> \in Seq(Answers) /\ <<"REJECT">> \in Seq(Answers)
    <3>1. \A a \in Answers : <<a>> \in Seq(Answers)
      OBVIOUS
    <3> QED
      BY <3>1 DEF Answers
  <2>3. owed \in Seq(Answers)
    BY <1>1, <2>2
  <2> QED
    BY <1>1, <2>3 DEF OneRow, Protocol
<1> QED
  BY <1>1, <1>2, Row

-----------------------------------------------------------------------------
LEMMA StepWindow ==
    ASSUME LifeInv, Window, [Next]_vars
    PROVE  Window'
<1> USE DEF Window
<1>t. tab' = tab
  BY SameTab
<1>1. CASE User
  <2>1. state' = state
    BY <1>1 DEF User, ClickConnect, CloseDialog, ClickAdd, ClickClear, ClickQuery, ClickSelect,
                ClickDeselect, ClickStart, ClickStop, ClickChoose
  <2>2. CASE UNCHANGED <<buttons, gui>>
    BY <1>t, <2>1, <2>2
  <2>3. CASE ClickConnect \/ CloseDialog \/ ClickQuery
    BY <1>t, <2>1, <2>3 DEF ClickConnect, CloseDialog, ClickQuery, Free, UserMay
  <2>4. CASE ClickSelect \/ ClickDeselect
    BY <1>t, <2>1, <2>4 DEF ClickSelect, ClickDeselect, Free, UserMay
  <2>5. CASE ClickStart \/ ClickStop \/ ClickChoose
    BY <1>t, <2>1, <2>5 DEF ClickStart, ClickStop, ClickChoose, Free, UserMay
  <2> QED
    BY <1>1, <2>2, <2>3, <2>4, <2>5 DEF User, ClickAdd, ClickClear
<1>2. CASE Deliver
  BY <1>t, <1>2 DEF Deliver
<1>3. CASE Calls
  BY <1>t, <1>3 DEF Calls, CallConnect, CallSetMode, CallVarsConfigured, CallDisconnect, CallQuery,
                    CallDescribe, CallLook, CallStart, CallStop, LifeInv, OneSource
<1>4. CASE UNCHANGED viewVars
  BY <1>t, <1>4 DEF viewVars
<1> QED
  BY <1>1, <1>2, <1>3, <1>4, Steps DEF vars

Quiet == Types /\ LifeInv /\ Window /\ trouble = {} /\ alive /\ ~cut /\ Phase

(* What the user does leaves the phase as it is. *)
LEMMA UserCalm ==
    ASSUME Quiet, User
    PROVE  alive' /\ ~cut' /\ Phase'
<1>1. UNCHANGED <<pc, call, command, cmd, quit, events, state, tab, link, mode, requests, answers,
                  reader, known, alive, cut>>
  BY DEF User, ClickConnect, CloseDialog, ClickAdd, ClickClear, ClickQuery, ClickSelect,
         ClickDeselect, ClickStart, ClickStop, ClickChoose, workerVars, clientVars, netVars, serverVars, threadVars
<1>2. /\ gui' = gui \/ (gui = "idle" /\ gui' \notin {"set_mode", "vars"})
      /\ "connect" \in buttons' => "connect" \in buttons
      /\ "connect" \in buttons /\ "connect" \notin buttons' => ClickStart
  BY DEF User, ClickConnect, CloseDialog, ClickAdd, ClickClear, ClickQuery, ClickSelect,
         ClickDeselect, ClickStart, ClickStop, ClickChoose, Free, UserMay
<1>3. alive' /\ ~cut'
  BY <1>1 DEF Quiet
<1> USE <1>1, <1>2 DEF Resting, Under, Calling, Ready, Waits, Answer, Exchange, OnlyPushed, OwnMode,
                       QueryAnswer, QueryCommand, ModeCommand
<1>4. Away => Away'
  BY DEF Away
<1>5. Greets => Greets'
  BY DEF Greets
<1>6. Greeted => Greeted'
  BY DEF Greeted
<1>7. SetsMode => SetsMode'
  BY DEF SetsMode
<1>8. Queries => Queries'
  BY DEF Queries
<1>9. Receives => Receives'
  <2>1. Stops => Stops'
    BY DEF Stops
  <2>2. OnlyGets => OnlyGets'
    BY DEF OnlyGets
  <2>3. Ready("realtime") => OnlyGets
    BY DEF OnlyGets, All
  <2> QED
    BY <2>1, <2>2, <2>3 DEF Receives
<1>10. Leaves => Leaves'
  BY DEF Leaves
<1> QED
  BY <1>3, <1>4, <1>5, <1>6, <1>7, <1>8, <1>9, <1>10 DEF Quiet, Phase

LEMMA DeliverCalm ==
    ASSUME Quiet, Deliver
    PROVE  alive' /\ ~cut' /\ Phase'
<1>1. UNCHANGED <<pc, call, command, cmd, quit, state, tab, link, mode, requests, answers,
                  reader, known, alive, cut, buttons>>
  BY DEF Deliver, clientVars, netVars, serverVars
<1>2. /\ gui = "idle"
      /\ gui' = IF Head(events).signal = "connected" THEN "set_mode" ELSE "idle"
      /\ Has(events') <=> Has(events) /\ Head(events).signal # "connected"
      /\ Head(events).signal = "connected" => Has(events)
  BY SignalTaken DEF Deliver, Quiet, Types, LifeInv, OneSource
<1>3. alive' /\ ~cut'
  BY <1>1 DEF Quiet
<1> USE <1>1, <1>2 DEF Resting, Under, Calling, Ready, Waits, Answer, Exchange, OnlyPushed, OwnMode,
                       QueryAnswer, QueryCommand, ModeCommand
<1>4. Away => Away'
  BY DEF Away
<1>5. Greets => Greets'
  BY DEF Greets
<1>6. Greeted => Greeted'
  BY DEF Greeted
<1>7. ~SetsMode
  BY DEF SetsMode
<1>8. Queries => Queries'
  BY DEF Queries
<1>9. Receives => Receives'
  BY DEF Receives, Stops, OnlyGets
<1>10. Leaves => Leaves'
  BY DEF Leaves
<1> QED
  BY <1>3, <1>4, <1>5, <1>6, <1>7, <1>8, <1>9, <1>10 DEF Quiet, Phase

(* A slot gives its command only to a thread that waits. *)
LEMMA CallsCalm ==
    ASSUME Quiet, Calls, trouble' = {}
    PROVE  alive' /\ ~cut' /\ Phase'
<1> USE DEF Quiet
<1>1. UNCHANGED <<link, mode, requests, answers, cut, call, known, reader, tab, cmd, quit, events>>
  BY DEF Calls, CallConnect, CallSetMode, CallVarsConfigured, CallDisconnect, CallQuery,
         CallDescribe, CallLook, CallStart, CallStop, ConnectToServer, Give, netVars, serverVars
<1>2. ASSUME NEW c, Give(c)
      PROVE  /\ pc = "waiting" /\ pc' = "awoken" /\ command' = c
             /\ alive' /\ ~cut'
  BY <1>2 DEF Give, netVars
<1>3. ASSUME state = "CONNECT", pc = "waiting"
      PROVE  \/ known /\ tab # "realtime" /\ Ready("historian")
             \/ /\ known /\ tab = "realtime" /\ link = "up" /\ mode \in {"realtime", "sending"}
                /\ OnlyPushed /\ OnlyGets
                /\ "connect" \in buttons => Ready("realtime")
  <2>1. Ready("realtime") => OnlyPushed /\ OnlyGets
    BY DEF Ready, OnlyGets, All
  <2> QED
    BY <1>3, <2>1 DEF Phase, Away, Greets, Greeted, SetsMode, Queries, Receives, Stops, Leaves,
                      Exchange, Resting, Under, Calling
<1>r. ASSUME NEW m, Ready(m) PROVE Ready(m)'
  BY <1>1, <1>r DEF Ready, OnlyPushed
<1>o. OnlyPushed' = OnlyPushed /\ OnlyGets' = OnlyGets
  BY <1>1 DEF OnlyPushed, OnlyGets
<1>4. CASE CallConnect
  <2>1. pc = "idle" /\ pc' = "starting" /\ state' = state /\ alive' /\ ~cut'
    BY <1>4 DEF CallConnect, ConnectToServer, netVars
  <2>2. Away
    BY <2>1 DEF Phase, Greets, Greeted, SetsMode, Queries, Receives, Stops, Leaves,
                Exchange, Resting, Under, Calling
  <2> QED
    BY <1>1, <2>1, <2>2 DEF Away, Phase
<1>5. CASE CallSetMode
  <2>1. /\ gui = "set_mode" /\ gui' = "vars" /\ state' = state
        /\ pc = "waiting" /\ pc' = "awoken" /\ command' = "SET_MODE" /\ alive' /\ ~cut'
    BY <1>2, <1>5 DEF CallSetMode
  <2>2. Greeted
    BY <2>1 DEF Phase, Away, Greets, SetsMode, Queries, Receives, Stops, Leaves,
                Exchange, Resting, Under, Calling, LifeInv, OneSource
  <2>3. SetsMode'
    BY <1>1, <1>r, <2>1, <2>2 DEF Greeted, SetsMode, Under
  <2> QED
    BY <2>1, <2>3 DEF Phase
<1>6. CASE CallVarsConfigured
  <2>1. /\ gui = "vars" /\ known /\ state' = "CONNECT" /\ pc' = pc /\ alive' /\ ~cut'
        /\ gui' \in {"idle", "look"} /\ ("connect" \in buttons => "connect" \in buttons')
    BY <1>6 DEF CallVarsConfigured, netVars
  <2>2. SetsMode
    BY <2>1 DEF Phase, Away, Greets, Greeted, Queries, Receives, Stops, Leaves,
                Exchange, Resting, Under, Calling, LifeInv, Thread, OneSource, Live, Hello
  <2>3. state = "DISCONNECT" /\ Resting /\ Ready(OwnMode) /\ "connect" \in buttons
    BY <2>1, <2>2 DEF SetsMode, Window
  <2>4. Resting' /\ Ready(OwnMode)'
    BY <1>1, <2>1, <2>3 DEF Resting, Ready, OnlyPushed, OwnMode
  <2>5. CASE tab = "realtime"
    <3>1. Ready("realtime")'
      BY <1>1, <2>4, <2>5 DEF OwnMode, Ready, OnlyPushed
    <3> QED
      BY <1>1, <2>1, <2>3, <2>4, <2>5, <3>1 DEF Phase, Receives, Ready
  <2>6. CASE tab # "realtime"
    <3>1. Ready("historian")'
      BY <1>1, <2>4, <2>6 DEF OwnMode, Ready, OnlyPushed
    <3> QED
      BY <1>1, <2>1, <2>3, <2>4, <2>6, <3>1 DEF Phase, Queries
  <2> QED
    BY <2>5, <2>6
<1>7. CASE CallDisconnect
  <2>1. /\ gui = "disconnect" /\ gui' = "idle" /\ state' = "DISCONNECT"
        /\ pc = "waiting" /\ pc' = "awoken" /\ command' = "DISCONNECT" /\ alive' /\ ~cut'
    BY <1>2, <1>7 DEF CallDisconnect
  <2>2. state = "CONNECT" /\ ~Has(events) /\ "connect" \in buttons
    BY <2>1 DEF LifeInv, OneSource, Window
  <2>3. Ready(OwnMode)
    BY <1>3, <2>1, <2>2 DEF OwnMode
  <2>4. Ready(OwnMode)'
    BY <1>1, <2>3 DEF Ready, OnlyPushed, OwnMode
  <2>5. Leaves'
    BY <1>1, <2>1, <2>2, <2>4 DEF Leaves, Under
  <2> QED
    BY <2>1, <2>5 DEF Phase
<1>8. CASE CallQuery
  <2>1. /\ gui = "query" /\ state' = state
        /\ pc = "waiting" /\ pc' = "awoken" /\ command' = QueryCommand /\ alive' /\ ~cut'
    BY <1>2, <1>8 DEF CallQuery
  <2>2. state = "CONNECT" /\ tab # "realtime"
    BY <2>1 DEF Window
  <2>3. known /\ Ready("historian")
    BY <1>3, <2>1, <2>2
  <2>4. Queries'
    BY <1>1, <1>r, <2>1, <2>2, <2>3 DEF Queries, Under, QueryCommand
  <2> QED
    BY <2>1, <2>4 DEF Phase
<1>9. CASE CallDescribe \/ CallLook
  <2>1. /\ gui \in {"describe", "look"} /\ gui' = "idle" /\ UNCHANGED <<pc, command, state, buttons>>
        /\ alive' \in IF known THEN {alive} ELSE BOOLEAN
    BY <1>9 DEF CallDescribe, CallLook, Quiet
  <2>2. state = "CONNECT"
    BY <2>1 DEF LifeInv, OneSource
  <2>3. Queries \/ Receives
    BY <2>2 DEF Phase, Away, Greets, Greeted, SetsMode, Leaves
  <2>4. alive' /\ ~cut'
    BY <1>1, <2>1, <2>3 DEF Queries, Receives
  <2>5. Queries => Queries'
    BY <1>1, <2>1 DEF Queries, Resting, Under, Calling, Ready, Waits, Answer, Exchange, OnlyPushed,
                      QueryAnswer, QueryCommand
  <2>6. Receives => Receives'
    BY <1>1, <2>1 DEF Receives, Stops, Resting, Under, Calling, Ready, Answer, OnlyPushed, OnlyGets
  <2> QED
    BY <2>3, <2>4, <2>5, <2>6 DEF Phase
<1>10. CASE CallStart
  <2>1. /\ gui = "start" /\ state' = state /\ buttons' = buttons \cup {"stop"}
        /\ pc = "waiting" /\ pc' = "awoken" /\ command' = "GET_REALTIME" /\ alive' /\ ~cut'
    BY <1>2, <1>10 DEF CallStart
  <2>2. state = "CONNECT" /\ tab = "realtime" /\ "connect" \notin buttons
    BY <2>1 DEF Window
  <2>3. known /\ link = "up" /\ mode \in {"realtime", "sending"} /\ OnlyPushed /\ OnlyGets
    BY <1>3, <2>1, <2>2
  <2>4. Receives'
    BY <1>1, <1>o, <2>1, <2>2, <2>3 DEF Receives, Under
  <2> QED
    BY <2>1, <2>4 DEF Phase
<1>11. CASE CallStop
  <2>1. /\ gui = "stop" /\ state' = state
        /\ pc = "waiting" /\ pc' = "awoken" /\ command' = "STOP_REALTIME_SENDING" /\ alive' /\ ~cut'
    BY <1>2, <1>11 DEF CallStop
  <2>2. state = "CONNECT" /\ tab = "realtime"
    BY <2>1 DEF Window
  <2>3. known /\ link = "up" /\ mode \in {"realtime", "sending"} /\ OnlyPushed /\ OnlyGets
    BY <1>3, <2>1, <2>2
  <2>4. Receives'
    BY <1>1, <1>o, <2>1, <2>2, <2>3 DEF Receives, Under
  <2> QED
    BY <2>1, <2>4 DEF Phase
<1> QED
  BY <1>4, <1>5, <1>6, <1>7, <1>8, <1>9, <1>10, <1>11 DEF Calls

(* The thread between two commands; the end of run(). *)
LEMMA ThreadCalm ==
    ASSUME Quiet, UNCHANGED viewVars, RunStarts \/ Wait \/ RunEnds \/ TakeCommand
    PROVE  alive' /\ ~cut' /\ Phase'
<1> USE DEF Quiet
<1>1. UNCHANGED <<gui, state, buttons, tab, command>>
  BY DEF viewVars, RunStarts, Wait, RunEnds, TakeCommand
<1>2. CASE RunStarts
  <2>1. pc = "starting"
    BY <1>2 DEF RunStarts
  <2>2. Away
    BY <2>1 DEF Phase, Greets, Greeted, SetsMode, Queries, Receives, Stops, Leaves,
                Exchange, Resting, Under, Calling
  <2>3. CASE pc' = "idle" /\ UNCHANGED clientVars
    <3>1. UNCHANGED <<reader, alive, cut>>
      BY <2>3 DEF clientVars, netVars
    <3> QED
      BY <1>1, <2>2, <2>3, <3>1 DEF Phase, Away
  <2>4. CASE AskHello /\ pc' = "calling"
    <3>1. /\ link' = "up" /\ mode' = "begin" /\ requests' = <<PlainFrame("HELLO")>> /\ answers' = << >>
          /\ cut' = FALSE /\ call' = "HELLO" /\ known' = FALSE /\ reader' = FALSE /\ alive' = alive
      BY <2>4 DEF AskHello
    <3>2. Len(requests') = 1 /\ Head(requests').code = "HELLO"
      <4>1. PlainFrame("HELLO").code = "HELLO" /\ PlainFrame("HELLO") \in Frame
        BY DEF PlainFrame, NoQuery, Frame, Query, Code
      <4> HIDE DEF PlainFrame
      <4> QED
        BY <3>1, <4>1
    <3>3. OnlyPushed'
      BY <3>1 DEF OnlyPushed, All
    <3>4. Greets'
      BY <1>1, <2>2, <2>4, <3>1, <3>2, <3>3 DEF Greets, Away, Exchange, Calling, Waits
    <3> QED
      BY <3>1, <3>4 DEF Phase
  <2> QED
    BY <1>2, <2>3, <2>4 DEF RunStarts
<1>3. CASE Wait
  <2>1. /\ pc = "top" /\ pc' = "waiting" /\ ~quit
        /\ UNCHANGED <<link, mode, requests, answers, cut, known, reader, alive, events>>
    BY <1>3 DEF Wait, clientVars, netVars, serverVars
  <2>2. Greeted \/ SetsMode \/ Queries \/ Receives
    BY <2>1 DEF Phase, Away, Greets, Leaves, Exchange, Under, Calling
  <2> USE DEF Resting, Under, Calling, Exchange, Ready, OnlyPushed
  <2>3. Greeted => Greeted'
    BY <1>1, <2>1 DEF Greeted
  <2>4. SetsMode => SetsMode'
    BY <1>1, <2>1 DEF SetsMode, OwnMode
  <2>5. Queries => Queries'
    BY <1>1, <2>1 DEF Queries
  <2>6. Receives => Receives'
    BY <1>1, <2>1 DEF Receives, Stops, OnlyGets
  <2> QED
    BY <2>1, <2>2, <2>3, <2>4, <2>5, <2>6 DEF Phase
<1>4. CASE RunEnds
  <2>1. /\ pc = "top" /\ pc' = "idle" /\ quit /\ UNCHANGED <<reader, cut, events>>
        /\ alive' \in IF reader THEN BOOLEAN ELSE {alive}
    BY <1>4 DEF RunEnds
  <2>2. ~Live
    BY <2>1 DEF LifeInv, EndsOnlyIfTold
  <2>3. Leaves
    BY <2>1, <2>2 DEF Phase, Away, Greets, Greeted, SetsMode, Queries, Receives, Live,
                      Exchange, Under, Calling
  <2>4. ~reader /\ state = "DISCONNECT"
    BY <2>1, <2>3 DEF Leaves, Exchange, Under, Calling
  <2> QED
    BY <1>1, <2>1, <2>4 DEF Phase, Away
<1>5. CASE TakeCommand
  <2>1. /\ pc = "awoken" /\ pc' = "serving" /\ cmd' = command
        /\ UNCHANGED <<link, mode, requests, answers, cut, known, reader, alive, events>>
    BY <1>5 DEF TakeCommand, clientVars, netVars, serverVars
  <2>2. SetsMode \/ Queries \/ Receives \/ Leaves
    BY <2>1 DEF Phase, Away, Greets, Greeted, Exchange, Resting, Calling
  <2> USE DEF Resting, Under, Calling, Exchange, Ready, OnlyPushed, OwnMode
  <2>3. SetsMode => SetsMode'
    BY <1>1, <2>1 DEF SetsMode
  <2>4. Queries => Queries'
    BY <1>1, <2>1 DEF Queries, QueryCommand
  <2>5. Receives => Receives'
    BY <1>1, <2>1 DEF Receives, Stops, OnlyGets
  <2>6. Leaves => Leaves'
    BY <1>1, <2>1 DEF Leaves
  <2> QED
    BY <2>1, <2>2, <2>3, <2>4, <2>5, <2>6 DEF Phase
<1> QED
  BY <1>2, <1>3, <1>4, <1>5

(* The switch of run(): the command the slot gave becomes a request. *)
LEMMA BeginCalm ==
    ASSUME Quiet, UNCHANGED viewVars, BeginCommand, trouble' = {}
    PROVE  alive' /\ ~cut' /\ Phase'
<1> USE DEF Quiet
<1>1. /\ UNCHANGED <<gui, state, buttons, tab>> /\ pc = "serving"
  BY DEF viewVars, BeginCommand, Asks
<1>2. /\ \/ SetsMode /\ cmd = "SET_MODE" /\ ~known /\ Ready("connected")
         \/ Queries /\ cmd = QueryCommand /\ Ready("historian")
         \/ Leaves /\ cmd = "DISCONNECT" /\ Ready(OwnMode)
         \/ /\ Receives /\ OnlyPushed /\ OnlyGets
            /\ \/ cmd = "STOP_REALTIME_SENDING"
               \/ cmd = "GET_REALTIME" /\ "connect" \notin buttons
  BY <1>1 DEF Phase, Away, Greets, Greeted, SetsMode, Queries, Receives, Stops, Leaves,
              Exchange, Resting, Under, Calling
<1>3. ASSUME NEW code \in Code, NEW query \in Query, Asks(code, query), NEW m, Ready(m)
      PROVE  /\ pc' = "calling" /\ call' = code /\ ~reader' /\ link' = "up" /\ mode' = m
             /\ OnlyPushed' /\ Len(requests') = 1 /\ Head(requests').code = code
             /\ alive' /\ ~cut' /\ UNCHANGED <<events, known>>
  <2>1. /\ link = "up" /\ requests = << >> /\ CanWrite /\ ~reader /\ mode = m /\ OnlyPushed
    BY <1>3 DEF Ready, CanWrite
  <2>2. Ask(code, query) /\ pc' = "calling" /\ UNCHANGED events
    BY <1>3, <2>1 DEF Asks
  <2>3. /\ WriteFrame(code, query) /\ call' = code
        /\ UNCHANGED <<mode, link, answers, cut, known, reader, alive>>
    BY <2>2 DEF Ask
  <2>4. Len(requests') = 1 /\ Head(requests').code = code
    BY <2>1, <2>3, WritesOne
  <2>5. OnlyPushed'
    BY <2>1, <2>3 DEF OnlyPushed
  <2> QED
    BY <2>1, <2>2, <2>3, <2>4, <2>5
<1>q. NoQuery \in Query /\ request \in Query
  BY DEF Types, NoQuery, Query
<1>c. /\ {ModeCommand, QueryCommand, "RESET_MODE"} \subseteq Code
      /\ QueryCommand \notin {"SET_MODE", "DISCONNECT", "STOP_REALTIME_SENDING", "GET_REALTIME", "CONNECT"}
  BY DEF ModeCommand, QueryCommand, Code, Answers
<1>4. CASE SetsMode /\ cmd = "SET_MODE" /\ ~known /\ Ready("connected")
  <2>1. Asks(ModeCommand, NoQuery)
    BY <1>4, <1>c DEF BeginCommand
  <2>2. /\ pc' = "calling" /\ call' = ModeCommand /\ ~reader' /\ link' = "up" /\ mode' = "connected"
        /\ OnlyPushed' /\ Len(requests') = 1 /\ Head(requests').code = ModeCommand
        /\ alive' /\ ~cut' /\ ~known'
    BY <1>3, <1>4, <1>c, <1>q, <2>1
  <2>3. ModeCommand' = ModeCommand
    BY <1>1 DEF ModeCommand
  <2>4. SetsMode'
    BY <1>1, <1>4, <2>2, <2>3 DEF SetsMode, Exchange, Calling, Waits
  <2> QED
    BY <2>2, <2>4 DEF Phase
<1>5. CASE Queries /\ cmd = QueryCommand /\ Ready("historian")
  <2>1. Asks(QueryCommand, request)
    BY <1>5, <1>c DEF BeginCommand
  <2>2. /\ pc' = "calling" /\ call' = QueryCommand /\ ~reader' /\ link' = "up" /\ mode' = "historian"
        /\ OnlyPushed' /\ Len(requests') = 1 /\ Head(requests').code = QueryCommand
        /\ alive' /\ ~cut' /\ known' = known
    BY <1>3, <1>5, <1>c, <1>q, <2>1
  <2>3. QueryCommand' = QueryCommand
    BY <1>1 DEF QueryCommand
  <2>4. Queries'
    BY <1>1, <1>5, <2>2, <2>3 DEF Queries, Exchange, Calling, Waits
  <2> QED
    BY <2>2, <2>4 DEF Phase
<1>6. CASE Leaves /\ cmd = "DISCONNECT" /\ Ready(OwnMode)
  <2>1. Asks("RESET_MODE", NoQuery)
    BY <1>6, <1>c DEF BeginCommand
  <2>2. /\ pc' = "calling" /\ call' = "RESET_MODE" /\ ~reader' /\ link' = "up" /\ mode' = OwnMode
        /\ OnlyPushed' /\ Len(requests') = 1 /\ Head(requests').code = "RESET_MODE"
        /\ alive' /\ ~cut' /\ events' = events
    BY <1>3, <1>6, <1>c, <1>q, <2>1
  <2>3. OwnMode' = OwnMode
    BY <1>1 DEF OwnMode
  <2>4. Leaves'
    BY <1>1, <1>6, <2>2, <2>3 DEF Leaves, Exchange, Calling, Waits
  <2> QED
    BY <2>2, <2>4 DEF Phase
<1>7. ASSUME Receives, OnlyPushed, OnlyGets, NEW code \in Code,
             WriteFrame(code, NoQuery), UNCHANGED <<link, mode, answers, known>>
      PROVE  /\ state' = "CONNECT" /\ known' /\ tab' = "realtime" /\ link' = "up"
             /\ mode' \in {"realtime", "sending"} /\ OnlyPushed'
             /\ code = "GET_REALTIME_VARIABLES" => OnlyGets'
             /\ \A i \in DOMAIN requests' :
                   \/ requests'[i].code = "GET_REALTIME_VARIABLES"
                   \/ i = Len(requests') /\ requests'[i].code = code
  <2> DEFINE e == [code |-> code, query |-> NoQuery]
  <2>1. e \in Frame /\ e.code = code
    BY <1>q DEF Frame
  <2>2. requests \in Seq(Frame) /\ requests' = Append(requests, e)
    BY <1>7 DEF WriteFrame, Receives, Types
  <2> HIDE DEF e
  <2>3. \A i \in DOMAIN requests' :
           \/ requests'[i].code = "GET_REALTIME_VARIABLES"
           \/ i = Len(requests') /\ requests'[i].code = code
    BY <1>7, <2>1, <2>2, FrameAdded DEF OnlyGets, All
  <2>4. code = "GET_REALTIME_VARIABLES" => OnlyGets'
    BY <1>7, <2>1, <2>2, FrameAdded DEF OnlyGets
  <2> QED
    BY <1>1, <1>7, <2>3, <2>4 DEF Receives, OnlyPushed
<1>8. CASE Receives /\ OnlyPushed /\ OnlyGets /\ cmd = "STOP_REALTIME_SENDING"
  <2>1. AskStop /\ CanWrite /\ pc' = "calling"
    BY <1>8, <1>c DEF BeginCommand, Receives, CanWrite
  <2>2. /\ WriteFrame("STOP_REALTIME_SENDING", NoQuery) /\ call' = "STOP_REALTIME_SENDING"
        /\ reader' = FALSE /\ UNCHANGED <<link, mode, answers, known, alive>>
        /\ ~cut'
    BY <2>1 DEF AskStop
  <2>3. "STOP_REALTIME_SENDING" \in Code
    BY DEF Code
  <2>4. Stops'
    BY <1>7, <1>8, <2>1, <2>2, <2>3 DEF Stops, Calling
  <2>5. Receives'
    BY <1>7, <1>8, <2>2, <2>3, <2>4 DEF Receives
  <2> QED
    BY <2>2, <2>5 DEF Phase
<1>9. CASE Receives /\ OnlyPushed /\ OnlyGets /\ cmd = "GET_REALTIME" /\ "connect" \notin buttons
  <2>1. GetRealtimeVariables /\ pc' = "top"
    BY <1>9, <1>c DEF BeginCommand, Receives, CanWrite
  <2>2. /\ WriteFrame("GET_REALTIME_VARIABLES", NoQuery)
        /\ UNCHANGED <<link, mode, answers, known, alive, cut>>
    BY <2>1 DEF GetRealtimeVariables
  <2>3. "GET_REALTIME_VARIABLES" \in Code
    BY DEF Code
  <2>4. Receives'
    BY <1>1, <1>7, <1>9, <2>1, <2>2, <2>3 DEF Receives, Resting
  <2> QED
    BY <2>2, <2>4 DEF Phase
<1> QED
  BY <1>2, <1>4, <1>5, <1>6, <1>8, <1>9

(* What is read is the answer: anything else would have been trouble. *)
LEMMA ReturnsCalm ==
    ASSUME Quiet, UNCHANGED viewVars, Returns, trouble' = {}
    PROVE  alive' /\ ~cut' /\ Phase'
<1> USE DEF Quiet
<1>1. PICK f \in Readable : HelloReturns(f) \/ QueryReturns(f) \/ ResetReturns(f)
         \/ DisconnectReturns(f) \/ ModeReturns(f) \/ StopReturns(f)
  BY DEF Returns
<1>2. /\ UNCHANGED <<gui, state, buttons, tab, command, reader, cut, mode>>
      /\ pc = "calling" /\ ReadFrame(f) /\ f.code # Pushed
  BY <1>1 DEF viewVars, HelloReturns, QueryReturns, ResetReturns, DisconnectReturns, ModeReturns,
              StopReturns, EndAnswered, QueryAnswered, ResetAnswered, ModeAnswered, Answered, Pushed
<1>3. ~(link = "up" /\ OnlyPushed)
  BY <1>2, ReadsPushed
<1>4. ASSUME NEW a, Answer(a) PROVE f.code = a /\ OnlyPushed' /\ link' = link /\ requests = << >>
  BY <1>2, <1>4, ReadsAnswer DEF Answer
<1>5. ASSUME NEW c, NEW before, NEW after, NEW a, Exchange(c, before, after, a)
      PROVE  /\ call = c /\ ~reader /\ link = "up" /\ mode = after /\ requests = << >> /\ f.code = a
             /\ (requests' = << >> => Ready(after)')
  BY <1>2, <1>3, <1>4, <1>5 DEF Exchange, Calling, Waits, Ready
<1>6. Greets \/ SetsMode \/ Queries \/ Receives \/ Leaves
  BY <1>2 DEF Phase, Away, Greeted, Resting
<1>r. UNCHANGED requests \/ ResetReturns(f)
  BY <1>1 DEF HelloReturns, QueryReturns, DisconnectReturns, ModeReturns, StopReturns,
              EndAnswered, QueryAnswered, ModeAnswered
<1>7. CASE Greets
  <2>1. call = "HELLO" /\ ~reader /\ ~known /\ state = "DISCONNECT"
    BY <1>5, <1>7 DEF Greets, Calling
  <2>2. HelloReturns(f)
    BY <1>1, <2>1 DEF QueryReturns, ResetReturns, DisconnectReturns, ModeReturns, StopReturns,
                      EndAnswered, QueryAnswered, ResetAnswered, ModeAnswered
  <2>3. /\ UNCHANGED <<requests, known, alive>>
        /\ IF f.code = "ACCEPT"
           THEN pc' = "top" /\ events' = Append(events, [signal |-> "connected", query |-> NoQuery])
           ELSE pc' = "idle"
    BY <2>2 DEF HelloReturns, EndAnswered
  <2>4. CASE f.code = "ACCEPT"
    <3>1. Exchange("HELLO", "begin", "connected", "ACCEPT")
      BY <1>4, <1>7, <2>4 DEF Greets
    <3>2. Ready("connected")'
      BY <1>5, <2>3, <3>1
    <3>3. Has(events')
      <4> DEFINE e == [signal |-> "connected", query |-> NoQuery]
      <4>1. e \in Signal /\ e.signal = "connected"
        BY DEF Signal, NoQuery, Query
      <4>2. ~Has(events)
        BY <1>2, <2>1 DEF LifeInv, Thread, Hello, Live
      <4> HIDE DEF e
      <4>3. events' = Append(events, e)
        BY <2>3, <2>4 DEF e
      <4> QED
        BY <4>1, <4>2, <4>3, SignalAdded DEF LifeInv, OneSource, Types
    <3>4. Greeted'
      BY <1>2, <2>1, <2>3, <2>4, <3>2, <3>3 DEF Greeted, Resting
    <3> QED
      BY <1>2, <2>3, <3>4 DEF Phase
  <2>5. CASE f.code # "ACCEPT"
    BY <1>2, <2>1, <2>3, <2>5 DEF Phase, Away
  <2> QED
    BY <2>4, <2>5
<1>8. CASE SetsMode
  <2>1. /\ gui = "vars" /\ state = "DISCONNECT"
        /\ Exchange(ModeCommand, "connected", OwnMode, "MODE_SUCCESSFULL")
    BY <1>2, <1>8 DEF SetsMode, Under, Resting
  <2>2. call = ModeCommand /\ f.code = "MODE_SUCCESSFULL" /\ requests = << >> /\ ~reader
        /\ link = "up" /\ mode = OwnMode
    BY <1>5, <2>1
  <2>3. ModeReturns(f)
    BY <1>1, <2>2 DEF HelloReturns, QueryReturns, ResetReturns, DisconnectReturns, StopReturns,
                      EndAnswered, QueryAnswered, ResetAnswered, ModeCommand
  <2>4. pc' = "top" /\ known' /\ alive' /\ requests' = << >>
    BY <2>2, <2>3 DEF ModeReturns, ModeAnswered
  <2>5. Answer("MODE_SUCCESSFULL")
    BY <1>3, <2>1 DEF Exchange, Waits
  <2>6. OnlyPushed' /\ link' = link
    BY <1>4, <2>5
  <2>7. SetsMode'
    BY <1>2, <2>1, <2>2, <2>4, <2>6 DEF SetsMode, Resting, Ready, OwnMode
  <2> QED
    BY <1>2, <2>4, <2>7 DEF Phase
<1>9. CASE Queries
  <2>1. Exchange(QueryCommand, "historian", "historian", QueryAnswer)
    BY <1>2, <1>9 DEF Queries, Under, Resting
  <2>2. call = QueryCommand /\ f.code = QueryAnswer /\ requests = << >>
    BY <1>5, <2>1
  <2>3. QueryReturns(f)
    BY <1>1, <2>2 DEF HelloReturns, ModeReturns, ResetReturns, DisconnectReturns, StopReturns,
                      EndAnswered, ModeAnswered, ResetAnswered, QueryCommand
  <2>4. pc' = "top" /\ known' = known /\ alive' /\ requests' = << >>
    BY <2>2, <2>3 DEF QueryReturns, QueryAnswered, HasPayload, QueryAnswer
  <2>5. Ready("historian")'
    BY <1>5, <2>1, <2>4
  <2>6. Queries'
    BY <1>2, <1>9, <2>4, <2>5 DEF Queries, Resting
  <2> QED
    BY <1>2, <2>4, <2>6 DEF Phase
<1>10. CASE Receives
  <2>1. Stops
    BY <1>2, <1>10 DEF Receives, Under, Resting
  <2>2. call = "STOP_REALTIME_SENDING" /\ ~reader /\ mode = "realtime" /\ Answer("ACCEPT") /\ link = "up"
    BY <1>3, <1>10, <2>1 DEF Receives, Stops, Calling
  <2>3. OnlyPushed' /\ link' = link /\ requests = << >>
    BY <1>4, <2>2
  <2>4. StopReturns(f)
    BY <1>1, <2>2 DEF HelloReturns, ModeReturns, ResetReturns, DisconnectReturns, QueryReturns,
                      EndAnswered, ModeAnswered, ResetAnswered, QueryAnswered
  <2>5. pc' = "top" /\ UNCHANGED <<requests, known, alive>>
    BY <2>4 DEF StopReturns, EndAnswered
  <2>6. Receives'
    BY <1>2, <1>10, <2>2, <2>3, <2>5 DEF Receives, Resting, Ready, OnlyGets, All
  <2> QED
    BY <1>2, <2>5, <2>6 DEF Phase
<1>11. CASE Leaves
  <2>1. /\ state = "DISCONNECT" /\ ~Has(events) /\ gui \notin {"set_mode", "vars"}
        /\ \/ Exchange("RESET_MODE", OwnMode, "connected", "ACCEPT")
           \/ Calling("DISCONNECT") /\ Waits("DISCONNECT", "connected")
           \/ Calling("DISCONNECT") /\ Answer("ACCEPT")
    BY <1>2, <1>11 DEF Leaves, Under
  <2>2. CASE Exchange("RESET_MODE", OwnMode, "connected", "ACCEPT")
    <3>1. /\ call = "RESET_MODE" /\ f.code = "ACCEPT" /\ requests = << >> /\ ~reader /\ link = "up"
          /\ mode = "connected" /\ Answer("ACCEPT")
      BY <1>3, <1>5, <2>2 DEF Exchange, Waits
    <3>2. ResetReturns(f)
      BY <1>1, <3>1 DEF HelloReturns, ModeReturns, StopReturns, DisconnectReturns, QueryReturns,
                        EndAnswered, ModeAnswered, QueryAnswered
    <3>3. /\ WriteFrame("DISCONNECT", NoQuery) /\ call' = "DISCONNECT" /\ pc' = "calling"
          /\ UNCHANGED <<events, alive>>
      BY <3>1, <3>2 DEF ResetReturns, ResetAnswered
    <3>4. Len(requests') = 1 /\ Head(requests').code = "DISCONNECT"
      <4>1. "DISCONNECT" \in Code /\ NoQuery \in Query
        BY DEF Code, NoQuery, Query
      <4> QED
        BY <3>1, <3>3, <4>1, WritesOne
    <3>5. OnlyPushed' /\ link' = link
      BY <1>4, <3>1
    <3>6. Leaves'
      BY <1>2, <2>1, <3>1, <3>3, <3>4, <3>5 DEF Leaves, Calling, Waits
    <3> QED
      BY <1>2, <3>3, <3>6 DEF Phase
  <2>3. CASE Calling("DISCONNECT") /\ Waits("DISCONNECT", "connected")
    BY <1>3, <2>3 DEF Waits
  <2>4. CASE Calling("DISCONNECT") /\ Answer("ACCEPT")
    <3>1. call = "DISCONNECT" /\ f.code = "ACCEPT" /\ ~reader
      BY <1>4, <2>4 DEF Calling
    <3>2. DisconnectReturns(f)
      BY <1>1, <3>1 DEF HelloReturns, ModeReturns, StopReturns, ResetReturns, QueryReturns,
                        EndAnswered, ModeAnswered, QueryAnswered, ResetAnswered
    <3>3. pc' = "top" /\ quit' /\ UNCHANGED <<events, alive>>
      BY <3>1, <3>2 DEF DisconnectReturns, EndAnswered
    <3>4. Leaves'
      BY <1>2, <2>1, <3>1, <3>3 DEF Leaves
    <3> QED
      BY <1>2, <3>3, <3>4 DEF Phase
  <2> QED
    BY <2>1, <2>2, <2>3, <2>4
<1> QED
  BY <1>6, <1>7, <1>8, <1>9, <1>10, <1>11

(* What the thread that reads the pushed frames, and the server, do. *)
LEMMA ReaderCalm ==
    ASSUME Quiet, UNCHANGED <<threadVars, viewVars>>, MtReads
    PROVE  alive' /\ ~cut' /\ Phase'
<1> USE DEF Quiet
<1>1. /\ UNCHANGED <<gui, state, buttons, tab, pc, command, cmd, mode, requests, cut, call, known, reader>>
      /\ reader
  BY DEF threadVars, viewVars, MtReads, serverVars
<1>2. Receives /\ OnlyPushed /\ link = "up" /\ ~Stops
  BY <1>1 DEF Phase, Away, Greets, Greeted, SetsMode, Queries, Receives, Stops, Leaves,
              Exchange, Calling, Ready
<1>3. PICK f \in Readable : ReadFrame(f) /\ alive' = HasPayload(f)
  BY DEF MtReads
<1>4. f.code = Pushed /\ OnlyPushed' /\ link' = link
  BY <1>2, <1>3, ReadsPushed
<1>5. alive'
  BY <1>3, <1>4 DEF HasPayload, Pushed
<1>6. Receives'
  BY <1>1, <1>2, <1>4 DEF Receives, Resting, Under, Ready, OnlyGets
<1> QED
  BY <1>1, <1>5, <1>6 DEF Phase

LEMMA PushCalm ==
    ASSUME Quiet, UNCHANGED <<threadVars, viewVars>>, Push
    PROVE  alive' /\ ~cut' /\ Phase'
<1> USE DEF Quiet
<1>1. UNCHANGED <<gui, state, buttons, tab, pc, command, cmd, quit, events, mode, requests, link, cut,
                  call, known, reader, alive>>
  BY DEF threadVars, viewVars, Push
<1>2. /\ OnlyPushed => OnlyPushed'
      /\ \A a : With(answers, a) => With(answers', a)
  <2> DEFINE e == PlainFrame("REALTIME_VARIABLES_RESPONSE")
  <2>1. e \in Frame /\ e.code = Pushed
    BY DEF PlainFrame, NoQuery, Frame, Query, Code, Pushed
  <2> HIDE DEF e
  <2>2. answers \in Seq(Frame) /\ answers' = Append(answers, e)
    BY DEF Push, Types, e
  <2> QED
    BY <2>1, <2>2, FrameAdded DEF OnlyPushed
<1> USE <1>1, <1>2 DEF Resting, Under, Calling, Ready, Waits, Answer, Exchange, OwnMode,
                       QueryAnswer, QueryCommand, ModeCommand
<1>4. Away => Away'
  BY DEF Away
<1>5. Greets => Greets'
  BY DEF Greets
<1>6. Greeted => Greeted'
  BY DEF Greeted
<1>7. SetsMode => SetsMode'
  BY DEF SetsMode
<1>8. Queries => Queries'
  BY DEF Queries
<1>9. Receives => Receives'
  BY DEF Receives, Stops, OnlyGets
<1>10. Leaves => Leaves'
  BY DEF Leaves
<1> QED
  BY <1>4, <1>5, <1>6, <1>7, <1>8, <1>9, <1>10 DEF Phase

LEMMA ServesExchange ==
    ASSUME Types, NEW room \in BOOLEAN, Serve(room),
           NEW c, NEW before, NEW after, NEW a \in Answers, Turns(before, c, after, a),
           Waits(c, before)
    PROVE  /\ mode' = after /\ requests' = << >> /\ With(answers', a)
           /\ link' = IF after = "disconnected" THEN "lost" ELSE link
<1>1. /\ Len(requests) = 1 /\ Head(requests).code = c /\ mode = before /\ OnlyPushed
  BY DEF Waits
<1>2. /\ Take(room, [mode |-> before, owed |-> << >>], c).mode = after
      /\ Take(room, [mode |-> before, owed |-> << >>], c).owed = <<a>>
  BY DEF Turns
<1>3. /\ requests' = Tail(requests) /\ mode' = after /\ With(answers', a)
      /\ link' = IF mode' = "disconnected" THEN "lost" ELSE link
  BY <1>1, <1>2, Serves
<1>4. requests' = << >>
  <2>1. requests \in Seq(Frame) /\ Len(requests) = 1 /\ requests' = Tail(requests)
    BY <1>1, <1>3 DEF Types
  <2> QED
    BY <2>1
<1> QED
  BY <1>3, <1>4

LEMMA ServeCalm ==
    ASSUME Quiet, UNCHANGED <<threadVars, viewVars>>, NEW room \in BOOLEAN, Serve(room)
    PROVE  alive' /\ ~cut' /\ Phase'
<1> USE DEF Quiet
<1>1. UNCHANGED <<gui, state, buttons, tab, pc, command, cmd, quit, events, cut,
                  call, known, reader, alive>>
  BY DEF threadVars, viewVars, Serve
<1>2. requests # << >> /\ link = "up"
  BY DEF Serve
<1>a. {"ACCEPT", "REJECT", "MODE_SUCCESSFULL", "HISTORIAN_VARIABLES_RESPONSE",
       "HISTORIAN_ALARMS_RESPONSE"} \subseteq Answers
  BY DEF Answers
<1>3. ASSUME NEW c, NEW before, NEW after, NEW a \in Answers, Turns(before, c, after, a),
             after # "disconnected", Exchange(c, before, after, a)
      PROVE  Calling(c)' /\ link' = "up" /\ mode' = after /\ requests' = << >> /\ With(answers', a)
  BY <1>1, <1>2, <1>3, ServesExchange DEF Exchange, Answer, Calling
<1>4. CASE Away
  BY <1>1, <1>4 DEF Away, Phase
<1>5. CASE Greets
  <2>1. Calling("HELLO") /\ Waits("HELLO", "begin")
    BY <1>2, <1>5 DEF Greets, Exchange, Answer
  <2>2. CASE room
    <3>1. /\ Take(room, [mode |-> "begin", owed |-> << >>], "HELLO").mode = "connected"
          /\ Take(room, [mode |-> "begin", owed |-> << >>], "HELLO").owed = <<"ACCEPT">>
      BY <2>2, TableOfHello
    <3>2. requests' = Tail(requests) /\ mode' = "connected" /\ With(answers', "ACCEPT") /\ link' = link
      BY <1>a, <2>1, <3>1, Serves DEF Waits
    <3>3. requests' = << >>
      BY <2>1, <3>2 DEF Waits, Types
    <3> QED
      BY <1>1, <1>2, <1>5, <2>1, <3>2, <3>3 DEF Phase, Greets, Exchange, Calling, Answer
  <2>3. CASE ~room
    <3>1. /\ Take(room, [mode |-> "begin", owed |-> << >>], "HELLO").mode = "disconnected"
          /\ Take(room, [mode |-> "begin", owed |-> << >>], "HELLO").owed = <<"REJECT">>
      BY <2>3, TableOfHello
    <3>2. requests' = Tail(requests) /\ With(answers', "REJECT")
      BY <1>a, <2>1, <3>1, Serves DEF Waits
    <3>3. requests' = << >>
      BY <2>1, <3>2 DEF Waits, Types
    <3> QED
      BY <1>1, <1>5, <2>1, <3>2, <3>3 DEF Phase, Greets, Calling, Answer
  <2> QED
    BY <2>2, <2>3
<1>6. ~Greeted
  BY <1>2 DEF Greeted, Ready
<1>7. CASE SetsMode
  <2>1. ~known /\ Exchange(ModeCommand, "connected", OwnMode, "MODE_SUCCESSFULL")
    BY <1>2, <1>7 DEF SetsMode, Ready
  <2>2. Turns("connected", ModeCommand, OwnMode, "MODE_SUCCESSFULL") /\ OwnMode # "disconnected"
    BY Table DEF ModeCommand, OwnMode
  <2>3. /\ Calling(ModeCommand)' /\ link' = "up" /\ mode' = OwnMode /\ requests' = << >>
        /\ With(answers', "MODE_SUCCESSFULL")
    <3>1. PICK c, m : c = ModeCommand /\ m = OwnMode
      OBVIOUS
    <3>2. Calling(c)' /\ link' = "up" /\ mode' = m /\ requests' = << >> /\ With(answers', "MODE_SUCCESSFULL")
      BY <1>3, <1>a, <2>1, <2>2, <3>1
    <3>3. ModeCommand' = ModeCommand
      BY <1>1 DEF ModeCommand
    <3> QED
      BY <3>1, <3>2, <3>3 DEF Calling
  <2> QED
    BY <1>1, <1>7, <2>1, <2>3 DEF Phase, SetsMode, Exchange, Answer, OwnMode
<1>8. CASE Queries
  <2>1. Exchange(QueryCommand, "historian", "historian", QueryAnswer)
    BY <1>2, <1>8 DEF Queries, Ready
  <2>2. Turns("historian", QueryCommand, "historian", QueryAnswer) /\ QueryAnswer \in Answers
    BY Table, <1>a DEF QueryCommand, QueryAnswer
  <2>3. PICK c, a : c = QueryCommand /\ a = QueryAnswer
    OBVIOUS
  <2>4. Calling(c)' /\ link' = "up" /\ mode' = "historian" /\ requests' = << >> /\ With(answers', a)
    BY <1>3, <2>1, <2>2, <2>3
  <2>5. QueryCommand' = c /\ QueryAnswer' = a
    BY <1>1, <2>3 DEF QueryCommand, QueryAnswer
  <2> QED
    BY <1>1, <1>8, <2>4, <2>5 DEF Phase, Queries, Exchange, Answer, Calling
<1>9. CASE Receives
  <2>1. /\ state' = "CONNECT" /\ known' /\ tab' = "realtime"
    BY <1>1, <1>9 DEF Receives
  <2>2. CASE OnlyPushed /\ OnlyGets /\ ~Stops
    <3>1. Head(requests).code = "GET_REALTIME_VARIABLES" /\ requests \in Seq(Frame)
      BY <1>2, <2>2, AllOfTail DEF OnlyGets, Types
    <3>2. /\ Take(room, [mode |-> mode, owed |-> << >>], "GET_REALTIME_VARIABLES").mode = "sending"
          /\ Take(room, [mode |-> mode, owed |-> << >>], "GET_REALTIME_VARIABLES").owed = << >>
      BY <1>9, TableOfReceiving DEF Receives, Ignored
    <3>3. requests' = Tail(requests) /\ mode' = "sending" /\ answers' = answers /\ link' = link
      BY <3>1, <3>2, Serves
    <3>4. OnlyPushed' /\ OnlyGets'
      BY <1>2, <2>2, <3>1, <3>3, AllOfTail DEF OnlyPushed, OnlyGets
    <3>5. Receives'
      BY <1>1, <1>2, <1>9, <2>2, <3>3, <3>4 DEF Receives, Resting, Under, Ready
    <3> QED
      BY <1>1, <3>5 DEF Phase
  <2>3. CASE Stops
    <3>1. /\ Calling("STOP_REALTIME_SENDING") /\ OnlyPushed
          /\ \A i \in DOMAIN requests :
                \/ requests[i].code = "GET_REALTIME_VARIABLES"
                \/ i = Len(requests) /\ requests[i].code = "STOP_REALTIME_SENDING"
      BY <1>2, <2>3 DEF Stops, Answer
    <3>2. /\ requests \in Seq(Frame) /\ DOMAIN requests = 1 .. Len(requests) /\ Len(requests) \in Nat \ {0}
          /\ Head(requests) = requests[1]
      BY <1>2 DEF Types
    <3>3. Calling("STOP_REALTIME_SENDING")'
      BY <1>1, <3>1 DEF Calling
    <3>4. CASE Head(requests).code = "GET_REALTIME_VARIABLES"
      <4>1. /\ Take(room, [mode |-> mode, owed |-> << >>], "GET_REALTIME_VARIABLES").mode = "sending"
            /\ Take(room, [mode |-> mode, owed |-> << >>], "GET_REALTIME_VARIABLES").owed = << >>
        BY <1>9, TableOfReceiving DEF Receives, Ignored
      <4>2. requests' = Tail(requests) /\ mode' = "sending" /\ answers' = answers /\ link' = link
        BY <3>4, <4>1, Serves
      <4>3. /\ DOMAIN requests' = 1 .. Len(requests) - 1 /\ Len(requests') = Len(requests) - 1
            /\ \A i \in DOMAIN requests' : requests'[i] = requests[i + 1]
        BY <1>2, <3>2, <4>2
      <4>4. \A i \in DOMAIN requests' :
               i + 1 \in DOMAIN requests /\ (i + 1 = Len(requests) => i = Len(requests'))
        BY <3>2, <4>3
      <4>5. \A i \in DOMAIN requests' :
               \/ requests'[i].code = "GET_REALTIME_VARIABLES"
               \/ i = Len(requests') /\ requests'[i].code = "STOP_REALTIME_SENDING"
        BY <3>1, <4>3, <4>4
      <4>6. Stops'
        BY <3>1, <3>3, <4>2, <4>5 DEF Stops, OnlyPushed
      <4> QED
        BY <1>1, <1>2, <2>1, <4>2, <4>6 DEF Phase, Receives
    <3>5. CASE Head(requests).code = "STOP_REALTIME_SENDING"
      <4>1. 1 = Len(requests)
        BY <3>1, <3>2, <3>5
      <4>2. Waits("STOP_REALTIME_SENDING", mode)
        BY <1>2, <3>1, <3>5, <4>1 DEF Waits
      <4>3. CASE mode = "sending"
        <5>1. mode' = "realtime" /\ requests' = << >> /\ With(answers', "ACCEPT") /\ link' = link
          BY <1>a, <4>2, <4>3, Table, ServesExchange
        <5> QED
          BY <1>1, <1>2, <2>1, <3>3, <5>1 DEF Phase, Receives, Stops, Answer
      <4>4. CASE mode = "realtime"
        <5>1. /\ Take(room, [mode |-> mode, owed |-> << >>], "STOP_REALTIME_SENDING").mode = "realtime"
              /\ Take(room, [mode |-> mode, owed |-> << >>], "STOP_REALTIME_SENDING").owed = << >>
          BY <4>4, TableOfReceiving DEF Ignored
        <5>2. requests' = Tail(requests) /\ mode' = "realtime" /\ answers' = answers /\ link' = link
          BY <3>5, <5>1, Serves
        <5>3. requests' = << >>
          BY <3>2, <4>1, <5>2
        <5>4. Stops'
          BY <3>1, <3>3, <5>2, <5>3 DEF Stops, OnlyPushed
        <5> QED
          BY <1>1, <1>2, <2>1, <5>2, <5>4 DEF Phase, Receives
      <4> QED
        BY <1>9, <4>3, <4>4 DEF Receives
    <3> QED
      BY <3>1, <3>2, <3>4, <3>5
  <2> QED
    BY <1>2, <1>9, <2>2, <2>3 DEF Receives, Ready
<1>10. CASE Leaves
  <2>1. CASE Exchange("RESET_MODE", OwnMode, "connected", "ACCEPT")
    <3>1. Turns(OwnMode, "RESET_MODE", "connected", "ACCEPT")
      BY Table DEF OwnMode
    <3>2. /\ Calling("RESET_MODE")' /\ link' = "up" /\ mode' = "connected" /\ requests' = << >>
          /\ With(answers', "ACCEPT")
      <4>1. PICK m : m = OwnMode
        OBVIOUS
      <4> QED
        BY <1>3, <1>a, <2>1, <3>1, <4>1
    <3> QED
      BY <1>1, <1>10, <3>2 DEF Phase, Leaves, Exchange, Answer
  <2>2. CASE Calling("DISCONNECT") /\ Waits("DISCONNECT", "connected")
    <3>1. requests' = << >> /\ With(answers', "ACCEPT")
      BY <1>a, <2>2, Table, ServesExchange
    <3> QED
      BY <1>1, <1>10, <2>2, <3>1 DEF Phase, Leaves, Calling, Answer
  <2>3. CASE pc = "top" /\ quit /\ ~reader
    BY <1>1, <1>10, <2>3 DEF Phase, Leaves
  <2> QED
    BY <1>2, <1>10, <2>1, <2>2, <2>3 DEF Leaves, Ready, Answer
<1> QED
  BY <1>4, <1>5, <1>6, <1>7, <1>8, <1>9, <1>10 DEF Phase

-----------------------------------------------------------------------------
(* Trouble is not forgotten, so that only steps without it matter. *)
LEMMA TroubleGrows == [Next]_vars => trouble \subseteq trouble'
BY Steps DEF User, ClickConnect, CloseDialog, ClickAdd, ClickClear, ClickQuery, ClickSelect,
     ClickDeselect, ClickStart, ClickStop, ClickChoose, Deliver, Calls, CallConnect, CallSetMode,
     CallVarsConfigured, CallDisconnect, CallQuery, CallDescribe, CallLook, CallStart, CallStop,
     ConnectToServer, Give, RunStarts, AskHello, Wait, RunEnds, TakeCommand, BeginCommand, Asks, Ask,
     AskStop, GetRealtimeVariables, Returns, HelloReturns, QueryReturns, ResetReturns,
     DisconnectReturns, ModeReturns, StopReturns, EndAnswered, QueryAnswered, ResetAnswered,
     ModeAnswered, Answered, MtReads, Push, Drop, Serve, vars, workerVars, clientVars

LEMMA StepCalm ==
    ASSUME Types, LifeInv, Window, Calm, [Next]_vars
    PROVE  Calm'
<1> SUFFICES ASSUME trouble' = {} PROVE alive' /\ ~cut' /\ Phase'
  BY DEF Calm
<1>1. trouble = {}
  BY TroubleGrows
<1>2. Quiet
  BY <1>1 DEF Quiet, Calm
<1>3. CASE UNCHANGED vars
  <2>1. UNCHANGED <<alive, cut>>
    BY <1>3 DEF vars, workerVars, clientVars, netVars
  <2>2. Phase' = Phase
    BY <1>3 DEF vars, workerVars, clientVars, netVars, serverVars, threadVars, viewVars,
        Phase, Away, Greets, Greeted, SetsMode, Queries, Receives, Stops, Leaves, Resting, Under,
        Calling, Ready, Waits, Answer, Exchange, OwnMode, QueryAnswer, QueryCommand, ModeCommand,
        OnlyPushed, OnlyGets
  <2> QED
    BY <1>2, <2>1, <2>2 DEF Quiet
<1>4. ~Drop
  BY DEF Drop
<1>5. ASSUME UNCHANGED threadVars, UNCHANGED viewVars PROVE UNCHANGED <<threadVars, viewVars>>
  BY <1>5
<1> QED
  BY <1>2, <1>3, <1>4, <1>5, UserCalm, DeliverCalm, CallsCalm, ThreadCalm, BeginCalm, ReturnsCalm,
     ReaderCalm, PushCalm, ServeCalm, Steps

LEMMA AlwaysCalm == Spec => [](Types /\ LifeInv /\ Window /\ Calm)
<1>1. Init => Window /\ Calm
  BY DEF Init, WorkerInit, ClientInit, Window, Calm, Phase, Away
<1>2. ClientInv /\ Window /\ Calm /\ [Next]_vars => (Window /\ Calm)'
  BY StepWindow, StepCalm DEF ClientInv
<1>3. ClientInv => Types /\ LifeInv
  BY DEF ClientInv
<1> QED
  BY AlwaysClient, <1>1, <1>2, <1>3, PTL DEF Spec

(* AHPClient::getRealtimeVariables and stopRealtimeSending, and the        *)
(* unpacking of what a query returns: as long as no connection breaks, no  *)
(* command is missed, the mode is set within the second, no real-time      *)
(* frame is taken for an answer and Mt is not killed inside a frame, the   *)
(* client lives and Mt never reads beside a waiting call - for any number  *)
(* of connections, queries and subscriptions.                              *)
THEOREM SoundWithoutTroubleAlways == Spec => []SoundWithoutTrouble
<1>1. LifeInv /\ Calm => SoundWithoutTrouble
  BY DEF SoundWithoutTrouble, Calm, LifeInv, Thread, Phase, Away, Greets, Greeted, SetsMode, Queries,
         Receives, Stops, Leaves, Exchange, Calling, Ready, Resting, Under
<1> QED
  BY AlwaysCalm, <1>1, PTL

(* The slots of ClientView and run() of ClientWorker: without that trouble *)
(* the window and the session agree whenever the thread waits for a        *)
(* command - the tab is enabled in the mode it works with, or the signal   *)
(* "connected" is still to be delivered.                                   *)
THEOREM InAgreementAlways == Spec => []InAgreement
<1>1. LifeInv /\ Calm => InAgreement
  <2> SUFFICES ASSUME Calm, trouble = {}, gui = "idle", pc = "waiting"
               PROVE  \/ state = "DISCONNECT" /\ events # << >>
                      \/ state = "CONNECT" /\
                           mode \in IF tab = "realtime" THEN {"realtime", "sending"} ELSE {"historian"}
    BY DEF InAgreement
  <2>1. Greeted \/ Queries \/ Receives
    BY DEF Calm, Phase, Away, Greets, SetsMode, Leaves, Exchange, Calling, Under
  <2>2. Greeted => state = "DISCONNECT" /\ events # << >>
    BY DEF Greeted, Has
  <2>3. Queries => state = "CONNECT" /\ tab # "realtime" /\ mode = "historian"
    BY DEF Queries, Ready, Exchange, Calling, Under
  <2>4. Receives => state = "CONNECT" /\ tab = "realtime" /\ mode \in {"realtime", "sending"}
    BY DEF Receives
  <2> QED
    BY <2>1, <2>2, <2>3, <2>4
<1> QED
  BY AlwaysCalm, <1>1, PTL
=============================================================================
