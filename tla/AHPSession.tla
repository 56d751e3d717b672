----------------------------- MODULE AHPSession -----------------------------
(***************************************************************************)
(* AHPServer watched from the clients' end.  A client that may send ahead  *)
(* works out, command by command, in which mode its session will be and    *)
(* which answers it has still to receive; the server, which handles each   *)
(* frame much later, has to agree.  Both go by the same table, that of the *)
(* code (AHPProtocol): what is at stake is the pipeline between them - the *)
(* number given long before HELLO, frames handled while more come in,      *)
(* answers written while the main thread writes samples.                   *)
(***************************************************************************)
EXTENDS AHPServer, AHPProtocol

VARIABLE view    \* (history) per client: the mode its commands lead to and the
                 \* answers owed to it

Over    == [mode |-> "disconnected", owed |-> << >>]
Room(c) == number[c] < MAX_CONNECTIONS

(* What a step means to client c. *)
Accepts(c)  == ~open[c] /\ open'[c]
Closes(c)   == open[c] /\ ~open'[c]
Sends(c)    == open[c] /\ Len(inbox'[c]) > Len(inbox[c])
Receives(c) == open[c] /\ thread[c] = "answering" /\ thread'[c] # "answering"
                  /\ answer[c] # "none"

Observe(c) ==
    CASE Accepts(c)  -> [mode |-> "begin", owed |-> << >>]
      [] Closes(c)   -> Over
      [] Sends(c)    -> Take(Room(c), view[c], inbox'[c][Len(inbox'[c])].code)
      [] Receives(c) -> [view[c] EXCEPT !.owed = IF @ = << >> THEN @ ELSE Tail(@)]
      [] OTHER       -> view[c]

SessionInit == Init /\ view = [c \in Conns |-> Over]
SessionNext == Next /\ view' = [c \in Conns |-> Observe(c)]
SessionSpec ==
    /\ SessionInit /\ [][SessionNext]_<<vars, view>>
    /\ \A c \in Conns : WF_vars(Thread(c))

-----------------------------------------------------------------------------
(* The answer a thread writes is the one its client waits for next by the  *)
(* table of the code, also when the client has sent further commands       *)
(* meanwhile.                                                              *)
AnswersInOrder ==
    \A c \in Conns :
        open[c] /\ thread[c] = "answering" /\ answer[c] # "none" =>
            view[c].owed # << >> /\ Head(view[c].owed) = answer[c]

(* Whenever a thread has handled all its client has sent, the two agree on *)
(* the mode of the session - the one the code's table leads to, so that it *)
(* is real-time after STOP - and no answer is missing.                     *)
InStep ==
    \A c \in Conns :
        open[c] /\ thread[c] = "reading" /\ inbox[c] = << >> =>
            view[c] = [mode |-> state[c], owed |-> << >>]

(* A client that waits gets its answers, though other clients come, send   *)
(* and go and the main thread writes samples to the same socket, unless    *)
(* the connection or the process ends first.                               *)
AnswersCome ==
    \A c \in Conns : view[c].owed # << >> ~> view[c].owed = << >>
=============================================================================
