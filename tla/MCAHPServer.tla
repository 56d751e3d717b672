----------------------------- MODULE MCAHPServer -----------------------------
(* Model-checking instances of AHPServer and AHPSession. *)
EXTENDS AHPSession, TLC

CONSTANTS c1, c2, v1, v2

(* What a client may send: every command, with payloads that unpack and    *)
(* some that do not; or only HELLO.                                        *)
Plain(codes) == [code : codes, vars : {{}}, bad : {FALSE}]
Bad(codes)   == [code : codes, vars : {{}}, bad : {TRUE}]
Wish         == [code : {"GET_REALTIME_VARIABLES"}, vars : {{v1}}, bad : {FALSE}]
EveryFrame ==
    Wish \cup Plain(Commands \ {"GET_REALTIME_VARIABLES"})
         \cup Bad({"GET_REALTIME_VARIABLES", "GET_HISTORIAN_VARIABLES"})
Visit == Plain({"HELLO"})

MCFrames == c1 :> EveryFrame @@ c2 :> Visit
=============================================================================
