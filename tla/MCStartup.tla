------------------------------ MODULE MCStartup ------------------------------
(* Model-checking instance of Startup: some files hmi.xml may be. *)
EXTENDS Startup

E(tag, arg) == [tag |-> tag, arg |-> arg]
P == E("project", 0)
C == E("collector", "host")

MCDocuments == {
    <<P, C, E("device", 0), E("variable", 1), E("variable", 2), E("alarm", 0)>>,
    <<P, E("bdh", 40), C, E("variable", 2), E("variable", 2)>>,
    <<P, E("bdh", 4), E("collector", "other"), C, E("variable", 3)>>,
    <<P, C>>,
    <<P, E("variable", 1)>>,
    <<P, C, E("variable", 1), E("malformed", 0)>>,
    <<C, P>> }
=============================================================================
