------------------------------ MODULE MCClient ------------------------------
(* Values for checking clients and the daemons they start. *)
EXTENDS Client

First == CHOOSE c \in Clients : TRUE

\* Two clients that meet: both may run two requests each, the second may end the
\* daemon under the first or send a request that is too long, and one set of
\* arguments is not valid.
MCCommands == [c \in Clients |->
    IF c = First THEN {kill_many(<< <<1, 2>>, <<2, 2>> >>), pause_or_resume(<<>>, FALSE)}
    ELSE {pause_or_resume(<<>>, FALSE), build_request("Shutdown"), build_request("Add"),
          rerun_many(<< <<5, 3>> >>)}]

MCOneCommand == [c \in Clients |-> {build_request("Add")}]

MCOneHome  == [c \in Clients |-> "home"]
MCTwoHomes == [c \in Clients |-> IF c = First THEN "home" ELSE "other"]
MCOneUser  == [c \in Clients |-> "user"]
=============================================================================
