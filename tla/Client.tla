------------------------------- MODULE Client -------------------------------
(***************************************************************************)
(* Clients and the daemons they start (src/ipc/client.rs, main.rs,         *)
(* settings.rs and the start of daemon.rs).  A client runs one command;    *)
(* for every request of it, it connects to the socket of its settings,     *)
(* starts a daemon when nothing listens there, and waits for an answer.    *)
(* Daemons race each other for the socket, load the queue, answer, and end *)
(* by a shutdown or a crash.                                               *)
(*                                                                         *)
(* What a request does to the queue is the subject of Daemon.tla.  Here it *)
(* is executed or not, and answered with success or with an error.         *)
(***************************************************************************)
EXTENDS Commands, FiniteSets

CONSTANTS
    Clients,       \* client processes, each of which runs one command
    CommandsOf,    \* the commands each of them chooses from
    HomeOf,        \* the data directory of each client (MOCHI_HOME)
    UserOf,        \* the user of each client
    Namespaced,    \* whether the platform has namespaced sockets; otherwise they are files
    MayCrash,      \* whether a daemon can die other than by a shutdown
    LoadMayFail,   \* whether the state file may turn out unreadable
    LongQueue,     \* whether the list of all jobs may exceed MAX_MSG_LEN
    LongRequests,  \* the kinds of requests that may exceed it
    MaxDaemons     \* bound of the model: daemon processes at one time

ASSUME ClientAssumption ==
    /\ Clients # {}
    /\ \A c \in Clients : \A requests \in CommandsOf[c] :
          /\ requests \in Seq(Range(requests))
          /\ \A k \in 1 .. Len(requests) : requests[k][1] \in Kinds
    /\ HomeOf \in [Clients -> STRING]
    /\ UserOf \in [Clients -> STRING]
    /\ Namespaced \in BOOLEAN
    /\ MayCrash \in BOOLEAN
    /\ LoadMayFail \in BOOLEAN
    /\ LongQueue \in BOOLEAN
    /\ LongRequests \subseteq Kinds
    /\ MaxDaemons \in Nat

\* A data directory belongs to one user: the socket is named after the user, the
\* state file is not, so nothing keeps the daemons of two users apart.
ASSUME PrivateHomes ==
    \A c, other \in Clients : HomeOf[c] = HomeOf[other] => UserOf[c] = UserOf[other]

VARIABLES
    pc,         \* where each client is
    command,    \* the requests of its command
    next,       \* the number of the request it works on
    had_error,  \* whether a request was answered with an error
    link,       \* the daemon it is connected to or has started, 0 for none
    mail,       \* its connection: what has become of the request
    answer,     \* the answer it will read
    phase,      \* where each daemon process is
    owner,      \* the client that started it, whose settings it has; Anyone if there is none
    leaving,    \* whether it has been asked to shut down
    socket,     \* the daemon bound to each name
    executed,   \* history: the requests of each client that were executed
    lost        \* history: whether a daemon on its socket ended during its command

clientVars == <<pc, command, next, had_error>>
connVars   == <<link, mail, answer>>
daemonVars == <<phase, owner, leaving, socket>>
vars       == <<clientVars, connVars, daemonVars, executed, lost>>

Daemons == 1 .. MaxDaemons
Free    == 0                 \* nobody is bound
Stale   == MaxDaemons + 1    \* a socket file whose daemon is gone

Anyone  == CHOOSE c \in Clients : TRUE

\* Settings::resolve and socket_name.
SocketName(c) == IF Namespaced THEN <<UserOf[c]>> ELSE <<UserOf[c], HomeOf[c]>>
SocketNames   == {SocketName(c) : c \in Clients}

Listening(c) == socket[SocketName(c)] \in Daemons

\* A daemon past bind: it has the socket, and next it loads and saves the queue.
Bound   == {d \in Daemons : phase[d] \in {"bound", "serving"}}
HomeOfDaemon(d) == HomeOf[owner[d]]

Working == {"connect", "retry", "receive"}
Over    == {"done", "failed", "rejected", "interrupted"}

-----------------------------------------------------------------------------
(* The client *)

Goes(c, to) == pc' = [pc EXCEPT ![c] = to]

Start(c) ==
    /\ pc[c] = "idle"
    /\ \E requests \in CommandsOf[c] :
          /\ command' = [command EXCEPT ![c] = requests]
          /\ Goes(c, IF requests = <<>> THEN "rejected" ELSE "connect")
    /\ UNCHANGED <<next, had_error, connVars, daemonVars, executed, lost>>

\* Connects to the daemon that listens and writes the request.
Send(c) ==
    /\ Listening(c)
    /\ link' = [link EXCEPT ![c] = socket[SocketName(c)]]
    /\ mail' = [mail EXCEPT ![c] = "sent"]
    /\ Goes(c, "receive")
    /\ UNCHANGED <<answer, daemonVars>>

\* Starts a daemon with the settings of this client.
SpawnDaemon(c) ==
    /\ ~Listening(c)
    /\ \E d \in Daemons :
          /\ phase[d] = "none"
          /\ \A other \in Daemons : phase[other] = "none" => d <= other
          /\ phase' = [phase EXCEPT ![d] = "starting"]
          /\ owner' = [owner EXCEPT ![d] = c]
          /\ link' = [link EXCEPT ![c] = d]
    /\ Goes(c, "retry")
    /\ UNCHANGED <<mail, answer, leaving, socket>>

\* connect_or_spawn: one attempt, and a daemon when it fails.
Connect(c) ==
    /\ pc[c] = "connect"
    /\ Send(c) \/ SpawnDaemon(c)
    /\ UNCHANGED <<command, next, had_error, executed, lost>>

Retry(c) ==
    /\ pc[c] = "retry"
    /\ Send(c)
    /\ UNCHANGED <<command, next, had_error, executed, lost>>

\* An error of spawn_daemon ends the command.
SpawnFails(c) ==
    /\ pc[c] = "connect"
    /\ ~Listening(c)
    /\ Goes(c, "failed")
    /\ UNCHANGED <<command, next, had_error, connVars, daemonVars, executed, lost>>

\* Mutant of GiveUp: the end of the daemon that it started is taken for a failure.
GiveUp_WithItsDaemon(c) ==
    /\ pc[c] = "retry"
    /\ link[c] = 0
    /\ Goes(c, "failed")
    /\ UNCHANGED <<command, next, had_error, connVars, daemonVars, executed, lost>>

\* The hundred attempts of five seconds are used up: nobody listens, be it that the
\* daemon it started has ended or that it has not come up yet.
GiveUp(c) ==
    /\ pc[c] = "retry"
    /\ ~Listening(c)
    /\ link' = [link EXCEPT ![c] = 0]
    /\ Goes(c, "failed")
    /\ UNCHANGED <<command, next, had_error, mail, answer, daemonVars, executed, lost>>

\* Mutant of NextRequest: one request too many.
NextRequest_TooFar(c) ==
    /\ next[c] <= Len(command[c])
    /\ next' = [next EXCEPT ![c] = @ + 1]
    /\ Goes(c, "connect")

\* The connection is dropped and the command goes on with its next request.
NextRequest(c) ==
    /\ next[c] < Len(command[c])
    /\ next' = [next EXCEPT ![c] = @ + 1]
    /\ Goes(c, "connect")

\* Mutant of Note: the last answer decides.
Note_LastOnly(c) == had_error' = [had_error EXCEPT ![c] = answer[c] = "Error"]

\* An error is remembered for the exit status; it stops no command.
Note(c) == had_error' = [had_error EXCEPT ![c] = @ \/ answer[c] = "Error"]

HangUp(c) ==
    /\ link' = [link EXCEPT ![c] = 0]
    /\ mail' = [mail EXCEPT ![c] = "none"]
    /\ answer' = [answer EXCEPT ![c] = "none"]

\* An answer that read_msg accepts.  After the list of all jobs, resume_all stops
\* when none is paused, asks when some are queued, and otherwise goes on.
Receive(c) ==
    /\ pc[c] = "receive"
    /\ mail[c] = "answered"
    /\ answer[c] # "TooLong"
    /\ Note(c)
    /\ HangUp(c)
    /\ \/ NextRequest(c)
       \/ next[c] = Len(command[c]) /\ Goes(c, "done") /\ UNCHANGED next
       \/ command[c] = resume_all /\ next[c] = 1 /\ Goes(c, "done") /\ UNCHANGED next
       \/ command[c] = resume_all /\ next[c] = 1 /\ Goes(c, "ask") /\ UNCHANGED next
    /\ UNCHANGED <<command, daemonVars, executed, lost>>

\* confirm: whatever is not a yes is a no.
Confirm(c) ==
    /\ pc[c] = "ask"
    /\ \/ NextRequest(c)
       \/ Goes(c, "done") /\ UNCHANGED next
    /\ UNCHANGED <<command, had_error, connVars, daemonVars, executed, lost>>

\* Mutant of ReceiveFails: the request is sent again.
ReceiveFails_Resends(c) ==
    /\ pc[c] = "receive"
    /\ mail[c] \in {"broken", "refused"} \/ answer[c] = "TooLong"
    /\ HangUp(c)
    /\ Goes(c, "connect")
    /\ UNCHANGED <<command, next, had_error, daemonVars, executed, lost>>

\* Mutant of ReceiveFails: the end of the connection goes unnoticed.
ReceiveFails_NoEof(c) ==
    /\ pc[c] = "receive"
    /\ answer[c] = "TooLong"
    /\ mail[c] = "answered"
    /\ HangUp(c)
    /\ Goes(c, "failed")
    /\ UNCHANGED <<command, next, had_error, daemonVars, executed, lost>>

\* The connection broke, or the answer or the request is longer than read_msg
\* accepts; each ends the command, with its later requests not sent.
ReceiveFails(c) ==
    /\ pc[c] = "receive"
    /\ mail[c] \in {"broken", "refused"} \/ answer[c] = "TooLong"
    /\ HangUp(c)
    /\ Goes(c, "failed")
    /\ UNCHANGED <<command, next, had_error, daemonVars, executed, lost>>

\* Ctrl+C; what was sent stays sent.
Interrupt(c) ==
    /\ pc[c] \in Working \cup {"ask"}
    /\ Goes(c, "interrupted")
    /\ UNCHANGED <<command, next, had_error, connVars, daemonVars, executed, lost>>

-----------------------------------------------------------------------------
(* The daemon *)

\* The process is gone: its connections break unless they were answered, and a
\* socket file stays where it is, since exit runs no destructor.
Ends(d) ==
    /\ phase' = [phase EXCEPT ![d] = "none"]
    /\ owner' = [owner EXCEPT ![d] = Anyone]
    /\ leaving' = [leaving EXCEPT ![d] = FALSE]
    /\ socket' = [name \in SocketNames |->
                    IF socket[name] = d THEN IF Namespaced THEN Free ELSE Stale ELSE socket[name]]
    /\ mail' = [c \in Clients |->
                  IF link[c] = d /\ mail[c] \in {"sent", "handled"} THEN "broken" ELSE mail[c]]
    /\ link' = [c \in Clients |-> IF link[c] = d THEN 0 ELSE link[c]]
    /\ lost' = [c \in Clients |->
                  lost[c] \/ (pc[c] \in Working /\ socket[SocketName(c)] = d)]
    /\ UNCHANGED <<clientVars, answer, executed>>

\* Mutant of Bind: a daemon that finds the name taken goes on all the same.
Bind_IgnoresError(d) ==
    /\ phase[d] = "starting"
    /\ phase' = [phase EXCEPT ![d] = "bound"]
    /\ socket' = [socket EXCEPT ![SocketName(owner[d])] = IF @ = Free THEN d ELSE @]
    /\ UNCHANGED <<clientVars, connVars, owner, leaving, executed, lost>>

\* bind: a name that is taken, be it by a stale file, ends the process.
Bind(d) ==
    /\ phase[d] = "starting"
    /\ IF socket[SocketName(owner[d])] = Free
       THEN /\ phase' = [phase EXCEPT ![d] = "bound"]
            /\ socket' = [socket EXCEPT ![SocketName(owner[d])] = d]
            /\ UNCHANGED <<clientVars, connVars, owner, leaving, executed, lost>>
       ELSE Ends(d)

\* The queue is loaded and saved once; clients may already have connected.
LoadQueue(d) ==
    /\ phase[d] = "bound"
    /\ \/ /\ phase' = [phase EXCEPT ![d] = "serving"]
          /\ UNCHANGED <<clientVars, connVars, owner, leaving, socket, executed, lost>>
       \/ LoadMayFail /\ Ends(d)

\* The answers a request can get.
Answers(kind) ==
    CASE kind = "Shutdown" -> {"Ok"}
      [] kind = "List"     -> {"Jobs"} \cup (IF LongQueue THEN {"TooLong"} ELSE {})
      [] OTHER             -> {"Ok", "Error"}

\* handle_conn: the request is read and executed.
Handle(c) ==
    /\ link[c] \in Daemons
    /\ phase[link[c]] = "serving"
    /\ mail[c] = "sent"
    /\ mail' = [mail EXCEPT ![c] = "handled"]
    /\ \E a \in Answers(command[c][next[c]][1]) :
          /\ answer' = [answer EXCEPT ![c] = a]
          /\ executed' = [executed EXCEPT ![c] =
                            Append(@, [number |-> next[c], home |-> HomeOfDaemon(link[c]), answer |-> a])]
    /\ leaving' = [leaving EXCEPT ![link[c]] = @ \/ command[c][next[c]][1] = "Shutdown"]
    /\ UNCHANGED <<clientVars, link, phase, owner, socket, lost>>

\* read_msg accepts no request that is too long: the daemon drops the connection,
\* and goes on.
Refuse(c) ==
    /\ link[c] \in Daemons
    /\ phase[link[c]] = "serving"
    /\ mail[c] = "sent"
    /\ command[c][next[c]][1] \in LongRequests
    /\ mail' = [mail EXCEPT ![c] = "refused"]
    /\ UNCHANGED <<clientVars, link, answer, daemonVars, executed, lost>>

\* The answer is written; write_msg has no limit of its own.
Reply(c) ==
    /\ mail[c] = "handled"
    /\ mail' = [mail EXCEPT ![c] = "answered"]
    /\ UNCHANGED <<clientVars, link, answer, daemonVars, executed, lost>>

\* The exit that a shutdown has put off by 50 ms, and any other.
Exit(d)  == leaving[d] /\ Ends(d)
Crash(d) == MayCrash /\ d \in Bound /\ Ends(d)

-----------------------------------------------------------------------------
ClientInit ==
    /\ pc = [c \in Clients |-> "idle"]
    /\ command = [c \in Clients |-> <<>>]
    /\ next = [c \in Clients |-> 1]
    /\ had_error = [c \in Clients |-> FALSE]
    /\ link = [c \in Clients |-> 0]
    /\ mail = [c \in Clients |-> "none"]
    /\ answer = [c \in Clients |-> "none"]
    /\ phase = [d \in Daemons |-> "none"]
    /\ owner = [d \in Daemons |-> Anyone]
    /\ leaving = [d \in Daemons |-> FALSE]
    /\ socket = [name \in SocketNames |-> Free]
    /\ executed = [c \in Clients |-> <<>>]
    /\ lost = [c \in Clients |-> FALSE]

\* What a client does by itself; starting it and answering its prompt is the user's.
ClientStep(c) ==
    Connect(c) \/ SpawnFails(c) \/ Retry(c) \/ GiveUp(c) \/ Receive(c) \/ ReceiveFails(c)

ClientNext ==
    \/ \E c \in Clients :
          \/ Start(c) \/ Connect(c) \/ SpawnFails(c) \/ Retry(c) \/ GiveUp(c)
          \/ Receive(c) \/ ReceiveFails(c) \/ Confirm(c) \/ Interrupt(c)
          \/ Handle(c) \/ Refuse(c) \/ Reply(c)
    \/ \E d \in Daemons : Bind(d) \/ LoadQueue(d) \/ Exit(d) \/ Crash(d)

ClientSpec == ClientInit /\ [][ClientNext]_vars

\* The daemon takes each request up, one way or another, and goes on with what it
\* has begun.  A crash is not fair.
Served(c)     == Handle(c) \/ Refuse(c) \/ Reply(c)
DaemonStep(d) == Bind(d) \/ LoadQueue(d) \/ Exit(d)

\* The runtime gets round to every client and daemon; the 50 ms before an exit pass.
ClientFairness ==
    /\ \A c \in Clients : WF_vars(ClientStep(c)) /\ WF_vars(Served(c))
    /\ \A d \in Daemons : WF_vars(DaemonStep(d))

FairClientSpec == ClientSpec /\ ClientFairness

-----------------------------------------------------------------------------
(* Properties *)

ClientTypeOK ==
    /\ pc \in [Clients -> Working \cup Over \cup {"idle", "ask"}]
    /\ DOMAIN command = Clients /\ \A c \in Clients : command[c] \in CommandsOf[c] \cup {<<>>}
    /\ next \in [Clients -> Nat \ {0}]
    /\ \A c \in Clients : pc[c] \notin {"idle", "rejected"} => next[c] <= Len(command[c])
    /\ had_error \in [Clients -> BOOLEAN]
    /\ link \in [Clients -> Daemons \cup {0}]
    /\ mail \in [Clients -> {"none", "sent", "handled", "answered", "broken", "refused"}]
    /\ answer \in [Clients -> {"none", "Ok", "Error", "Jobs", "TooLong"}]
    /\ phase \in [Daemons -> {"none", "starting", "bound", "serving"}]
    /\ owner \in [Daemons -> Clients]
    /\ leaving \in [Daemons -> BOOLEAN]
    /\ socket \in [SocketNames -> Daemons \cup {Free, Stale}]
    /\ lost \in [Clients -> BOOLEAN]

\* However many clients find nothing listening at once, one daemon comes to use
\* a state file: the others lose the race for the socket before they load it
\* (daemon.rs 37-54, client.rs 568-590).
OneDaemonPerQueue ==
    \A d, other \in Bound : d # other => HomeOfDaemon(d) # HomeOfDaemon(other)

\* The requests of a command are executed in order, none twice and none left out
\* on the way, over daemons that end between two requests or in the middle of
\* one, and clients that are interrupted (client.rs 122-322, daemon.rs 97-103).
ExecutedInOrder ==
    \A c \in Clients :
        /\ Len(executed[c]) <= next[c]
        /\ \A k \in 1 .. Len(executed[c]) : executed[c][k].number = k

\* A command with ids asks about each of them once, ranges that overlap included:
\* a rerun of 3-5 4 makes three jobs (client.rs 85-120).
NoIdTwice ==
    \A c \in Clients : \A k, other \in 1 .. Len(executed[c]) :
        k # other => command[c][executed[c][k].number] # command[c][executed[c][other].number]

\* A command that comes to its end has had all its requests executed, save that a
\* resume of all may stop after the list, and its exit status is an error exactly
\* when one of them was answered with an error (client.rs 122-311).
TruthfulExit ==
    \A c \in Clients : pc[c] = "done" =>
        /\ Len(executed[c]) = IF command[c] = resume_all THEN next[c] ELSE Len(command[c])
        /\ had_error[c] <=> \E k \in 1 .. Len(executed[c]) : executed[c][k].answer = "Error"

\* What makes a command fail: nobody listens and no daemon can be started, or the
\* one it has started is not up within its time, or a daemon on its socket has ended
\* during the command, or a message is too long.
FailsForACause(c) ==
    \/ pc[c] = "connect" /\ ~Listening(c)
    \/ pc[c] = "retry" /\ ~Listening(c)
       /\ (lost[c] \/ (link[c] \in Daemons /\ phase[link[c]] = "starting"))
    \/ pc[c] = "receive" /\ (lost[c] \/ answer[c] = "TooLong" \/ mail[c] = "refused")

\* Nothing else does: clients that start daemons at the same time, daemons that find
\* the socket taken, and a daemon that is connected to before it has its queue cost
\* nobody an answer (client.rs 577-592, daemon.rs 37-55).
FailuresHaveCauses ==
    [][\A c \in Clients : pc[c] # "failed" /\ pc'[c] = "failed" => FailsForACause(c)]_vars

\* A request is executed on the queue of the data directory its client was given.
OwnQueue ==
    \A c \in Clients : \A k \in 1 .. Len(executed[c]) : executed[c][k].home = HomeOf[c]

\* A command comes to its end, or to a question for its user.
CommandsEnd == \A c \in Clients : pc[c] \in Working ~> pc[c] \notin Working
=============================================================================
