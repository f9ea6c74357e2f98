--------------------------- MODULE Client_proofs ---------------------------
(***************************************************************************)
(* What holds for any number of clients, commands and daemons.             *)
(***************************************************************************)
EXTENDS Client, Chains, TLAPS

LEMMA NamesApart == Free \notin Daemons /\ Stale \notin Daemons /\ 0 \notin Daemons
BY ClientAssumption DEF Free, Stale, Daemons

-----------------------------------------------------------------------------
(* The socket *)

Phases == {"none", "starting", "bound", "serving"}

DaemonTypes ==
    /\ phase \in [Daemons -> Phases]
    /\ owner \in [Daemons -> Clients]
    /\ socket \in [SocketNames -> Daemons \cup {Free, Stale}]

\* A daemon past bind has the name of its settings, and nobody else has one.
BoundHasName == \A d \in Bound : socket[SocketName(owner[d])] = d
NameHasBound ==
    \A name \in SocketNames : socket[name] \in Daemons =>
        socket[name] \in Bound /\ SocketName(owner[socket[name]]) = name

SocketInv == DaemonTypes /\ BoundHasName /\ NameHasBound

LEMMA NameOfClient == \A c \in Clients : SocketName(c) \in SocketNames
BY DEF SocketNames

LEMMA SpawnKeepsSocket ==
    ASSUME SocketInv, NEW c \in Clients, SpawnDaemon(c)
    PROVE  SocketInv'
<1>1. PICK d \in Daemons : /\ phase[d] = "none"
                           /\ phase' = [phase EXCEPT ![d] = "starting"]
                           /\ owner' = [owner EXCEPT ![d] = c]
  BY DEF SpawnDaemon
<1>2. socket' = socket /\ d \notin Bound /\ Bound' = Bound
  BY <1>1 DEF SpawnDaemon, Bound, SocketInv, DaemonTypes
<1>3. DaemonTypes'
  BY <1>1, <1>2 DEF SocketInv, DaemonTypes, Phases
<1>4. \A other \in Bound : owner'[other] = owner[other]
  BY <1>1, <1>2 DEF SocketInv, DaemonTypes, Bound
<1> QED
  BY <1>2, <1>3, <1>4 DEF SocketInv, BoundHasName, NameHasBound, SocketName

LEMMA EndKeepsSocket ==
    ASSUME SocketInv, NEW d \in Daemons, Ends(d)
    PROVE  SocketInv'
<1>1. /\ phase' = [phase EXCEPT ![d] = "none"]
      /\ owner' = [owner EXCEPT ![d] = Anyone]
      /\ socket' = [name \in SocketNames |->
                      IF socket[name] = d THEN IF Namespaced THEN Free ELSE Stale ELSE socket[name]]
  BY DEF Ends
<1>2. DaemonTypes'
  BY <1>1, ClientAssumption DEF SocketInv, DaemonTypes, Phases, Anyone
<1>3. Bound' = Bound \ {d}
  BY <1>1 DEF Bound, SocketInv, DaemonTypes
<1>4. \A other \in Bound \ {d} : owner'[other] = owner[other] /\ owner[other] \in Clients
  BY <1>1 DEF SocketInv, DaemonTypes, Bound
<1>5. BoundHasName'
  BY <1>1, <1>3, <1>4, NameOfClient DEF SocketInv, BoundHasName, SocketName
<1>6. NameHasBound'
  BY <1>1, <1>3, <1>4, NamesApart DEF SocketInv, NameHasBound, SocketName
<1> QED
  BY <1>2, <1>5, <1>6 DEF SocketInv

LEMMA BindKeepsSocket ==
    ASSUME SocketInv, NEW d \in Daemons, Bind(d)
    PROVE  SocketInv'
<1>1. CASE Ends(d)
  BY <1>1, EndKeepsSocket
<1>2. CASE ~Ends(d)
  <2>1. /\ phase[d] = "starting" /\ socket[SocketName(owner[d])] = Free
        /\ phase' = [phase EXCEPT ![d] = "bound"]
        /\ socket' = [socket EXCEPT ![SocketName(owner[d])] = d]
        /\ owner' = owner
    BY <1>2 DEF Bind
  <2>2. owner[d] \in Clients /\ SocketName(owner[d]) \in SocketNames /\ d \notin Bound
    BY <2>1, NameOfClient DEF SocketInv, DaemonTypes, Bound
  <2>3. DaemonTypes'
    BY <2>1, <2>2 DEF SocketInv, DaemonTypes, Phases
  <2>4. Bound' = Bound \cup {d}
    BY <2>1 DEF Bound, SocketInv, DaemonTypes
  <2>5. \A other \in Bound : SocketName(owner[other]) # SocketName(owner[d]) /\ owner[other] \in Clients
    BY <2>1, NamesApart DEF SocketInv, BoundHasName, Bound, DaemonTypes
  <2>6. BoundHasName'
    BY <2>1, <2>2, <2>4, <2>5, NameOfClient DEF SocketInv, DaemonTypes, BoundHasName, SocketName
  <2>7. NameHasBound'
    BY <2>1, <2>2, <2>4, NamesApart DEF SocketInv, DaemonTypes, NameHasBound, SocketName
  <2> QED
    BY <2>3, <2>6, <2>7 DEF SocketInv
<1> QED
  BY <1>1, <1>2

LEMMA LoadKeepsSocket ==
    ASSUME SocketInv, NEW d \in Daemons, LoadQueue(d)
    PROVE  SocketInv'
<1>1. CASE Ends(d)
  BY <1>1, EndKeepsSocket
<1>2. CASE ~Ends(d)
  <2>1. /\ phase[d] = "bound" /\ phase' = [phase EXCEPT ![d] = "serving"]
        /\ owner' = owner /\ socket' = socket
    BY <1>2 DEF LoadQueue
  <2>2. DaemonTypes' /\ Bound' = Bound
    BY <2>1 DEF SocketInv, DaemonTypes, Phases, Bound
  <2> QED
    BY <2>1, <2>2 DEF SocketInv, BoundHasName, NameHasBound, SocketName
<1> QED
  BY <1>1, <1>2

LEMMA RestKeepsSocket ==
    ASSUME SocketInv, UNCHANGED <<phase, owner, socket>>
    PROVE  SocketInv'
BY DEF SocketInv, DaemonTypes, BoundHasName, NameHasBound, Bound, SocketName

LEMMA SocketStep == SocketInv /\ [ClientNext]_vars => SocketInv'
<1> SUFFICES ASSUME SocketInv, [ClientNext]_vars PROVE SocketInv'
  OBVIOUS
<1>1. ASSUME NEW c \in Clients,
             \/ Start(c) \/ SpawnFails(c) \/ GiveUp(c) \/ Receive(c) \/ ReceiveFails(c) \/ Confirm(c)
             \/ Interrupt(c) \/ Handle(c) \/ Refuse(c) \/ Reply(c)
      PROVE  SocketInv'
  BY <1>1, RestKeepsSocket
     DEF Start, SpawnFails, GiveUp, Receive, ReceiveFails, Confirm, Interrupt, Handle, Refuse, Reply,
         daemonVars
<1>2. ASSUME NEW c \in Clients, Connect(c) \/ Retry(c)
      PROVE  SocketInv'
  BY <1>2, RestKeepsSocket, SpawnKeepsSocket DEF Connect, Retry, Send, daemonVars
<1>3. ASSUME NEW d \in Daemons, Bind(d) \/ LoadQueue(d) \/ Exit(d) \/ Crash(d)
      PROVE  SocketInv'
  BY <1>3, BindKeepsSocket, LoadKeepsSocket, EndKeepsSocket DEF Exit, Crash
<1>4. CASE UNCHANGED vars
  BY <1>4, RestKeepsSocket DEF vars, daemonVars
<1> QED
  BY <1>1, <1>2, <1>3, <1>4 DEF ClientNext

LEMMA SocketInit == ClientInit => SocketInv
BY ClientAssumption, NamesApart
   DEF ClientInit, SocketInv, DaemonTypes, Phases, BoundHasName, NameHasBound, Bound, Anyone

LEMMA SocketInvariant == ClientSpec => []SocketInv
BY SocketInit, SocketStep, PTL DEF ClientSpec

\* However many clients start daemons at once, one of them at most has the queue of
\* a data directory (daemon.rs 37-54).
THEOREM OneDaemonEach == ClientSpec => []OneDaemonPerQueue
<1>1. ASSUME SocketInv, NEW d \in Bound, NEW other \in Bound, HomeOfDaemon(d) = HomeOfDaemon(other)
      PROVE  d = other
  <2>1. owner[d] \in Clients /\ owner[other] \in Clients
    BY <1>1 DEF SocketInv, DaemonTypes, Bound
  <2>2. SocketName(owner[d]) = SocketName(owner[other])
    BY <1>1, <2>1, PrivateHomes DEF HomeOfDaemon, SocketName
  <2> QED
    BY <1>1, <2>2 DEF SocketInv, BoundHasName
<1>2. SocketInv => OneDaemonPerQueue
  BY <1>1 DEF OneDaemonPerQueue
<1> QED
  BY <1>2, SocketInvariant, PTL

-----------------------------------------------------------------------------
(* What was executed *)

Places   == Working \cup Over \cup {"idle", "ask"}
Mails    == {"none", "sent", "handled", "answered", "broken", "refused"}
Executed == [number : Nat, home : STRING, answer : {"Ok", "Error", "Jobs", "TooLong"}]

OrderTypes ==
    /\ pc \in [Clients -> Places]
    /\ next \in [Clients -> Nat \ {0}]
    /\ mail \in [Clients -> Mails]
    /\ executed \in [Clients -> Seq(Executed)]

Count(c) == Len(executed[c])

\* How many requests of a client were executed, by where it is and what has become
\* of the last one.
CountInv(c) ==
    /\ Count(c) \in {next[c] - 1, next[c]}
    /\ mail[c] = "sent" => Count(c) = next[c] - 1
    /\ mail[c] \in {"handled", "answered"} => Count(c) = next[c]
    /\ pc[c] \in {"idle", "rejected", "connect", "retry"} => Count(c) = next[c] - 1 /\ mail[c] = "none"
    /\ pc[c] = "ask" => Count(c) = next[c] /\ mail[c] = "none"

Numbered(c) == \A k \in 1 .. Count(c) : executed[c][k].number = k

OrderInv == OrderTypes /\ \A c \in Clients : CountInv(c) /\ Numbered(c)

\* A client moves, and its own part of the invariant is kept.
LEMMA OneClientMoves ==
    ASSUME OrderInv, NEW c \in Clients, OrderTypes', CountInv(c)', Numbered(c)',
           \A other \in Clients \ {c} :
              /\ pc'[other] = pc[other] /\ next'[other] = next[other]
              /\ mail'[other] = mail[other] /\ executed'[other] = executed[other]
    PROVE  OrderInv'
<1> SUFFICES ASSUME NEW other \in Clients \ {c} PROVE CountInv(other)' /\ Numbered(other)'
  BY DEF OrderInv
<1> QED
  BY DEF OrderInv, CountInv, Numbered, Count

LEMMA ConnectingKeepsOrder ==
    ASSUME OrderInv, NEW c \in Clients, Connect(c) \/ Retry(c)
    PROVE  OrderInv'
<1>1. /\ pc[c] \in {"connect", "retry"} /\ next' = next /\ executed' = executed
      /\ \/ pc' = [pc EXCEPT ![c] = "receive"] /\ mail' = [mail EXCEPT ![c] = "sent"]
         \/ pc' = [pc EXCEPT ![c] = "retry"] /\ mail' = mail
  BY DEF Connect, Retry, Send, SpawnDaemon, Goes
<1>2. OrderTypes' /\ CountInv(c)' /\ Numbered(c)'
  BY <1>1 DEF OrderInv, OrderTypes, CountInv, Numbered, Count, Places, Working, Mails
<1> QED
  BY <1>1, <1>2, OneClientMoves DEF OrderInv, OrderTypes

LEMMA ReceivingKeepsOrder ==
    ASSUME OrderInv, NEW c \in Clients, Receive(c) \/ Confirm(c)
    PROVE  OrderInv'
<1>1. /\ Count(c) = next[c] /\ executed' = executed
      /\ mail' = [mail EXCEPT ![c] = "none"]
      /\ \/ pc' = [pc EXCEPT ![c] = "connect"] /\ next' = [next EXCEPT ![c] = @ + 1]
         \/ pc' = [pc EXCEPT ![c] = "done"] /\ next' = next
         \/ pc' = [pc EXCEPT ![c] = "ask"] /\ next' = next
  <2>1. CASE Receive(c)
    BY <2>1 DEF Receive, HangUp, NextRequest, Goes, OrderInv, CountInv
  <2>2. CASE Confirm(c)
    <3>1. mail' = mail /\ mail[c] = "none" /\ Count(c) = next[c]
      BY <2>2 DEF Confirm, OrderInv, CountInv, connVars
    <3>2. mail' = [mail EXCEPT ![c] = "none"]
      BY <3>1 DEF OrderInv, OrderTypes
    <3> QED
      BY <2>2, <3>1, <3>2 DEF Confirm, NextRequest, Goes
  <2> QED
    BY <2>1, <2>2
<1>2. next[c] \in Nat \ {0} /\ Count(c) \in Nat /\ Numbered(c)
  BY DEF OrderInv, OrderTypes, Count
<1>3. OrderTypes'
  <2>1. pc' \in [Clients -> Places]
    BY <1>1 DEF OrderInv, OrderTypes, Places, Working, Over
  <2>2. next' \in [Clients -> Nat \ {0}]
    BY <1>1 DEF OrderInv, OrderTypes
  <2>3. mail' \in [Clients -> Mails] /\ executed' \in [Clients -> Seq(Executed)]
    BY <1>1 DEF OrderInv, OrderTypes, Mails
  <2> QED
    BY <2>1, <2>2, <2>3 DEF OrderTypes
<1>4. /\ executed'[c] = executed[c] /\ mail'[c] = "none"
      /\ \/ pc'[c] = "connect" /\ next'[c] = next[c] + 1
         \/ pc'[c] \in {"done", "ask"} /\ next'[c] = next[c]
  BY <1>1 DEF OrderInv, OrderTypes
<1>5. CountInv(c)' /\ Numbered(c)'
  BY <1>1, <1>2, <1>4 DEF CountInv, Numbered, Count
<1> QED
  BY <1>1, <1>3, <1>5, OneClientMoves DEF OrderInv, OrderTypes

LEMMA LeavingKeepsOrder ==
    ASSUME OrderInv, NEW c \in Clients,
           ReceiveFails(c) \/ SpawnFails(c) \/ GiveUp(c) \/ Interrupt(c)
    PROVE  OrderInv'
<1>1. /\ next' = next /\ executed' = executed
      /\ mail'[c] \in {mail[c], "none"} /\ mail' = [mail EXCEPT ![c] = mail'[c]]
      /\ pc' = [pc EXCEPT ![c] = "failed"] \/ pc' = [pc EXCEPT ![c] = "interrupted"]
  BY DEF ReceiveFails, SpawnFails, GiveUp, Interrupt, HangUp, Goes, connVars, OrderInv, OrderTypes
<1>2. next[c] \in Nat \ {0} /\ Count(c) \in Nat /\ Numbered(c) /\ CountInv(c)
  BY DEF OrderInv, OrderTypes, Count
<1>3. OrderTypes'
  BY <1>1 DEF OrderInv, OrderTypes, Places, Over, Mails
<1>4. /\ executed'[c] = executed[c] /\ next'[c] = next[c]
      /\ pc'[c] \in {"failed", "interrupted"}
  BY <1>1 DEF OrderInv, OrderTypes
<1>5. CountInv(c)' /\ Numbered(c)'
  BY <1>1, <1>2, <1>4 DEF CountInv, Numbered, Count
<1> QED
  BY <1>1, <1>3, <1>5, OneClientMoves DEF OrderInv, OrderTypes

LEMMA StartingKeepsOrder ==
    ASSUME OrderInv, NEW c \in Clients, Start(c)
    PROVE  OrderInv'
<1>1. /\ pc[c] = "idle" /\ next' = next /\ executed' = executed /\ mail' = mail
      /\ pc' = [pc EXCEPT ![c] = "rejected"] \/ pc' = [pc EXCEPT ![c] = "connect"]
  BY DEF Start, Goes, connVars
<1>2. OrderTypes' /\ CountInv(c)' /\ Numbered(c)'
  BY <1>1 DEF OrderInv, OrderTypes, CountInv, Numbered, Count, Places, Over, Working
<1> QED
  BY <1>1, <1>2, OneClientMoves DEF OrderInv, OrderTypes

LEMMA HandlingKeepsOrder ==
    ASSUME OrderInv, SocketInv, NEW c \in Clients, Handle(c)
    PROVE  OrderInv'
<1>1. /\ mail[c] = "sent" /\ mail' = [mail EXCEPT ![c] = "handled"]
      /\ pc' = pc /\ next' = next /\ link[c] \in Daemons
  BY DEF Handle, clientVars
<1>2. PICK a \in {"Ok", "Error", "Jobs", "TooLong"} :
             executed' = [executed EXCEPT ![c] =
                Append(@, [number |-> next[c], home |-> HomeOfDaemon(link[c]), answer |-> a])]
  BY DEF Handle, Answers
<1>3. HomeOfDaemon(link[c]) \in STRING
  BY <1>1, ClientAssumption DEF SocketInv, DaemonTypes, HomeOfDaemon
<1> DEFINE entry == [number |-> next[c], home |-> HomeOfDaemon(link[c]), answer |-> a]
<1>4. entry \in Executed /\ entry.number = next[c] /\ executed[c] \in Seq(Executed)
  BY <1>3 DEF Executed, OrderInv, OrderTypes
<1>5. executed'[c] = Append(executed[c], entry)
  BY <1>2 DEF OrderInv, OrderTypes
<1> HIDE DEF entry
<1>6. /\ executed'[c] \in Seq(Executed) /\ Len(executed'[c]) = Count(c) + 1
      /\ executed'[c][Count(c) + 1] = entry
      /\ \A k \in 1 .. Count(c) : executed'[c][k] = executed[c][k]
  BY <1>4, <1>5 DEF Count
<1>7. Count(c) = next[c] - 1 /\ next[c] \in Nat /\ Count(c) \in Nat
  BY <1>1, <1>4 DEF OrderInv, OrderTypes, CountInv, Count
<1>8. OrderTypes'
  <2>1. executed' \in [Clients -> Seq(Executed)]
    BY <1>2, <1>6 DEF OrderInv, OrderTypes
  <2> QED
    BY <1>1, <2>1 DEF OrderInv, OrderTypes, Mails
<1>9. CountInv(c)'
  <2>1. Len(executed'[c]) = next[c] /\ mail'[c] = "handled"
    BY <1>1, <1>6, <1>7 DEF OrderInv, OrderTypes
  <2>2. pc[c] \notin {"idle", "rejected", "connect", "retry", "ask"}
    BY <1>1 DEF OrderInv, CountInv
  <2> QED
    BY <1>1, <1>7, <2>1, <2>2 DEF CountInv, Count
<1>10. Numbered(c)'
  <2>1. Count(c)' = Count(c) + 1
    BY <1>6 DEF Count
  <2>2. SUFFICES ASSUME NEW k \in 1 .. Count(c) + 1 PROVE executed'[c][k].number = k
    BY <2>1 DEF Numbered
  <2>3. CASE k = Count(c) + 1
    BY <1>4, <1>6, <1>7, <2>3
  <2>4. CASE k \in 1 .. Count(c)
    BY <1>6, <2>4 DEF OrderInv, Numbered
  <2> QED
    BY <1>7, <2>3, <2>4
<1> QED
  BY <1>1, <1>2, <1>8, <1>9, <1>10, OneClientMoves DEF OrderInv, OrderTypes

LEMMA AnsweringKeepsOrder ==
    ASSUME OrderInv, NEW c \in Clients, Reply(c) \/ Refuse(c)
    PROVE  OrderInv'
<1>1. /\ \/ mail[c] = "handled" /\ mail' = [mail EXCEPT ![c] = "answered"]
         \/ mail[c] = "sent" /\ mail' = [mail EXCEPT ![c] = "refused"]
      /\ pc' = pc /\ next' = next /\ executed' = executed
  BY DEF Reply, Refuse, clientVars
<1>2. OrderTypes' /\ CountInv(c)' /\ Numbered(c)'
  BY <1>1 DEF OrderInv, OrderTypes, CountInv, Numbered, Count, Mails
<1> QED
  BY <1>1, <1>2, OneClientMoves DEF OrderInv, OrderTypes

\* Connections break, and nothing else happens to clients.
LEMMA BreakingKeepsOrder ==
    ASSUME OrderInv, pc' = pc, next' = next, executed' = executed, mail' \in [Clients -> Mails],
           \A c \in Clients : \/ mail'[c] = mail[c]
                              \/ mail'[c] = "broken" /\ mail[c] \in {"sent", "handled"}
    PROVE  OrderInv'
<1>1. OrderTypes'
  BY DEF OrderInv, OrderTypes
<1>2. ASSUME NEW c \in Clients PROVE CountInv(c)' /\ Numbered(c)'
  BY DEF OrderInv, OrderTypes, CountInv, Numbered, Count
<1> QED
  BY <1>1, <1>2 DEF OrderInv

LEMMA EndingKeepsOrder ==
    ASSUME OrderInv, NEW d \in Daemons, Ends(d)
    PROVE  OrderInv'
<1>1. /\ pc' = pc /\ next' = next /\ executed' = executed
      /\ mail' = [c \in Clients |->
            IF link[c] = d /\ mail[c] \in {"sent", "handled"} THEN "broken" ELSE mail[c]]
  BY DEF Ends, clientVars
<1> QED
  BY <1>1, BreakingKeepsOrder DEF OrderInv, OrderTypes, Mails

LEMMA DaemonKeepsOrder ==
    ASSUME OrderInv, NEW d \in Daemons, Bind(d) \/ LoadQueue(d) \/ Exit(d) \/ Crash(d)
    PROVE  OrderInv'
<1>1. Ends(d) \/ UNCHANGED <<clientVars, connVars, executed>>
  BY DEF Bind, LoadQueue, Exit, Crash
<1>2. CASE UNCHANGED <<clientVars, connVars, executed>>
  BY <1>2, BreakingKeepsOrder DEF OrderInv, OrderTypes, clientVars, connVars
<1> QED
  BY <1>1, <1>2, EndingKeepsOrder

LEMMA OrderStep == SocketInv /\ OrderInv /\ [ClientNext]_vars => OrderInv'
<1> SUFFICES ASSUME SocketInv, OrderInv, [ClientNext]_vars PROVE OrderInv'
  OBVIOUS
<1>1. ASSUME NEW c \in Clients,
             \/ Start(c) \/ Connect(c) \/ SpawnFails(c) \/ Retry(c) \/ GiveUp(c) \/ Receive(c)
             \/ ReceiveFails(c) \/ Confirm(c) \/ Interrupt(c) \/ Handle(c) \/ Refuse(c) \/ Reply(c)
      PROVE  OrderInv'
  BY <1>1, StartingKeepsOrder, ConnectingKeepsOrder, LeavingKeepsOrder, ReceivingKeepsOrder,
     HandlingKeepsOrder, AnsweringKeepsOrder
<1>2. ASSUME NEW d \in Daemons, Bind(d) \/ LoadQueue(d) \/ Exit(d) \/ Crash(d)
      PROVE  OrderInv'
  BY <1>2, DaemonKeepsOrder
<1>3. CASE UNCHANGED vars
  BY <1>3, BreakingKeepsOrder DEF vars, clientVars, connVars, OrderInv, OrderTypes
<1> QED
  BY <1>1, <1>2, <1>3 DEF ClientNext

LEMMA OrderInit == ClientInit => OrderInv
<1> SUFFICES ASSUME ClientInit PROVE OrderInv
  OBVIOUS
<1>1. /\ \A c \in Clients : /\ pc[c] = "idle" /\ next[c] = 1 /\ mail[c] = "none"
                            /\ executed[c] = <<>>
      /\ Len(<<>>) = 0 /\ <<>> \in Seq(Executed)
  BY DEF ClientInit
<1>2. OrderTypes
  BY <1>1 DEF ClientInit, OrderTypes, Places, Mails
<1> QED
  BY <1>1, <1>2 DEF OrderInv, CountInv, Numbered, Count

LEMMA OrderInvariant == ClientSpec => [](SocketInv /\ OrderInv)
BY SocketInit, SocketStep, OrderInit, OrderStep, PTL DEF ClientSpec

\* However daemons end and clients are interrupted, the requests of a command are
\* executed in order, none of them twice (client.rs 122-311, daemon.rs 97-103).
THEOREM InOrder == ClientSpec => []ExecutedInOrder
<1>1. OrderInv => ExecutedInOrder
  BY DEF OrderInv, OrderTypes, CountInv, Numbered, Count, ExecutedInOrder
<1> QED
  BY <1>1, OrderInvariant, PTL

-----------------------------------------------------------------------------
(* Types *)

Answered == {"none", "Ok", "Error", "Jobs", "TooLong"}

\* The Booleans, and the rest of the types.
Flags ==
    /\ had_error \in [Clients -> BOOLEAN]
    /\ leaving \in [Daemons -> BOOLEAN]
    /\ lost \in [Clients -> BOOLEAN]

Values ==
    /\ link \in [Clients -> Daemons \cup {0}]
    /\ answer \in [Clients -> Answered]
    /\ DOMAIN command = Clients

\* A client works on a request of its command.
OnRequest(c) ==
    /\ command[c] \in CommandsOf[c] \cup {<<>>}
    /\ pc[c] \in {"idle", "rejected"} => next[c] = 1
    /\ pc[c] \notin {"idle", "rejected"} => next[c] <= Len(command[c])

TypeInv == Flags /\ Values /\ \A c \in Clients : OnRequest(c)

LEMMA FlagsStep == Flags /\ [ClientNext]_vars => Flags'
<1> SUFFICES ASSUME Flags, [ClientNext]_vars PROVE Flags'
  OBVIOUS
<1>1. ASSUME NEW d \in Daemons, Ends(d) PROVE Flags'
  <2>1. leaving' \in [Daemons -> BOOLEAN] /\ had_error' = had_error
    BY <1>1 DEF Ends, Flags, clientVars
  <2>2. lost' \in [Clients -> BOOLEAN]
    BY <1>1, Zenon DEF Ends
  <2> QED
    BY <2>1, <2>2 DEF Flags
<1>2. ASSUME NEW c \in Clients, Receive(c) PROVE Flags'
  <2>1. leaving' = leaving /\ lost' = lost
    BY <1>2 DEF Receive, daemonVars
  <2>2. had_error' = [had_error EXCEPT ![c] = @ \/ answer[c] = "Error"]
    BY <1>2 DEF Receive, Note
  <2>3. had_error' \in [Clients -> BOOLEAN]
    BY <2>2, Zenon DEF Flags
  <2> QED
    BY <2>1, <2>3 DEF Flags
<1>3. ASSUME NEW c \in Clients, Handle(c) PROVE Flags'
  <2>1. had_error' = had_error /\ lost' = lost
    BY <1>3 DEF Handle, clientVars
  <2>2. leaving' = [leaving EXCEPT ![link[c]] = @ \/ command[c][next[c]][1] = "Shutdown"]
    BY <1>3 DEF Handle
  <2>3. leaving' \in [Daemons -> BOOLEAN]
    BY <2>2, Zenon DEF Flags
  <2> QED
    BY <2>1, <2>3 DEF Flags
<1>4. ASSUME NEW c \in Clients,
             \/ Start(c) \/ Connect(c) \/ SpawnFails(c) \/ Retry(c) \/ GiveUp(c) \/ ReceiveFails(c)
             \/ Confirm(c) \/ Interrupt(c) \/ Refuse(c) \/ Reply(c)
      PROVE  Flags'
  <2>1. had_error' = had_error /\ leaving' = leaving /\ lost' = lost
    BY <1>4 DEF Start, Connect, SpawnFails, Retry, Send, SpawnDaemon, GiveUp, ReceiveFails, Confirm,
       Interrupt, Refuse, Reply, daemonVars, clientVars
  <2> QED
    BY <2>1 DEF Flags
<1>5. ASSUME NEW d \in Daemons, Bind(d) \/ LoadQueue(d) \/ Exit(d) \/ Crash(d), ~Ends(d)
      PROVE  Flags'
  BY <1>5 DEF Bind, LoadQueue, Exit, Crash, Flags, clientVars
<1>6. CASE UNCHANGED vars
  BY <1>6 DEF vars, clientVars, daemonVars, Flags
<1> QED
  BY <1>1, <1>2, <1>3, <1>4, <1>5, <1>6 DEF ClientNext

LEMMA ValuesStep == SocketInv /\ Values /\ [ClientNext]_vars => Values'
<1> SUFFICES ASSUME SocketInv, Values, [ClientNext]_vars PROVE Values'
  OBVIOUS
<1>1. ASSUME NEW d \in Daemons, Ends(d) PROVE Values'
  BY <1>1 DEF Ends, Values, clientVars
<1>2. ASSUME NEW c \in Clients, Handle(c) PROVE Values'
  <2>1. PICK a \in Answered : answer' = [answer EXCEPT ![c] = a]
    BY <1>2 DEF Handle, Answers, Answered
  <2>2. link' = link /\ command' = command
    BY <1>2 DEF Handle, clientVars
  <2> QED
    BY <2>1, <2>2 DEF Values
<1>3. ASSUME NEW c \in Clients, Connect(c) \/ Retry(c) PROVE Values'
  BY <1>3 DEF Connect, Retry, Send, SpawnDaemon, Listening, Values
<1>4. ASSUME NEW c \in Clients,
             \/ Start(c) \/ SpawnFails(c) \/ GiveUp(c) \/ Receive(c) \/ ReceiveFails(c) \/ Confirm(c)
             \/ Interrupt(c) \/ Refuse(c) \/ Reply(c)
      PROVE  Values'
  <2>1. \/ link' = link /\ answer' = answer
        \/ link' = [link EXCEPT ![c] = 0] /\ answer' = answer
        \/ HangUp(c)
    BY <1>4 DEF Start, SpawnFails, GiveUp, Receive, ReceiveFails, Confirm, Interrupt, Refuse, Reply,
       connVars
  <2>2. link' \in [Clients -> Daemons \cup {0}] /\ answer' \in [Clients -> Answered]
    BY <2>1 DEF HangUp, Values, Answered
  <2>3. DOMAIN command' = Clients
    BY <1>4 DEF Start, SpawnFails, GiveUp, Receive, ReceiveFails, Confirm, Interrupt, Refuse, Reply,
       clientVars, Values
  <2> QED
    BY <2>2, <2>3 DEF Values
<1>5. ASSUME NEW d \in Daemons, Bind(d) \/ LoadQueue(d) \/ Exit(d) \/ Crash(d), ~Ends(d)
      PROVE  Values'
  BY <1>5 DEF Bind, LoadQueue, Exit, Crash, Values, clientVars, connVars
<1>6. CASE UNCHANGED vars
  BY <1>6 DEF vars, clientVars, connVars, Values
<1> QED
  BY <1>1, <1>2, <1>3, <1>4, <1>5, <1>6 DEF ClientNext

LEMMA OnRequestStep ==
    SocketInv /\ OrderInv /\ Values /\ (\A c \in Clients : OnRequest(c)) /\ [ClientNext]_vars
        => (\A c \in Clients : OnRequest(c))'
<1> SUFFICES ASSUME OrderInv, Values, [ClientNext]_vars, NEW c \in Clients, OnRequest(c)
             PROVE  OnRequest(c)'
  OBVIOUS
<1>1. CASE pc'[c] = pc[c] /\ next'[c] = next[c] /\ command'[c] = command[c]
  BY <1>1 DEF OnRequest
<1>2. CASE Start(c)
  <2>1. PICK requests \in CommandsOf[c] :
           /\ command' = [command EXCEPT ![c] = requests]
           /\ pc' = [pc EXCEPT ![c] = IF requests = <<>> THEN "rejected" ELSE "connect"]
    BY <1>2 DEF Start, Goes
  <2>2. next' = next /\ next[c] = 1 /\ command'[c] = requests
        /\ pc'[c] = IF requests = <<>> THEN "rejected" ELSE "connect"
    BY <1>2, <2>1 DEF Start, OnRequest, Values, OrderInv, OrderTypes
  <2>3. requests # <<>> => 1 <= Len(requests)
    BY ClientAssumption
  <2> QED
    BY <2>2, <2>3 DEF OnRequest
<1>3. CASE \/ Connect(c) \/ SpawnFails(c) \/ Retry(c) \/ GiveUp(c) \/ Receive(c) \/ ReceiveFails(c)
           \/ Confirm(c) \/ Interrupt(c)
  <2>1. /\ command' = command /\ pc[c] \notin {"idle", "rejected"}
        /\ pc'[c] \notin {"idle", "rejected"}
        /\ \/ next' = next
           \/ next[c] < Len(command[c]) /\ next' = [next EXCEPT ![c] = @ + 1]
    BY <1>3 DEF Connect, SpawnFails, Retry, Send, SpawnDaemon, GiveUp, Receive, ReceiveFails, Confirm,
       Interrupt, NextRequest, Goes, OrderInv, OrderTypes, Working
  <2>2. Len(command[c]) \in Nat /\ next[c] \in Nat \ {0}
    BY ClientAssumption DEF OnRequest, OrderInv, OrderTypes
  <2> QED
    BY <2>1, <2>2 DEF OnRequest, OrderInv, OrderTypes
<1>4. ASSUME NEW other \in Clients \ {c},
             \/ Start(other) \/ Connect(other) \/ SpawnFails(other) \/ Retry(other) \/ GiveUp(other)
             \/ Receive(other) \/ ReceiveFails(other) \/ Confirm(other) \/ Interrupt(other)
      PROVE  pc'[c] = pc[c] /\ next'[c] = next[c] /\ command'[c] = command[c]
  BY <1>4 DEF Start, Connect, SpawnFails, Retry, Send, SpawnDaemon, GiveUp, Receive, ReceiveFails,
     Confirm, Interrupt, NextRequest, Goes, OrderInv, OrderTypes, Values
<1>5. ASSUME NEW other \in Clients, Handle(other) \/ Refuse(other) \/ Reply(other)
      PROVE  pc'[c] = pc[c] /\ next'[c] = next[c] /\ command'[c] = command[c]
  BY <1>5 DEF Handle, Refuse, Reply, clientVars
<1>6. ASSUME NEW d \in Daemons, Bind(d) \/ LoadQueue(d) \/ Exit(d) \/ Crash(d)
      PROVE  pc'[c] = pc[c] /\ next'[c] = next[c] /\ command'[c] = command[c]
  BY <1>6 DEF Bind, LoadQueue, Exit, Crash, Ends, clientVars
<1>7. CASE UNCHANGED vars
  BY <1>1, <1>7 DEF vars, clientVars
<1> QED
  BY <1>1, <1>2, <1>3, <1>4, <1>5, <1>6, <1>7 DEF ClientNext

LEMMA TypeInit == ClientInit => TypeInv
<1> SUFFICES ASSUME ClientInit PROVE TypeInv
  OBVIOUS
<1>1. Flags
  BY Zenon DEF ClientInit, Flags
<1>2. Values
  BY DEF ClientInit, Values, Answered
<1>3. \A c \in Clients : OnRequest(c)
  BY DEF ClientInit, OnRequest
<1> QED
  BY <1>1, <1>2, <1>3 DEF TypeInv

\* The types of clients, connections and daemons; a client works on a request of
\* its command (client.rs 122-311).
THEOREM ClientTypesCorrect == ClientSpec => []ClientTypeOK
<1>1. SocketInv /\ OrderInv /\ TypeInv => ClientTypeOK
  BY DEF SocketInv, DaemonTypes, Phases, OrderInv, OrderTypes, Places, Mails, TypeInv, Flags, Values,
     Answered, OnRequest, ClientTypeOK
<1>2. SocketInv /\ OrderInv /\ TypeInv /\ [ClientNext]_vars => TypeInv'
  BY FlagsStep, ValuesStep, OnRequestStep DEF TypeInv
<1> QED
  BY <1>1, <1>2, TypeInit, OrderInvariant, PTL DEF ClientSpec

-----------------------------------------------------------------------------
(* The ids of a command *)

\* Lists that name each number of a set once and nothing else.
Distinct     == {ids \in Seq(Nat) : \A i, j \in 1 .. Len(ids) : ids[i] = ids[j] => i = j}
OnceEach(named) == {ids \in Distinct : Range(ids) = named}

LEMMA PushAddsOne ==
    ASSUME NEW named, NEW ids \in OnceEach(named), NEW id \in Nat
    PROVE  Push(ids, id) \in OnceEach(named \cup {id})
<1>1. /\ ids \in Seq(Nat) /\ Len(ids) \in Nat /\ Range(ids) = named
      /\ Range(ids) = {ids[i] : i \in 1 .. Len(ids)}
      /\ \A i, j \in 1 .. Len(ids) : ids[i] = ids[j] => i = j
  BY DEF OnceEach, Distinct, Range
<1>2. CASE id \in Range(ids)
  BY <1>1, <1>2 DEF Push, OnceEach
<1>3. CASE id \notin Range(ids)
  <2> DEFINE more == Append(ids, id)
  <2>1. /\ more \in Seq(Nat) /\ Len(more) = Len(ids) + 1
        /\ more[Len(ids) + 1] = id /\ \A i \in 1 .. Len(ids) : more[i] = ids[i]
    BY <1>1
  <2>2. \A i \in 1 .. Len(more) : i = Len(ids) + 1 \/ i \in 1 .. Len(ids)
    BY <1>1, <2>1
  <2>3. Push(ids, id) = more
    BY <1>3 DEF Push
  <2> HIDE DEF more
  <2>4. \A i \in 1 .. Len(ids) : ids[i] # id
    BY <1>1, <1>3
  <2>5. \A i, j \in 1 .. Len(more) : more[i] = more[j] => i = j
    BY <1>1, <2>1, <2>2, <2>4
  <2>6. Range(more) = named \cup {id}
    <3>1. Range(more) = {more[i] : i \in 1 .. Len(more)}
      BY <2>1 DEF Range
    <3>2. Len(ids) + 1 \in 1 .. Len(more) /\ \A i \in 1 .. Len(ids) : i \in 1 .. Len(more)
      BY <1>1, <2>1
    <3> QED
      BY <1>1, <2>1, <2>2, <3>1, <3>2
  <2> QED
    BY <2>1, <2>3, <2>5, <2>6 DEF OnceEach, Distinct
<1> QED
  BY <1>2, <1>3

LEMMA PushRangeAddsRange ==
    ASSUME NEW named, NEW ids \in OnceEach(named), NEW range \in Nat \X Nat, range[1] <= range[2]
    PROVE  PushRange(ids, range) \in OnceEach(named \cup (range[1] .. range[2]))
<1> DEFINE N == range[2] - range[1] + 1
           step   == [n \in 1 .. N |-> [l \in Distinct |-> Push(l, range[1] + n - 1)]]
           pushed == CHOOSE g : g = [n \in 0 .. N |->
                        IF n = 0 THEN ids ELSE Push(g[n - 1], range[1] + n - 1)]
           S      == [n \in 0 .. N |-> OnceEach(named \cup (range[1] .. range[1] + n - 1))]
<1>1. N \in Nat /\ range[1] \in Nat /\ range[1] + N - 1 = range[2]
  OBVIOUS
<1>2. PushRange(ids, range) = pushed[N]
  BY DEF PushRange
<1> HIDE DEF N
<1>3. \A n \in 1 .. N : range[1] + n - 1 \in Nat
  BY <1>1
<1>4. \E g : g = [n \in 0 .. N |-> IF n = 0 THEN ids ELSE Push(g[n - 1], range[1] + n - 1)]
  <2>1. step \in [1 .. N -> [Distinct -> Distinct]]
    <3>1. ASSUME NEW n \in 1 .. N, NEW l \in Distinct PROVE Push(l, range[1] + n - 1) \in Distinct
      <4>1. l \in OnceEach(Range(l))
        BY DEF OnceEach
      <4> QED
        BY <1>3, <4>1, PushAddsOne DEF OnceEach
    <3> QED
      BY <3>1
  <2>2. ids \in Distinct
    BY DEF OnceEach
  <2> HIDE DEF step
  <2>3. HasChain(N, Distinct, ids, step)
    BY <1>1, <2>1, <2>2, ChainExists
  <2>4. PICK f \in [0 .. N -> Distinct] :
            f[0] = ids /\ \A n \in 1 .. N : f[n] = step[n][f[n - 1]]
    BY <2>3 DEF HasChain
  <2>5. ASSUME NEW n \in 1 .. N PROVE f[n] = Push(f[n - 1], range[1] + n - 1)
    <3>1. n - 1 \in 0 .. N
      BY <1>1
    <3>2. f[n - 1] \in Distinct
      BY <2>4, <3>1
    <3> QED
      BY <2>4, <3>2 DEF step
  <2>6. ASSUME NEW n \in 0 .. N
        PROVE  f[n] = IF n = 0 THEN ids ELSE Push(f[n - 1], range[1] + n - 1)
    <3>1. n = 0 \/ n \in 1 .. N
      BY <1>1
    <3> QED
      BY <2>4, <2>5, <3>1
  <2>7. f = [n \in 0 .. N |-> IF n = 0 THEN ids ELSE Push(f[n - 1], range[1] + n - 1)]
    BY <2>4, <2>6
  <2> QED
    BY <2>7
<1>5. pushed = [n \in 0 .. N |-> IF n = 0 THEN ids ELSE Push(pushed[n - 1], range[1] + n - 1)]
  BY <1>4
<1> HIDE DEF pushed
<1>6. pushed[0] \in S[0]
  <2>1. 0 \in 0 .. N /\ named \cup (range[1] .. range[1] + 0 - 1) = named
    BY <1>1
  <2> QED
    BY <1>5, <2>1
<1>7. ASSUME NEW n \in 1 .. N, pushed[n - 1] \in S[n - 1] PROVE pushed[n] \in S[n]
  <2>1. n \in 0 .. N /\ n - 1 \in 0 .. N /\ n # 0
    BY <1>1
  <2>2. pushed[n] = Push(pushed[n - 1], range[1] + n - 1)
    BY <1>5, <2>1
  <2>3. range[1] .. range[1] + n - 1 = (range[1] .. range[1] + (n - 1) - 1) \cup {range[1] + n - 1}
    BY <1>1
  <2>4. S[n - 1] = OnceEach(named \cup (range[1] .. range[1] + (n - 1) - 1))
    BY <2>1
  <2>5. pushed[n] \in OnceEach((named \cup (range[1] .. range[1] + (n - 1) - 1)) \cup {range[1] + n - 1})
    BY <1>3, <1>7, <2>2, <2>4, PushAddsOne
  <2>6. S[n] = OnceEach(named \cup (range[1] .. range[1] + n - 1))
    BY <2>1
  <2>7. (named \cup (range[1] .. range[1] + (n - 1) - 1)) \cup {range[1] + n - 1}
            = named \cup (range[1] .. range[1] + n - 1)
    BY <2>3
  <2> QED
    BY <2>5, <2>6, <2>7
<1>8. N \in 0 .. N /\ S[N] = OnceEach(named \cup (range[1] .. range[2]))
  BY <1>1
<1> HIDE DEF S
<1>9. pushed[N] \in S[N]
  BY <1>1, <1>6, <1>7, ChainArrives
<1> QED
  BY <1>2, <1>8, <1>9

Named(args, n) == UNION {args[k][1] .. args[k][2] : k \in 1 .. n}

LEMMA NamedGrows ==
    ASSUME NEW args, NEW n \in Nat \ {0}
    PROVE  Named(args, n) = Named(args, n - 1) \cup (args[n][1] .. args[n][2])
<1>1. 1 .. n = (1 .. n - 1) \cup {n}
  OBVIOUS
<1> QED
  BY <1>1 DEF Named

\* parse_job_ids names every id that its arguments name, once, and no other.
LEMMA ParsedOnceEach ==
    ASSUME NEW args \in Seq(Nat \X Nat), Valid(args)
    PROVE  parse_job_ids(args) \in OnceEach(Named(args, Len(args)))
<1> DEFINE N == Len(args)
           step   == [n \in 1 .. N |-> [l \in Distinct |-> PushRange(l, args[n])]]
           parsed == CHOOSE g : g = [n \in 0 .. N |->
                        IF n = 0 THEN <<>> ELSE PushRange(g[n - 1], args[n])]
           S      == [n \in 0 .. N |-> OnceEach(Named(args, n))]
<1>1. N \in Nat
  OBVIOUS
<1>2. parse_job_ids(args) = parsed[N]
  BY DEF parse_job_ids
<1>3. \A n \in 1 .. N : args[n] \in Nat \X Nat /\ args[n][1] <= args[n][2]
  BY DEF Valid
<1> HIDE DEF N
<1>4. \E g : g = [n \in 0 .. N |-> IF n = 0 THEN <<>> ELSE PushRange(g[n - 1], args[n])]
  <2>1. step \in [1 .. N -> [Distinct -> Distinct]]
    <3>1. ASSUME NEW n \in 1 .. N, NEW l \in Distinct PROVE PushRange(l, args[n]) \in Distinct
      <4>1. l \in OnceEach(Range(l))
        BY DEF OnceEach
      <4> QED
        BY <1>3, <4>1, PushRangeAddsRange DEF OnceEach
    <3> QED
      BY <3>1
  <2>2. <<>> \in Distinct
    BY DEF Distinct
  <2> HIDE DEF step
  <2>3. HasChain(N, Distinct, <<>>, step)
    BY <1>1, <2>1, <2>2, ChainExists
  <2>4. PICK f \in [0 .. N -> Distinct] :
            f[0] = <<>> /\ \A n \in 1 .. N : f[n] = step[n][f[n - 1]]
    BY <2>3 DEF HasChain
  <2>5. ASSUME NEW n \in 1 .. N PROVE f[n] = PushRange(f[n - 1], args[n])
    <3>1. n - 1 \in 0 .. N
      BY <1>1
    <3>2. f[n - 1] \in Distinct
      BY <2>4, <3>1
    <3> QED
      BY <2>4, <3>2 DEF step
  <2>6. ASSUME NEW n \in 0 .. N
        PROVE  f[n] = IF n = 0 THEN <<>> ELSE PushRange(f[n - 1], args[n])
    <3>1. n = 0 \/ n \in 1 .. N
      BY <1>1
    <3> QED
      BY <2>4, <2>5, <3>1
  <2>7. f = [n \in 0 .. N |-> IF n = 0 THEN <<>> ELSE PushRange(f[n - 1], args[n])]
    BY <2>4, <2>6
  <2> QED
    BY <2>7
<1>5. parsed = [n \in 0 .. N |-> IF n = 0 THEN <<>> ELSE PushRange(parsed[n - 1], args[n])]
  BY <1>4
<1> HIDE DEF parsed
<1>6. parsed[0] \in S[0]
  <2>1. 0 \in 0 .. N /\ Named(args, 0) = {}
    BY <1>1 DEF Named
  <2>2. <<>> \in OnceEach({})
    BY DEF OnceEach, Distinct, Range
  <2> QED
    BY <1>5, <2>1, <2>2
<1>7. ASSUME NEW n \in 1 .. N, parsed[n - 1] \in S[n - 1] PROVE parsed[n] \in S[n]
  <2>1. n \in 0 .. N /\ n - 1 \in 0 .. N /\ n \in Nat \ {0}
    BY <1>1
  <2>2. parsed[n] = PushRange(parsed[n - 1], args[n])
    BY <1>5, <2>1
  <2>3. parsed[n - 1] \in OnceEach(Named(args, n - 1))
    BY <1>7, <2>1
  <2>4. parsed[n] \in OnceEach(Named(args, n - 1) \cup (args[n][1] .. args[n][2]))
    BY <1>3, <2>2, <2>3, PushRangeAddsRange
  <2> QED
    BY <2>1, <2>4, NamedGrows
<1>8. N \in 0 .. N /\ S[N] = OnceEach(Named(args, N))
  BY <1>1
<1> HIDE DEF S
<1>9. parsed[N] \in S[N]
  BY <1>1, <1>6, <1>7, ChainArrives
<1> QED
  BY <1>2, <1>8, <1>9 DEF N

\* The commands that the command line can ask for (client.rs 26-86, 122-311).
Askable ==
         {build_request(kind) : kind \in Kinds}
    \cup {resume_all}
    \cup {Each(kind, args) : kind \in Kinds, args \in Seq(Nat \X Nat)}

LEMMA RequestsDiffer ==
    ASSUME NEW requests \in Askable, NEW k \in 1 .. Len(requests), NEW other \in 1 .. Len(requests),
           k # other
    PROVE  requests[k] # requests[other]
<1>1. CASE \E kind \in Kinds : requests = build_request(kind)
  BY <1>1 DEF build_request
<1>2. CASE requests = resume_all
  <2>1. Len(requests) = 2 /\ requests[1] = <<"List">> /\ requests[2] = <<"ResumeAllPaused">>
    BY <1>2 DEF resume_all
  <2>2. {k, other} = {1, 2} /\ "List" # "ResumeAllPaused"
    BY <2>1
  <2> QED
    BY <2>1, <2>2
<1>3. CASE \E kind \in Kinds, args \in Seq(Nat \X Nat) : requests = Each(kind, args)
  <2>1. PICK kind \in Kinds, args \in Seq(Nat \X Nat) : requests = Each(kind, args)
    BY <1>3
  <2> DEFINE ids == IF Valid(args) THEN parse_job_ids(args) ELSE <<>>
  <2>2. ids \in Distinct
    <3>1. <<>> \in Distinct
      BY DEF Distinct
    <3> QED
      BY <3>1, ParsedOnceEach DEF OnceEach
  <2>3. requests = [i \in DOMAIN ids |-> <<kind, ids[i]>>]
    BY <2>1 DEF Each
  <2> HIDE DEF ids
  <2>4. ids \in Seq(Nat) /\ DOMAIN ids = 1 .. Len(ids) /\ Len(ids) \in Nat
        /\ \A i, j \in 1 .. Len(ids) : ids[i] = ids[j] => i = j
    BY <2>2 DEF Distinct
  <2>5. Len(requests) = Len(ids)
    BY <2>3, <2>4
  <2> QED
    BY <2>3, <2>4, <2>5
<1> QED
  BY <1>1, <1>2, <1>3 DEF Askable

\* Whatever ids and ranges the command line names, overlapping or repeated, each
\* id is asked about once (client.rs 85-120).
THEOREM EachIdOnce ==
    ASSUME \A c \in Clients : CommandsOf[c] \subseteq Askable
    PROVE  ClientSpec => []NoIdTwice
<1>1. OrderInv /\ TypeInv => NoIdTwice
  <2> SUFFICES ASSUME OrderInv, TypeInv, NEW c \in Clients,
                      NEW k \in 1 .. Len(executed[c]), NEW other \in 1 .. Len(executed[c]), k # other
               PROVE  command[c][executed[c][k].number] # command[c][executed[c][other].number]
    BY DEF NoIdTwice
  <2>1. executed[c][k].number = k /\ executed[c][other].number = other
    BY DEF OrderInv, Numbered, Count
  <2>2. Len(executed[c]) <= next[c] /\ Len(executed[c]) \in Nat /\ next[c] \in Nat
    BY DEF OrderInv, OrderTypes, CountInv, Count
  <2>3. pc[c] \notin {"idle", "rejected"}
    <3>1. OnRequest(c) /\ CountInv(c)
      BY DEF OrderInv, TypeInv
    <3> QED
      BY <2>2, <3>1 DEF OnRequest, CountInv, Count
  <2>4. next[c] <= Len(command[c]) /\ command[c] \in CommandsOf[c] \cup {<<>>}
    BY <2>3 DEF TypeInv, OnRequest
  <2>5. command[c] \in CommandsOf[c] /\ Len(command[c]) \in Nat
    BY <2>2, <2>4, ClientAssumption
  <2>6. k \in 1 .. Len(command[c]) /\ other \in 1 .. Len(command[c])
    BY <2>2, <2>4, <2>5
  <2> QED
    BY <2>1, <2>5, <2>6, RequestsDiffer
<1>2. SocketInv /\ OrderInv /\ TypeInv /\ [ClientNext]_vars => TypeInv'
  BY FlagsStep, ValuesStep, OnRequestStep DEF TypeInv
<1> QED
  BY <1>1, <1>2, TypeInit, OrderInvariant, PTL DEF ClientSpec

-----------------------------------------------------------------------------
(* What the exit status says *)

HadError(c)     == had_error[c]
ErrorUpTo(c, n) == \E k \in 1 .. n : executed[c][k].answer = "Error"

EndTypes == DOMAIN answer = Clients /\ DOMAIN had_error = Clients /\ DOMAIN command = Clients

\* had_error is behind by the answer that is still to be read.
Honest(c) ==
    /\ pc[c] \notin {"failed", "interrupted"} =>
          /\ mail[c] \in {"none", "sent"} => (HadError(c) <=> ErrorUpTo(c, Count(c)))
          /\ mail[c] \in {"handled", "answered"} =>
                /\ HadError(c) <=> ErrorUpTo(c, Count(c) - 1)
                /\ answer[c] = executed[c][Count(c)].answer
    /\ pc[c] = "ask" => command[c] = resume_all
    /\ pc[c] = "done" =>
          /\ mail[c] = "none" /\ Count(c) = next[c]
          /\ command[c] = resume_all \/ next[c] = Len(command[c])

HonestInv == EndTypes /\ \A c \in Clients : Honest(c)

\* What a client has of its own stays as it was.
Same(c) ==
    /\ pc'[c] = pc[c] /\ mail'[c] = mail[c] /\ next'[c] = next[c] /\ answer'[c] = answer[c]
    /\ command'[c] = command[c] /\ executed'[c] = executed[c]
    /\ HadError(c)' <=> HadError(c)

LEMMA SameIsHonest ==
    ASSUME NEW c \in Clients, Honest(c), Same(c)
    PROVE  Honest(c)'
<1>1. Count(c)' = Count(c) /\ \A n : ErrorUpTo(c, n)' <=> ErrorUpTo(c, n)
  BY DEF Same, Count, ErrorUpTo
<1> QED
  BY <1>1 DEF Same, Honest, Count, ErrorUpTo

LEMMA OneMovesHonest ==
    ASSUME HonestInv, NEW c \in Clients, EndTypes', Honest(c)',
           \A other \in Clients \ {c} : Same(other)
    PROVE  HonestInv'
<1>1. ASSUME NEW other \in Clients \ {c} PROVE Honest(other)'
  BY <1>1, SameIsHonest DEF HonestInv
<1> QED
  BY <1>1 DEF HonestInv

\* A step that touches neither answers nor errors, of a client that is not over yet.
LEMMA WalkingHonest ==
    ASSUME OrderInv, HonestInv, NEW c \in Clients,
           NEW to \in {"rejected", "connect", "retry", "receive", "failed", "interrupted"},
           pc' = [pc EXCEPT ![c] = to],
           UNCHANGED <<executed, had_error>>,
           DOMAIN next' = Clients, \A other \in Clients \ {c} : next'[other] = next[other],
           DOMAIN command' = Clients, \A other \in Clients \ {c} : command'[other] = command[other],
           DOMAIN answer' = Clients, \A other \in Clients \ {c} : answer'[other] = answer[other],
           \A other \in Clients \ {c} : mail'[other] = mail[other],
           \/ to \in {"failed", "interrupted"}
           \/ /\ pc[c] \notin {"failed", "interrupted"}
              /\ mail[c] = "none" /\ mail'[c] \in {"none", "sent"}
    PROVE  HonestInv'
<1>1. EndTypes'
  BY DEF HonestInv, EndTypes
<1>2. \A other \in Clients : HadError(other)' <=> HadError(other)
  BY Zenon DEF HadError
<1>3. \A other \in Clients \ {c} : Same(other)
  BY <1>2 DEF Same, OrderInv, OrderTypes
<1>4. pc'[c] = to /\ Count(c)' = Count(c) /\ (ErrorUpTo(c, Count(c))' <=> ErrorUpTo(c, Count(c)))
  BY DEF OrderInv, OrderTypes, Count, ErrorUpTo
<1>5. Honest(c)
  BY DEF HonestInv
<1>6. Honest(c)'
  BY <1>2, <1>4, <1>5 DEF Honest
<1> QED
  BY <1>1, <1>3, <1>6, OneMovesHonest

LEMMA ReceiveHonest ==
    ASSUME OrderInv, HonestInv, NEW c \in Clients, Receive(c)
    PROVE  HonestInv'
<1>1. /\ pc[c] = "receive" /\ mail[c] = "answered" /\ HangUp(c) /\ Note(c)
      /\ executed' = executed /\ command' = command
      /\ Count(c) = next[c] /\ Count(c) \in Nat \ {0}
  BY DEF Receive, OrderInv, OrderTypes, CountInv
<1>2. /\ DOMAIN next' = Clients /\ \A other \in Clients \ {c} : next'[other] = next[other]
      /\ \A other \in Clients \ {c} : pc'[other] = pc[other]
      /\ \/ pc'[c] = "connect"
         \/ pc'[c] = "done" /\ next'[c] = next[c]
               /\ (command[c] = resume_all \/ next[c] = Len(command[c]))
         \/ pc'[c] = "ask" /\ next'[c] = next[c] /\ command[c] = resume_all
  BY DEF Receive, NextRequest, Goes, OrderInv, OrderTypes
<1>3. /\ mail'[c] = "none"
      /\ \A other \in Clients \ {c} : mail'[other] = mail[other] /\ answer'[other] = answer[other]
      /\ DOMAIN answer' = Clients
  BY <1>1 DEF HangUp, HonestInv, EndTypes, OrderInv, OrderTypes
<1>4. PICK x : had_error' = [had_error EXCEPT ![c] = x]
  BY <1>1 DEF Note
<1>5. EndTypes'
  BY <1>1, <1>3, <1>4 DEF HonestInv, EndTypes
<1>6. \A other \in Clients \ {c} : HadError(other)' <=> HadError(other)
  <2>1. ASSUME NEW other \in Clients \ {c} PROVE had_error'[other] = had_error[other]
    BY <1>4, <2>1 DEF HonestInv, EndTypes
  <2> QED
    BY <2>1, Zenon DEF HadError
<1>7. HadError(c)' <=> HadError(c) \/ answer[c] = "Error"
  BY <1>1, Zenon DEF Note, HadError, HonestInv, EndTypes
<1>8. Count(c)' = Count(c) /\ (ErrorUpTo(c, Count(c))' <=> ErrorUpTo(c, Count(c)))
  BY <1>1 DEF Count, ErrorUpTo
<1>9. /\ HadError(c) <=> ErrorUpTo(c, Count(c) - 1)
      /\ answer[c] = executed[c][Count(c)].answer
  BY <1>1 DEF HonestInv, Honest
<1>10. ErrorUpTo(c, Count(c)) <=> ErrorUpTo(c, Count(c) - 1) \/ executed[c][Count(c)].answer = "Error"
  BY <1>1 DEF ErrorUpTo
<1>11. HadError(c)' <=> ErrorUpTo(c, Count(c))'
  BY <1>7, <1>8, <1>9, <1>10
<1>12. Honest(c)'
  BY <1>1, <1>2, <1>3, <1>8, <1>11 DEF Honest
<1>13. \A other \in Clients \ {c} : Same(other)
  BY <1>1, <1>2, <1>3, <1>6 DEF Same
<1> QED
  BY <1>5, <1>12, <1>13, OneMovesHonest

LEMMA ConfirmHonest ==
    ASSUME OrderInv, HonestInv, NEW c \in Clients, Confirm(c)
    PROVE  HonestInv'
<1>1. /\ pc[c] = "ask" /\ mail[c] = "none" /\ Count(c) = next[c]
      /\ executed' = executed /\ command' = command /\ had_error' = had_error
      /\ mail' = mail /\ answer' = answer
  BY DEF Confirm, OrderInv, OrderTypes, CountInv, connVars
<1>2. /\ \A other \in Clients \ {c} : next'[other] = next[other] /\ pc'[other] = pc[other]
      /\ pc'[c] = "connect" \/ (pc'[c] = "done" /\ next'[c] = next[c])
  BY DEF Confirm, NextRequest, Goes, OrderInv, OrderTypes
<1>3. \A other \in Clients : HadError(other)' <=> HadError(other)
  BY <1>1, Zenon DEF HadError
<1>4. Count(c)' = Count(c) /\ (ErrorUpTo(c, Count(c))' <=> ErrorUpTo(c, Count(c)))
  BY <1>1 DEF Count, ErrorUpTo
<1>5. Honest(c)'
  BY <1>1, <1>2, <1>3, <1>4 DEF HonestInv, Honest
<1>6. \A other \in Clients \ {c} : Same(other)
  BY <1>1, <1>2, <1>3 DEF Same
<1>7. EndTypes'
  BY <1>1 DEF HonestInv, EndTypes
<1> QED
  BY <1>5, <1>6, <1>7, OneMovesHonest

LEMMA HandleHonest ==
    ASSUME OrderInv, HonestInv, NEW c \in Clients, Handle(c)
    PROVE  HonestInv'
<1>1. /\ mail[c] = "sent" /\ mail' = [mail EXCEPT ![c] = "handled"]
      /\ pc' = pc /\ next' = next /\ command' = command /\ had_error' = had_error
  BY DEF Handle, clientVars
<1>2. PICK a : /\ answer' = [answer EXCEPT ![c] = a]
               /\ executed' = [executed EXCEPT ![c] =
                     Append(@, [number |-> next[c], home |-> HomeOfDaemon(link[c]), answer |-> a])]
  BY DEF Handle
<1> DEFINE entry == [number |-> next[c], home |-> HomeOfDaemon(link[c]), answer |-> a]
<1>3. /\ executed[c] \in Seq(Executed) /\ executed'[c] = Append(executed[c], entry)
      /\ entry.answer = a
  BY <1>2 DEF OrderInv, OrderTypes
<1> HIDE DEF entry
<1>4. /\ Len(executed'[c]) = Len(executed[c]) + 1 /\ Len(executed[c]) \in Nat
      /\ executed'[c][Len(executed[c]) + 1] = entry
      /\ \A k \in 1 .. Len(executed[c]) : executed'[c][k] = executed[c][k]
  BY <1>3
<1>5. Count(c) \in Nat /\ Count(c)' = Count(c) + 1 /\ executed'[c][Count(c)'].answer = a
  BY <1>3, <1>4 DEF Count
<1>6. ErrorUpTo(c, Count(c) - 1)' <=> ErrorUpTo(c, Count(c))
  <2>1. Count(c)' - 1 = Count(c)
    BY <1>5
  <2> QED
    BY <1>4, <2>1 DEF ErrorUpTo, Count
<1>7. \A other \in Clients : HadError(other)' <=> HadError(other)
  BY <1>1, Zenon DEF HadError
<1>8. mail'[c] = "handled" /\ answer'[c] = a /\ pc'[c] = pc[c]
  BY <1>1, <1>2 DEF HonestInv, EndTypes, OrderInv, OrderTypes
<1>9. pc[c] \notin {"ask", "done"}
  BY <1>1 DEF OrderInv, CountInv, HonestInv, Honest
<1>10. Honest(c)'
  BY <1>1, <1>5, <1>6, <1>7, <1>8, <1>9 DEF HonestInv, Honest
<1>11. \A other \in Clients \ {c} : Same(other)
  BY <1>1, <1>2, <1>7 DEF Same, HonestInv, EndTypes, OrderInv, OrderTypes
<1>12. EndTypes'
  BY <1>1, <1>2 DEF HonestInv, EndTypes
<1> QED
  BY <1>10, <1>11, <1>12, OneMovesHonest

LEMMA ReplyHonest ==
    ASSUME OrderInv, HonestInv, NEW c \in Clients, Reply(c)
    PROVE  HonestInv'
<1>1. /\ mail[c] = "handled" /\ mail' = [mail EXCEPT ![c] = "answered"]
      /\ pc' = pc /\ next' = next /\ command' = command /\ had_error' = had_error
      /\ answer' = answer /\ executed' = executed
  BY DEF Reply, clientVars
<1>2. \A other \in Clients : HadError(other)' <=> HadError(other)
  BY <1>1, Zenon DEF HadError
<1>3. /\ mail'[c] = "answered" /\ Count(c)' = Count(c)
      /\ ErrorUpTo(c, Count(c) - 1)' <=> ErrorUpTo(c, Count(c) - 1)
  BY <1>1 DEF OrderInv, OrderTypes, Count, ErrorUpTo
<1>4. pc[c] \notin {"ask", "done"}
  BY <1>1 DEF OrderInv, CountInv, HonestInv, Honest
<1>5. Honest(c)'
  BY <1>1, <1>2, <1>3, <1>4 DEF HonestInv, Honest
<1>6. \A other \in Clients \ {c} : Same(other)
  BY <1>1, <1>2 DEF Same, OrderInv, OrderTypes
<1>7. EndTypes'
  BY <1>1 DEF HonestInv, EndTypes
<1> QED
  BY <1>5, <1>6, <1>7, OneMovesHonest

LEMMA RefuseHonest ==
    ASSUME OrderInv, HonestInv, NEW c \in Clients, Refuse(c)
    PROVE  HonestInv'
<1>1. /\ mail[c] = "sent" /\ mail' = [mail EXCEPT ![c] = "refused"]
      /\ pc' = pc /\ next' = next /\ command' = command /\ had_error' = had_error
      /\ answer' = answer /\ executed' = executed
  BY DEF Refuse, clientVars
<1>2. \A other \in Clients : HadError(other)' <=> HadError(other)
  BY <1>1, Zenon DEF HadError
<1>3. mail'[c] = "refused" /\ pc[c] \notin {"ask", "done"}
  BY <1>1 DEF OrderInv, OrderTypes, CountInv, HonestInv, Honest
<1>4. Honest(c)'
  BY <1>1, <1>3 DEF HonestInv, Honest
<1>5. \A other \in Clients \ {c} : Same(other)
  BY <1>1, <1>2 DEF Same, OrderInv, OrderTypes
<1>6. EndTypes'
  BY <1>1 DEF HonestInv, EndTypes
<1> QED
  BY <1>4, <1>5, <1>6, OneMovesHonest

\* Connections break, and nothing else happens to clients.
LEMMA BreakingHonest ==
    ASSUME OrderInv, HonestInv, UNCHANGED <<clientVars, answer, executed>>,
           \A c \in Clients : \/ mail'[c] = mail[c]
                              \/ mail'[c] = "broken" /\ mail[c] # "none"
    PROVE  HonestInv'
<1>1. /\ pc' = pc /\ next' = next /\ command' = command /\ had_error' = had_error
      /\ answer' = answer /\ executed' = executed
  BY DEF clientVars
<1>2. \A c \in Clients : HadError(c)' <=> HadError(c)
  BY <1>1, Zenon DEF HadError
<1>3. ASSUME NEW c \in Clients, mail'[c] = mail[c] PROVE Honest(c)'
  BY <1>1, <1>2, <1>3, SameIsHonest DEF HonestInv, Same
<1>4. ASSUME NEW c \in Clients, mail'[c] = "broken", mail[c] # "none" PROVE Honest(c)'
  <2>1. pc[c] \notin {"ask", "done"}
    BY <1>4 DEF OrderInv, CountInv, HonestInv, Honest
  <2> QED
    BY <1>1, <1>4, <2>1 DEF Honest
<1> QED
  BY <1>1, <1>3, <1>4 DEF HonestInv, EndTypes

LEMMA DaemonHonest ==
    ASSUME OrderInv, HonestInv, NEW d \in Daemons, Bind(d) \/ LoadQueue(d) \/ Exit(d) \/ Crash(d)
    PROVE  HonestInv'
<1>1. Ends(d) \/ UNCHANGED <<clientVars, connVars, executed>>
  BY DEF Bind, LoadQueue, Exit, Crash
<1>2. CASE UNCHANGED <<clientVars, connVars, executed>>
  BY <1>2, BreakingHonest DEF connVars
<1>3. CASE Ends(d)
  <2>1. /\ UNCHANGED <<clientVars, answer, executed>>
        /\ mail' = [c \in Clients |->
              IF link[c] = d /\ mail[c] \in {"sent", "handled"} THEN "broken" ELSE mail[c]]
    BY <1>3 DEF Ends
  <2> QED
    BY <2>1, BreakingHonest
<1> QED
  BY <1>1, <1>2, <1>3

LEMMA WalkersHonest ==
    ASSUME OrderInv, HonestInv, NEW c \in Clients,
           \/ Start(c) \/ Connect(c) \/ SpawnFails(c) \/ Retry(c) \/ GiveUp(c) \/ ReceiveFails(c)
           \/ Interrupt(c)
    PROVE  HonestInv'
<1>1. CASE Start(c)
  <2>1. PICK to \in {"rejected", "connect"} : pc' = [pc EXCEPT ![c] = to]
    BY <1>1 DEF Start, Goes
  <2>2. PICK requests : command' = [command EXCEPT ![c] = requests]
    BY <1>1 DEF Start
  <2>3. /\ pc[c] = "idle" /\ mail[c] = "none" /\ next' = next /\ mail' = mail /\ answer' = answer
        /\ UNCHANGED <<executed, had_error>>
    BY <1>1 DEF Start, connVars, OrderInv, CountInv
  <2> QED
    BY <2>1, <2>2, <2>3, WalkingHonest DEF HonestInv, EndTypes, OrderInv, OrderTypes
<1>2. CASE Connect(c) \/ Retry(c)
  <2>1. /\ pc[c] \in {"connect", "retry"} /\ mail[c] = "none" /\ next' = next /\ command' = command
        /\ answer' = answer /\ UNCHANGED <<executed, had_error>>
        /\ \/ pc' = [pc EXCEPT ![c] = "receive"] /\ mail' = [mail EXCEPT ![c] = "sent"]
           \/ pc' = [pc EXCEPT ![c] = "retry"] /\ mail' = mail
    BY <1>2 DEF Connect, Retry, Send, SpawnDaemon, Goes, OrderInv, CountInv
  <2>2. /\ mail'[c] \in {"none", "sent"}
        /\ \A other \in Clients \ {c} : mail'[other] = mail[other]
    BY <2>1 DEF OrderInv, OrderTypes
  <2> QED
    BY <2>1, <2>2, WalkingHonest DEF HonestInv, EndTypes, OrderInv, OrderTypes
<1>3. CASE SpawnFails(c) \/ GiveUp(c) \/ ReceiveFails(c) \/ Interrupt(c)
  <2>1. PICK to \in {"failed", "interrupted"} : pc' = [pc EXCEPT ![c] = to]
    BY <1>3 DEF SpawnFails, GiveUp, ReceiveFails, Interrupt, Goes
  <2>2. next' = next /\ command' = command /\ UNCHANGED <<executed, had_error>>
    BY <1>3 DEF SpawnFails, GiveUp, ReceiveFails, Interrupt
  <2>3. (mail' = mail /\ answer' = answer) \/ HangUp(c)
    BY <1>3 DEF SpawnFails, GiveUp, ReceiveFails, Interrupt, connVars
  <2>4. /\ DOMAIN answer' = Clients
        /\ \A other \in Clients \ {c} : mail'[other] = mail[other] /\ answer'[other] = answer[other]
    BY <2>3 DEF HangUp, HonestInv, EndTypes, OrderInv, OrderTypes
  <2> QED
    BY <2>1, <2>2, <2>4, WalkingHonest DEF HonestInv, EndTypes, OrderInv, OrderTypes
<1> QED
  BY <1>1, <1>2, <1>3

LEMMA HonestStep == OrderInv /\ HonestInv /\ [ClientNext]_vars => HonestInv'
<1> SUFFICES ASSUME OrderInv, HonestInv, [ClientNext]_vars PROVE HonestInv'
  OBVIOUS
<1>1. ASSUME NEW c \in Clients,
             \/ Start(c) \/ Connect(c) \/ SpawnFails(c) \/ Retry(c) \/ GiveUp(c) \/ Receive(c)
             \/ ReceiveFails(c) \/ Confirm(c) \/ Interrupt(c) \/ Handle(c) \/ Refuse(c) \/ Reply(c)
      PROVE  HonestInv'
  BY <1>1, WalkersHonest, ReceiveHonest, ConfirmHonest, HandleHonest, RefuseHonest,
     ReplyHonest
<1>2. ASSUME NEW d \in Daemons, Bind(d) \/ LoadQueue(d) \/ Exit(d) \/ Crash(d)
      PROVE  HonestInv'
  BY <1>2, DaemonHonest
<1>3. CASE UNCHANGED vars
  BY <1>3, BreakingHonest DEF vars, connVars
<1> QED
  BY <1>1, <1>2, <1>3 DEF ClientNext

LEMMA HonestInit == ClientInit => HonestInv
<1> SUFFICES ASSUME ClientInit PROVE HonestInv
  OBVIOUS
<1>1. EndTypes
  BY DEF ClientInit, EndTypes
<1>2. \A c \in Clients : /\ pc[c] = "idle" /\ mail[c] = "none" /\ Count(c) = 0
                         /\ ~ErrorUpTo(c, 0)
  BY DEF ClientInit, Count, ErrorUpTo
<1>3. \A c \in Clients : ~HadError(c)
  BY Zenon DEF ClientInit, HadError
<1> QED
  BY <1>1, <1>2, <1>3 DEF HonestInv, Honest

\* A command that comes to its end has had its requests executed, and its exit
\* status is an error exactly when one of the answers was (client.rs 122-311).
THEOREM ExitsAreTruthful == ClientSpec => []TruthfulExit
<1>1. ASSUME HonestInv, NEW c \in Clients, pc[c] = "done"
      PROVE  /\ Len(executed[c]) = IF command[c] = resume_all THEN next[c] ELSE Len(command[c])
             /\ HadError(c) <=> ErrorUpTo(c, Len(executed[c]))
  BY <1>1 DEF HonestInv, Honest, Count
<1>2. HonestInv => TruthfulExit
  BY <1>1, Zenon DEF TruthfulExit, HadError, ErrorUpTo
<1>3. OrderInv /\ HonestInv /\ [ClientNext]_vars => HonestInv'
  BY HonestStep
<1> QED
  BY <1>2, <1>3, HonestInit, OrderInvariant, PTL DEF ClientSpec

-----------------------------------------------------------------------------
(* Why commands fail, where sockets are namespaced *)

WasLost(c) == lost[c]
Leaves(d)  == leaving[d]

ReachTypes == link \in [Clients -> Daemons \cup {0}]

\* Nobody leaves a stale name, and only who serves is asked to leave.
Ground ==
    /\ \A name \in SocketNames : socket[name] # Stale
    /\ DOMAIN leaving = Daemons
    /\ \A d \in Daemons : Leaves(d) => phase[d] = "serving"

\* Whoever waits for an answer is connected to the daemon that has its socket, and
\* whoever waits for a daemon has one on its way, unless one ended.
Excused(c) ==
    /\ pc[c] = "receive" /\ mail[c] \in {"sent", "handled"} =>
          link[c] \in Daemons /\ socket[SocketName(c)] = link[c]
    /\ pc[c] = "receive" /\ mail[c] = "broken" => WasLost(c)
    /\ pc[c] = "retry" /\ link[c] \in Daemons => owner[link[c]] = c /\ phase[link[c]] # "none"
    /\ pc[c] = "retry" /\ link[c] = 0 => WasLost(c) \/ Listening(c)

FailInv == ReachTypes /\ Ground /\ \A c \in Clients : Excused(c)

\* What an event elsewhere leaves alone.
Untouched(c) ==
    /\ pc'[c] = pc[c] /\ mail'[c] = mail[c] /\ link'[c] = link[c]
    /\ WasLost(c)' <=> WasLost(c)

\* Daemons come up and take free names.
Growing ==
    /\ \A name \in SocketNames : socket[name] \in Daemons => socket'[name] = socket[name]
    /\ \A d \in Daemons : phase[d] # "none" => phase'[d] # "none" /\ owner'[d] = owner[d]

LEMMA BystanderKeeps ==
    ASSUME NEW c \in Clients, Excused(c), ReachTypes, Untouched(c), Growing
    PROVE  Excused(c)'
<1>1. Listening(c) => Listening(c)'
  BY NameOfClient DEF Growing, Listening, SocketName
<1>2. /\ SocketName(c)' = SocketName(c) /\ SocketName(c) \in SocketNames
      /\ Daemons' = Daemons
  BY NameOfClient DEF SocketName, Daemons
<1>3. WasLost(c)' <=> WasLost(c)
  BY DEF Untouched
<1> QED
  BY <1>1, <1>2, <1>3 DEF Excused, Untouched, Growing, ReachTypes

\* A step of one client.
LEMMA OneClientSteps ==
    ASSUME FailInv, NEW c \in Clients, ReachTypes', Ground', Excused(c)', Growing,
           \A other \in Clients \ {c} : Untouched(other)
    PROVE  FailInv'
<1>1. ASSUME NEW other \in Clients \ {c} PROVE Excused(other)'
  BY <1>1, BystanderKeeps DEF FailInv
<1> QED
  BY <1>1 DEF FailInv

LEMMA SendExcused ==
    ASSUME FailInv, SocketInv, NEW c \in Clients, Send(c), lost' = lost,
           DOMAIN pc = Clients, DOMAIN mail = Clients
    PROVE  FailInv'
<1>1. /\ link' = [link EXCEPT ![c] = socket[SocketName(c)]]
      /\ mail' = [mail EXCEPT ![c] = "sent"] /\ pc' = [pc EXCEPT ![c] = "receive"]
      /\ socket[SocketName(c)] \in Daemons
      /\ phase' = phase /\ owner' = owner /\ leaving' = leaving /\ socket' = socket
  BY DEF Send, Goes, daemonVars, Listening
<1>2. ReachTypes' /\ Ground' /\ Growing
  BY <1>1 DEF FailInv, ReachTypes, Ground, Growing, Leaves, SocketNames, SocketName
<1>3. /\ pc'[c] = "receive" /\ mail'[c] = "sent" /\ link'[c] = socket[SocketName(c)]
  BY <1>1 DEF FailInv, ReachTypes
<1>4. Excused(c)'
  BY <1>1, <1>3 DEF FailInv, Excused, SocketName
<1>5. \A other \in Clients \ {c} : Untouched(other)
  <2>1. \A other \in Clients : WasLost(other)' <=> WasLost(other)
    BY Zenon DEF WasLost
  <2> QED
    BY <1>1, <2>1 DEF Untouched, FailInv, ReachTypes
<1> QED
  BY <1>2, <1>4, <1>5, OneClientSteps

LEMMA SpawnExcused ==
    ASSUME FailInv, SocketInv, NEW c \in Clients, SpawnDaemon(c), lost' = lost,
           DOMAIN pc = Clients, DOMAIN mail = Clients
    PROVE  FailInv'
<1>1. PICK d \in Daemons : /\ phase[d] = "none"
                           /\ phase' = [phase EXCEPT ![d] = "starting"]
                           /\ owner' = [owner EXCEPT ![d] = c]
                           /\ link' = [link EXCEPT ![c] = d]
  BY DEF SpawnDaemon
<1>2. /\ pc' = [pc EXCEPT ![c] = "retry"] /\ mail' = mail
      /\ leaving' = leaving /\ socket' = socket
  BY DEF SpawnDaemon, Goes
<1>3. ReachTypes' /\ Growing
  BY <1>1, <1>2 DEF FailInv, ReachTypes, Growing, SocketInv, DaemonTypes
<1>4. Ground'
  <2>1. \A other \in Daemons : Leaves(other)' <=> Leaves(other)
    BY <1>2, Zenon DEF Leaves
  <2> QED
    BY <1>1, <1>2, <2>1 DEF FailInv, Ground, SocketInv, DaemonTypes, SocketNames, SocketName
<1>5. /\ pc'[c] = "retry" /\ link'[c] = d /\ owner'[d] = c /\ phase'[d] = "starting"
  BY <1>1, <1>2 DEF FailInv, ReachTypes, SocketInv, DaemonTypes
<1>6. Excused(c)'
  BY <1>2, <1>5, NamesApart DEF FailInv, Excused
<1>7. \A other \in Clients \ {c} : Untouched(other)
  <2>1. \A other \in Clients : WasLost(other)' <=> WasLost(other)
    BY Zenon DEF WasLost
  <2> QED
    BY <1>1, <1>2, <2>1 DEF Untouched, FailInv, ReachTypes
<1> QED
  BY <1>3, <1>4, <1>6, <1>7, OneClientSteps

\* The client goes on by itself, to where nothing is owed to it.
LEMMA MovingExcused ==
    ASSUME FailInv, NEW c \in Clients, NEW to, pc' = [pc EXCEPT ![c] = to], DOMAIN pc = Clients,
           to \notin {"receive", "retry"},
           UNCHANGED <<daemonVars, lost>>,
           link' = link \/ link' = [link EXCEPT ![c] = 0],
           mail' = mail \/ mail' = [mail EXCEPT ![c] = "none"], DOMAIN mail = Clients
    PROVE  FailInv'
<1>1. phase' = phase /\ owner' = owner /\ leaving' = leaving /\ socket' = socket
  BY DEF daemonVars
<1>2. /\ ReachTypes'
      /\ \A other \in Clients \ {c} : mail'[other] = mail[other] /\ link'[other] = link[other]
  BY DEF FailInv, ReachTypes
<1>3. Ground' /\ Growing
  BY <1>1 DEF FailInv, Ground, Growing, Leaves, SocketNames, SocketName
<1>4. \A other \in Clients : WasLost(other)' <=> WasLost(other)
  BY Zenon DEF WasLost
<1>5. Excused(c)'
  BY DEF Excused
<1>6. \A other \in Clients \ {c} : Untouched(other)
  BY <1>2, <1>4 DEF Untouched
<1> QED
  BY <1>2, <1>3, <1>5, <1>6, OneClientSteps

LEMMA HandleExcused ==
    ASSUME FailInv, SocketInv, OrderInv, NEW c \in Clients, Handle(c)
    PROVE  FailInv'
<1>1. /\ link[c] \in Daemons /\ phase[link[c]] = "serving" /\ mail[c] = "sent"
      /\ mail' = [mail EXCEPT ![c] = "handled"] /\ pc' = pc /\ link' = link
      /\ phase' = phase /\ owner' = owner /\ socket' = socket /\ lost' = lost
  BY DEF Handle, clientVars
<1>2. ReachTypes' /\ Growing
  BY <1>1 DEF FailInv, ReachTypes, Growing
<1>3. Ground'
  <2>0. PICK x : leaving' = [leaving EXCEPT ![link[c]] = x]
    BY DEF Handle
  <2>1. \A d \in Daemons : Leaves(d)' => Leaves(d) \/ d = link[c]
    <3>1. leaving' = [leaving EXCEPT ![link[c]] = x]
      BY <2>0
    <3>2. ASSUME NEW d \in Daemons, d # link[c] PROVE leaving'[d] = leaving[d]
      BY <3>1, <3>2 DEF FailInv, Ground
    <3> QED
      BY <3>2, Zenon DEF Leaves
  <2>2. DOMAIN leaving' = Daemons
    BY <2>0 DEF FailInv, Ground
  <2> QED
    BY <1>1, <2>1, <2>2 DEF FailInv, Ground, SocketNames, SocketName, Daemons
<1>4. \A other \in Clients : WasLost(other)' <=> WasLost(other)
  BY <1>1, Zenon DEF WasLost
<1>5. Excused(c)'
  <2>1. mail'[c] = "handled"
    BY <1>1 DEF OrderInv, OrderTypes
  <2> QED
    BY <1>1, <1>4, <2>1 DEF FailInv, Excused, Listening, SocketName, Daemons
<1>6. \A other \in Clients \ {c} : Untouched(other)
  BY <1>1, <1>4 DEF Untouched, OrderInv, OrderTypes
<1> QED
  BY <1>2, <1>3, <1>5, <1>6, OneClientSteps

LEMMA AnswerExcused ==
    ASSUME FailInv, OrderInv, NEW c \in Clients, Reply(c) \/ Refuse(c)
    PROVE  FailInv'
<1>1. /\ mail' = [mail EXCEPT ![c] = "answered"] \/ mail' = [mail EXCEPT ![c] = "refused"]
      /\ pc' = pc /\ link' = link
      /\ phase' = phase /\ owner' = owner /\ leaving' = leaving /\ socket' = socket
      /\ lost' = lost
  BY DEF Reply, Refuse, clientVars, daemonVars
<1>2. ReachTypes' /\ Ground' /\ Growing
  BY <1>1 DEF FailInv, ReachTypes, Ground, Growing, Leaves, SocketNames, SocketName
<1>3. \A other \in Clients : WasLost(other)' <=> WasLost(other)
  BY <1>1, Zenon DEF WasLost
<1>4. mail'[c] \in {"answered", "refused"}
  BY <1>1 DEF OrderInv, OrderTypes
<1>5. Excused(c)'
  BY <1>1, <1>3, <1>4 DEF FailInv, Excused, Listening, SocketName, Daemons
<1>6. \A other \in Clients \ {c} : Untouched(other)
  BY <1>1, <1>3 DEF Untouched, OrderInv, OrderTypes
<1> QED
  BY <1>2, <1>5, <1>6, OneClientSteps

\* A daemon moves on, no client notices.
LEMMA DaemonMovesExcused ==
    ASSUME FailInv, Ground', Growing, UNCHANGED <<clientVars, connVars, executed, lost>>
    PROVE  FailInv'
<1>1. ReachTypes'
  BY DEF FailInv, ReachTypes, connVars
<1>2. \A c \in Clients : Untouched(c)
  <2>1. \A c \in Clients : WasLost(c)' <=> WasLost(c)
    BY Zenon DEF WasLost
  <2> QED
    BY <2>1 DEF Untouched, clientVars, connVars
<1> QED
  BY <1>1, <1>2, BystanderKeeps DEF FailInv

\* The end of a daemon that has its socket, or that found it taken.
LEMMA EndExcused ==
    ASSUME FailInv, SocketInv, OrderInv, Namespaced, NEW d \in Daemons, Ends(d),
           d \in Bound \/ (phase[d] = "starting" /\ socket[SocketName(owner[d])] \in Daemons)
    PROVE  FailInv'
<1>1. /\ phase' = [phase EXCEPT ![d] = "none"] /\ owner' = [owner EXCEPT ![d] = Anyone]
      /\ pc' = pc
      /\ mail' = [c \in Clients |->
            IF link[c] = d /\ mail[c] \in {"sent", "handled"} THEN "broken" ELSE mail[c]]
      /\ link' = [c \in Clients |-> IF link[c] = d THEN 0 ELSE link[c]]
  BY DEF Ends, clientVars
<1>2. socket' = [name \in SocketNames |-> IF socket[name] = d THEN Free ELSE socket[name]]
  BY Zenon DEF Ends
<1>3. \A c \in Clients : WasLost(c)' <=> WasLost(c) \/ (pc[c] \in Working /\ socket[SocketName(c)] = d)
  BY Zenon DEF Ends, WasLost
<1>5. ReachTypes'
  BY <1>1, NamesApart DEF FailInv, ReachTypes
<1>6. Ground'
  <2>1. \A other \in Daemons : Leaves(other)' => Leaves(other) /\ other # d
    <3>1. leaving' = [leaving EXCEPT ![d] = FALSE]
      BY DEF Ends
    <3>2. ASSUME NEW other \in Daemons, other # d PROVE leaving'[other] = leaving[other]
      BY <3>1, <3>2 DEF FailInv, Ground
    <3>3. leaving'[d] = FALSE
      BY <3>1 DEF FailInv, Ground
    <3> QED
      BY <3>2, <3>3, Zenon DEF Leaves
  <2>2. DOMAIN leaving' = Daemons
    BY DEF Ends, FailInv, Ground
  <2>3. \A name \in SocketNames : socket'[name] # Stale
    BY <1>2, ClientAssumption DEF FailInv, Ground, Free, Stale
  <2> QED
    BY <1>1, <2>1, <2>2, <2>3 DEF FailInv, Ground, SocketInv, DaemonTypes, SocketNames, SocketName,
       Daemons, Stale
<1>7. ASSUME NEW c \in Clients PROVE Excused(c)'
  <2> DEFINE name == SocketName(c)
  <2>1. name \in SocketNames /\ name' = name
    BY NameOfClient DEF SocketName
  <2> HIDE DEF name
  <2>2. /\ link'[c] = IF link[c] = d THEN 0 ELSE link[c]
        /\ mail'[c] = IF link[c] = d /\ mail[c] \in {"sent", "handled"} THEN "broken" ELSE mail[c]
        /\ socket'[name] = IF socket[name] = d THEN Free ELSE socket[name]
        /\ link[c] \in Daemons \cup {0}
    BY <1>1, <1>2, <2>1 DEF FailInv, ReachTypes
  <2>3. Excused(c)
    BY DEF FailInv
  <2>5. pc'[c] = "receive" /\ mail'[c] \in {"sent", "handled"} =>
           link'[c] \in Daemons /\ socket'[name] = link'[c]
    BY <1>1, <2>2, <2>3 DEF Excused, name
  <2>6. pc'[c] = "receive" /\ mail'[c] = "broken" => WasLost(c)'
    BY <1>1, <1>3, <2>2, <2>3 DEF Excused, Working
  <2>7. pc'[c] = "retry" /\ link'[c] \in Daemons => owner'[link'[c]] = c /\ phase'[link'[c]] # "none"
    BY <1>1, <2>2, <2>3, NamesApart DEF Excused, SocketInv, DaemonTypes
  <2>8. pc'[c] = "retry" /\ link'[c] = 0 => WasLost(c)' \/ socket'[name] \in Daemons
    <3> SUFFICES ASSUME pc[c] = "retry", link'[c] = 0
                 PROVE  WasLost(c)' \/ socket'[name] \in Daemons
      BY <1>1
    <3>1. CASE socket[name] = d
      BY <1>3, <3>1 DEF Working, name
    <3>2. CASE socket[name] # d /\ link[c] = 0
      BY <1>3, <2>2, <2>3, <3>2 DEF Excused, Listening, name
    <3>3. CASE socket[name] # d /\ link[c] = d
      <4>1. owner[d] = c /\ d \notin Bound
        BY <2>3, <3>3 DEF Excused, SocketInv, BoundHasName, name
      <4> QED
        BY <2>2, <3>3, <4>1 DEF name
    <3> QED
      BY <2>2, <3>1, <3>2, <3>3
  <2> QED
    BY <2>1, <2>5, <2>6, <2>7, <2>8 DEF Excused, Listening, name, Daemons
<1> QED
  BY <1>5, <1>6, <1>7 DEF FailInv

LEMMA DaemonExcused ==
    ASSUME FailInv, SocketInv, OrderInv, Namespaced, NEW d \in Daemons,
           Bind(d) \/ LoadQueue(d) \/ Exit(d) \/ Crash(d)
    PROVE  FailInv'
<1>1. CASE Ends(d)
  <2>1. d \in Bound \/ (phase[d] = "starting" /\ socket[SocketName(owner[d])] \in Daemons)
    <3>1. CASE Bind(d) /\ phase[d] = "starting"
      <4>1. socket[SocketName(owner[d])] \in Daemons \cup {Free}
        BY <3>1, NameOfClient DEF FailInv, Ground, SocketInv, DaemonTypes
      <4>2. socket[SocketName(owner[d])] # Free
        <5>1. CASE socket[SocketName(owner[d])] = Free
          <6>1. phase' = [phase EXCEPT ![d] = "bound"] /\ phase' = [phase EXCEPT ![d] = "none"]
            BY <1>1, <3>1, <5>1 DEF Bind, Ends
          <6> QED
            BY <6>1 DEF SocketInv, DaemonTypes
        <5> QED
          BY <5>1
      <4> QED
        BY <3>1, <4>1, <4>2
    <3>2. CASE Exit(d)
      <4>1. Leaves(d)
        BY <3>2, Zenon DEF Exit, Leaves
      <4> QED
        BY <4>1 DEF FailInv, Ground, Bound
    <3>3. CASE LoadQueue(d) \/ Crash(d)
      BY <3>3 DEF LoadQueue, Crash, Bound
    <3> QED
      BY <3>1, <3>2, <3>3 DEF Bind
  <2> QED
    BY <1>1, <2>1, EndExcused
<1>2. CASE ~Ends(d)
  <2>1. CASE Bind(d)
    <3>1. /\ phase[d] = "starting" /\ phase' = [phase EXCEPT ![d] = "bound"]
          /\ socket[SocketName(owner[d])] = Free
          /\ socket' = [socket EXCEPT ![SocketName(owner[d])] = d]
          /\ owner' = owner /\ leaving' = leaving
          /\ UNCHANGED <<clientVars, connVars, executed, lost>>
      BY <1>2, <2>1 DEF Bind
    <3>2. Growing
      BY <3>1, NamesApart DEF Growing, SocketInv, DaemonTypes
    <3>3. Ground'
      <4>1. \A other \in Daemons : Leaves(other)' <=> Leaves(other)
        BY <3>1, Zenon DEF Leaves
      <4>2. \A name \in SocketNames : socket'[name] # Stale
        BY <3>1, NamesApart DEF FailInv, Ground, SocketInv, DaemonTypes
      <4> QED
        BY <3>1, <4>1, <4>2 DEF FailInv, Ground, SocketInv, DaemonTypes, SocketNames, SocketName,
           Daemons, Stale
    <3> QED
      BY <3>1, <3>2, <3>3, DaemonMovesExcused
  <2>2. CASE LoadQueue(d)
    <3>1. /\ phase[d] = "bound" /\ phase' = [phase EXCEPT ![d] = "serving"]
          /\ socket' = socket /\ owner' = owner /\ leaving' = leaving
          /\ UNCHANGED <<clientVars, connVars, executed, lost>>
      BY <1>2, <2>2 DEF LoadQueue
    <3>2. Growing
      BY <3>1 DEF Growing, SocketInv, DaemonTypes
    <3>3. Ground'
      <4>1. \A other \in Daemons : Leaves(other)' <=> Leaves(other)
        BY <3>1, Zenon DEF Leaves
      <4> QED
        BY <3>1, <4>1 DEF FailInv, Ground, SocketInv, DaemonTypes, SocketNames, SocketName,
           Daemons, Stale
    <3> QED
      BY <3>1, <3>2, <3>3, DaemonMovesExcused
  <2> QED
    BY <1>2, <2>1, <2>2 DEF Exit, Crash
<1> QED
  BY <1>1, <1>2

LEMMA ClientExcused ==
    ASSUME FailInv, SocketInv, OrderInv, NEW c \in Clients,
           \/ Start(c) \/ Connect(c) \/ SpawnFails(c) \/ Retry(c) \/ GiveUp(c) \/ Receive(c)
           \/ ReceiveFails(c) \/ Confirm(c) \/ Interrupt(c) \/ Handle(c) \/ Refuse(c) \/ Reply(c)
    PROVE  FailInv'
<1> DOMAIN pc = Clients /\ DOMAIN mail = Clients
  BY DEF OrderInv, OrderTypes
<1> DEFINE Moves(to) == /\ pc' = [pc EXCEPT ![c] = to]
                        /\ UNCHANGED <<daemonVars, lost>>
                        /\ link' = link \/ link' = [link EXCEPT ![c] = 0]
                        /\ mail' = mail \/ mail' = [mail EXCEPT ![c] = "none"]
<1>1. CASE Connect(c) \/ Retry(c)
  BY <1>1, SendExcused, SpawnExcused DEF Connect, Retry
<1>2. CASE Handle(c) \/ Refuse(c) \/ Reply(c)
  BY <1>2, HandleExcused, AnswerExcused
<1>3. CASE Start(c) \/ SpawnFails(c) \/ GiveUp(c) \/ Receive(c) \/ ReceiveFails(c) \/ Confirm(c) \/ Interrupt(c)
  <2>1. \/ Moves("rejected") \/ Moves("connect") \/ Moves("done") \/ Moves("ask")
        \/ Moves("interrupted") \/ Moves("failed")
    <3>1. CASE Start(c)
      <4>1. PICK requests \in CommandsOf[c] :
               pc' = [pc EXCEPT ![c] = IF requests = <<>> THEN "rejected" ELSE "connect"]
        BY <3>1 DEF Start, Goes
      <4>2. CASE requests = <<>>
        BY <3>1, <4>1, <4>2 DEF Start, connVars
      <4>3. CASE requests # <<>>
        BY <3>1, <4>1, <4>3 DEF Start, connVars
      <4> QED
        BY <4>2, <4>3
    <3>2. CASE Receive(c)
      BY <3>2 DEF Receive, NextRequest, Goes, HangUp
    <3>3. CASE Confirm(c)
      BY <3>3 DEF Confirm, NextRequest, Goes, connVars
    <3>4. CASE Interrupt(c)
      BY <3>4 DEF Interrupt, Goes, connVars
    <3>5. CASE SpawnFails(c) \/ GiveUp(c) \/ ReceiveFails(c)
      BY <3>5 DEF SpawnFails, GiveUp, ReceiveFails, Goes, HangUp, connVars
    <3> QED
      BY <1>3, <3>1, <3>2, <3>3, <3>4, <3>5
  <2> QED
    BY <2>1, MovingExcused
<1> QED
  BY <1>1, <1>2, <1>3

LEMMA FailStep ==
    SocketInv /\ OrderInv /\ Namespaced /\ FailInv /\ [ClientNext]_vars => FailInv'
<1> SUFFICES ASSUME SocketInv, OrderInv, Namespaced, FailInv, [ClientNext]_vars PROVE FailInv'
  OBVIOUS
<1>1. ASSUME NEW c \in Clients,
             \/ Start(c) \/ Connect(c) \/ SpawnFails(c) \/ Retry(c) \/ GiveUp(c) \/ Receive(c)
             \/ ReceiveFails(c) \/ Confirm(c) \/ Interrupt(c) \/ Handle(c) \/ Refuse(c) \/ Reply(c)
      PROVE  FailInv'
  BY <1>1, ClientExcused
<1>2. ASSUME NEW d \in Daemons, Bind(d) \/ LoadQueue(d) \/ Exit(d) \/ Crash(d)
      PROVE  FailInv'
  BY <1>2, DaemonExcused
<1>3. CASE UNCHANGED vars
  <2>1. UNCHANGED <<clientVars, connVars, executed, lost>> /\ UNCHANGED daemonVars
    BY <1>3 DEF vars
  <2>2. Ground' /\ Growing
    BY <2>1 DEF FailInv, Ground, Growing, Leaves, SocketNames, SocketName, daemonVars
  <2> QED
    BY <2>1, <2>2, DaemonMovesExcused
<1> QED
  BY <1>1, <1>2, <1>3 DEF ClientNext

LEMMA FailInit == ClientInit => FailInv
<1> SUFFICES ASSUME ClientInit PROVE FailInv
  OBVIOUS
<1>1. ReachTypes
  BY DEF ClientInit, ReachTypes
<1>2. Ground
  <2>1. \A d \in Daemons : ~Leaves(d)
    BY Zenon DEF ClientInit, Leaves
  <2> QED
    BY <2>1, ClientAssumption DEF ClientInit, Ground, Free, Stale
<1>3. \A c \in Clients : pc[c] = "idle"
  BY DEF ClientInit
<1> QED
  BY <1>1, <1>2, <1>3 DEF FailInv, Excused

\* A client that gives up although nobody's end has cost it its daemon still waits for
\* one that starts: past bind, it would be listening.
LEMMA WaitsForOneThatStarts ==
    ASSUME FailInv, SocketInv, NEW c \in Clients, pc[c] = "retry", ~Listening(c)
    PROVE  WasLost(c) \/ (link[c] \in Daemons /\ phase[link[c]] = "starting")
<1>1. CASE link[c] = 0
  BY <1>1 DEF FailInv, Excused
<1>2. CASE link[c] \in Daemons
  <2>1. owner[link[c]] = c /\ phase[link[c]] \in Phases \ {"none"}
    BY <1>2 DEF FailInv, Excused, SocketInv, DaemonTypes
  <2>2. link[c] \notin Bound
    BY <1>2, <2>1 DEF SocketInv, BoundHasName, Listening
  <2> QED
    BY <1>2, <2>1, <2>2 DEF Bound, Phases
<1> QED
  BY <1>1, <1>2 DEF FailInv, ReachTypes

\* Nothing but these three ends a command in failure.
LEMMA WhoFails ==
    ASSUME OrderInv, [ClientNext]_vars, NEW c \in Clients, pc[c] # "failed", pc'[c] = "failed"
    PROVE  SpawnFails(c) \/ GiveUp(c) \/ ReceiveFails(c)
<1>1. ASSUME NEW other \in Clients,
             \/ Connect(other) \/ Retry(other) \/ Receive(other)
             \/ Confirm(other) \/ Interrupt(other)
      PROVE  FALSE
  BY <1>1 DEF Connect, Retry, Send, SpawnDaemon, Receive, Confirm, Interrupt, NextRequest, Goes,
     OrderInv, OrderTypes
<1>2. ASSUME NEW other \in Clients, Start(other)
      PROVE  FALSE
  BY <1>2 DEF Start, Goes, OrderInv, OrderTypes
<1>3. ASSUME NEW other \in Clients, Handle(other) \/ Refuse(other) \/ Reply(other)
      PROVE  FALSE
  BY <1>3 DEF Handle, Refuse, Reply, clientVars
<1>4. ASSUME NEW d \in Daemons, Bind(d) \/ LoadQueue(d) \/ Exit(d) \/ Crash(d)
      PROVE  FALSE
  BY <1>4 DEF Bind, LoadQueue, Exit, Crash, Ends, clientVars
<1>5. ASSUME NEW other \in Clients \ {c}, SpawnFails(other) \/ GiveUp(other) \/ ReceiveFails(other)
      PROVE  FALSE
  BY <1>5 DEF SpawnFails, GiveUp, ReceiveFails, Goes, OrderInv, OrderTypes
<1>6. ~UNCHANGED vars
  BY DEF vars, clientVars
<1> QED
  BY <1>1, <1>2, <1>3, <1>4, <1>5, <1>6 DEF ClientNext

\* Where sockets are namespaced, a command fails only when nobody listens and no
\* daemon can be started or the one started is not up in time, when a daemon on its
\* socket has ended meanwhile, or when a message is too long (client.rs 576-627).
THEOREM FailuresHaveReasons == Namespaced /\ ClientSpec => FailuresHaveCauses
<1>1. ASSUME FailInv, SocketInv, OrderInv, [ClientNext]_vars,
             NEW c \in Clients, pc[c] # "failed", pc'[c] = "failed"
      PROVE  FailsForACause(c)
  <2>1. CASE SpawnFails(c)
    BY <2>1 DEF SpawnFails, FailsForACause
  <2>2. CASE GiveUp(c)
    <3>1. pc[c] = "retry" /\ ~Listening(c)
      BY <2>2 DEF GiveUp
    <3>2. lost[c] \/ (link[c] \in Daemons /\ phase[link[c]] = "starting")
      BY <1>1, <3>1, WaitsForOneThatStarts DEF WasLost
    <3> QED
      BY <3>1, <3>2, Zenon DEF FailsForACause
  <2>3. CASE ReceiveFails(c)
    <3>1. pc[c] = "receive" /\ (mail[c] \in {"broken", "refused"} \/ answer[c] = "TooLong")
      BY <2>3 DEF ReceiveFails
    <3>2. mail[c] = "broken" => lost[c]
      BY <1>1, <3>1 DEF FailInv, Excused, WasLost
    <3>3. mail[c] = "broken" \/ mail[c] = "refused" \/ answer[c] = "TooLong"
      BY <3>1
    <3> QED
      BY <3>1, <3>2, <3>3, Zenon DEF FailsForACause
  <2> QED
    BY <1>1, <2>1, <2>2, <2>3, WhoFails
<1>2. CASE Namespaced
  <2> DEFINE Caused == \A c \in Clients : pc[c] # "failed" /\ pc'[c] = "failed" => FailsForACause(c)
  <2>1. FailInv /\ SocketInv /\ OrderInv /\ [ClientNext]_vars => Caused
    BY <1>1
  <2>2. FailInv /\ SocketInv /\ OrderInv /\ [ClientNext]_vars => FailInv'
    BY <1>2, FailStep
  <2> HIDE DEF Caused
  <2>3. ClientSpec => [][Caused]_vars
    BY <2>1, <2>2, FailInit, OrderInvariant, PTL DEF ClientSpec
  <2> QED
    BY <2>3 DEF FailuresHaveCauses, Caused
<1> QED
  BY <1>2
=============================================================================
