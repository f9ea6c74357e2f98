--------------------------- MODULE LogFollow_proofs ---------------------------
(***************************************************************************)
(* Proofs about a follower of a log: what it shows is the log, and all of  *)
(* the log, for every number of runs and every length of the log, whatever *)
(* earlier runs left behind.                                               *)
(***************************************************************************)
EXTENDS LogFollow, SequenceTheorems, TLAPS

\* The log keeps to its bound, and a byte to its place.
LogInv ==
    /\ Len(log) <= MaxLog
    /\ \A n \in 1 .. Len(log) : log[n][2] = n
    /\ phase # "none" => run >= 1

\* Until something is lost, what is owed is the beginning of the log.
OwedInv ==
    /\ pc = "idle" => owed = <<>>
    /\ ~disturbed => /\ Len(owed) <= Len(log)
                     /\ \A n \in 1 .. Len(owed) : owed[n] = log[n]

\* The offset, and what was shown, before and after the follower has found the
\* end of the log.
OffsetInv ==
    /\ pc \in {"idle", "locate", "measure"} => pos = 0 /\ start = 0 /\ shown = <<>>
    /\ start <= pos
    /\ EachPlaceOnce
    /\ ShownIsTheLog

\* A follower that has left because the job is over has read all it was owed.
DoneInv == ~disturbed /\ pc = "done" => pos >= Len(owed)

FollowInv ==
    /\ LogFollowTypeOK
    /\ LogInv
    /\ OwedInv
    /\ OffsetInv
    /\ DoneInv

-----------------------------------------------------------------------------
(* Sequences *)

\* A part of a sequence has the elements of that part.
LEMMA PartOf ==
    ASSUME NEW S, NEW s \in Seq(S), NEW a \in Nat, NEW b \in Nat, a <= b, b <= Len(s)
    PROVE  /\ SubSeq(s, a + 1, b) \in Seq(S)
           /\ Len(SubSeq(s, a + 1, b)) = b - a
           /\ \A i \in 1 .. b - a : SubSeq(s, a + 1, b)[i] = s[a + i]
<1>1. SubSeq(s, a + 1, b) = [i \in 1 .. b - a |-> s[a + i]]
  BY SMT
<1>2. \A i \in 1 .. b - a : s[a + i] \in S
  BY SMT
<1>. QED
  BY <1>1, <1>2, SMT

\* Where the elements of a concatenation come from.
LEMMA JoinOf ==
    ASSUME NEW S, NEW s \in Seq(S), NEW t \in Seq(S)
    PROVE  /\ s \o t \in Seq(S) /\ Len(s \o t) = Len(s) + Len(t)
           /\ \A i \in 1 .. Len(s) : (s \o t)[i] = s[i]
           /\ \A i \in Len(s) + 1 .. Len(s) + Len(t) : (s \o t)[i] = t[i - Len(s)]
<1>1. /\ s \o t \in Seq(S) /\ Len(s \o t) = Len(s) + Len(t)
      /\ \A i \in 1 .. Len(s) + Len(t) :
            (s \o t)[i] = IF i <= Len(s) THEN s[i] ELSE t[i - Len(s)]
  BY ConcatProperties
<1>2. Len(s) \in Nat /\ Len(t) \in Nat
  BY LenProperties
<1>. QED
  BY <1>1, <1>2, SMT

\* Sequences that agree on a part have it in common.
LEMMA PartStays ==
    ASSUME NEW S, NEW s \in Seq(S), NEW t \in Seq(S), NEW a \in Nat, NEW b \in Nat,
           a <= b, b <= Len(s), b <= Len(t), \A n \in 1 .. b : t[n] = s[n]
    PROVE  SubSeq(t, a + 1, b) = SubSeq(s, a + 1, b)
<1>1. SubSeq(s, a + 1, b) = [i \in 1 .. b - a |-> s[a + i]]
  BY SMT
<1>2. SubSeq(t, a + 1, b) = [i \in 1 .. b - a |-> t[a + i]]
  BY SMT
<1>3. \A i \in 1 .. b - a : t[a + i] = s[a + i]
  BY SMT
<1>. QED
  BY <1>1, <1>2, <1>3, SMT

-----------------------------------------------------------------------------
(* What the steps do to the log *)

\* What the invariant says of the kinds of its values.
LEMMA Kinds ==
    ASSUME FollowInv
    PROVE  /\ log \in Seq(Byte) /\ shown \in Seq(Byte) /\ owed \in Seq(Byte)
           /\ Len(log) \in Nat /\ Len(shown) \in Nat /\ Len(owed) \in Nat
           /\ MaxLog \in Nat /\ MaxLog >= 1 /\ MaxRuns \in Nat
           /\ pos \in Nat /\ pos <= MaxLog /\ start \in Nat /\ start <= MaxLog
           /\ Len(log) <= MaxLog
           /\ Held \in Nat /\ pos <= Held /\ Len(owed) <= Held
           /\ ~disturbed => Held <= Len(log)
<1>1. log \in Seq(Byte) /\ shown \in Seq(Byte) /\ owed \in Seq(Byte)
  BY DEF FollowInv, LogFollowTypeOK
<1>2. Len(log) \in Nat /\ Len(shown) \in Nat /\ Len(owed) \in Nat
  BY <1>1, LenProperties
<1>3. /\ MaxLog \in Nat /\ MaxLog >= 1 /\ MaxRuns \in Nat
      /\ pos \in Nat /\ pos <= MaxLog /\ start \in Nat /\ start <= MaxLog
  BY LogFollowAssumption, SMT DEF LogFollowAssumption, FollowInv, LogFollowTypeOK
<1>4. Len(log) <= MaxLog
  BY DEF FollowInv, LogInv
<1>5. Held \in Nat /\ pos <= Held /\ Len(owed) <= Held
  BY <1>2, <1>3, SMT DEF Held
<1>6. ~disturbed => pos <= Len(log) /\ Len(owed) <= Len(log)
  BY DEF FollowInv, OwedInv, OffsetInv, ShownIsTheLog
<1>7. ~disturbed => Held <= Len(log)
  BY <1>2, <1>3, <1>6, SMT DEF Held
<1>. QED
  BY <1>1, <1>2, <1>3, <1>4, <1>5, <1>7

\* A log keeps what lies up to some place: what is written is written behind it.
Keeps(old, new, held) ==
    held <= Len(old) => held <= Len(new) /\ \A n \in 1 .. held : new[n] = old[n]

\* What a write makes of the log.
LEMMA WriteEffect ==
    ASSUME NEW s \in Seq(Byte), log = s, Len(s) <= MaxLog, \A n \in 1 .. Len(s) : s[n][2] = n,
           MaxLog \in Nat, MaxRuns \in Nat,
           NEW r \in 1 .. MaxRuns, NEW p \in 1 .. MaxLog
    PROVE  /\ Written(r, p) \in Seq(Byte)
           /\ Len(Written(r, p)) <= MaxLog
           /\ \A n \in 1 .. Len(Written(r, p)) : Written(r, p)[n][2] = n
           /\ \A h \in Nat : h < p => Keeps(s, Written(r, p), h)
<1>. DEFINE k == IF p > Len(s) THEN p ELSE Len(s)
            w(n) == IF n = p THEN <<r, p>> ELSE IF n <= Len(s) THEN s[n] ELSE <<0, n>>
<1>1. Len(s) \in Nat /\ k \in Nat /\ k <= MaxLog /\ Len(s) <= k
  BY LenProperties, SMT
<1>2. Written(r, p) = [n \in 1 .. k |-> w(n)]
  BY Zenon DEF Written
<1>3. ASSUME NEW n \in 1 .. k PROVE w(n) \in Byte /\ w(n)[2] = n
  <2>1. n \in 1 .. MaxLog
    BY <1>1, SMT
  <2>2. CASE n = p
    BY <2>1, <2>2, SMT DEF Byte
  <2>3. CASE n # p /\ n <= Len(s)
    <3>1. n \in 1 .. Len(s)
      BY <1>1, <2>1, <2>3, SMT
    <3>2. s[n] \in Byte /\ s[n][2] = n
      BY <3>1, ElementOfSeq
    <3>. QED
      BY <2>3, <3>2
  <2>4. CASE n # p /\ ~(n <= Len(s))
    BY <2>1, <2>4, SMT DEF Byte
  <2>. QED
    BY <2>2, <2>3, <2>4
<1>. HIDE DEF k, w
<1>4. Written(r, p) \in Seq(Byte) /\ Len(Written(r, p)) = k
  BY <1>1, <1>2, <1>3, SMT
<1>5. \A n \in 1 .. k : Written(r, p)[n] = w(n)
  BY <1>2
<1>6. ASSUME NEW h \in Nat, h < p, h <= Len(s), NEW n \in 1 .. h
      PROVE  h <= k /\ Written(r, p)[n] = s[n]
  <2>1. n \in 1 .. k /\ n # p /\ n <= Len(s) /\ h <= k
    BY <1>1, <1>6, SMT
  <2>2. w(n) = s[n]
    BY <2>1 DEF w
  <2>. QED
    BY <1>5, <2>1, <2>2
<1>7. \A h \in Nat : h < p => Keeps(s, Written(r, p), h)
  <2>. SUFFICES ASSUME NEW h \in Nat, h < p, h <= Len(s)
                PROVE  h <= Len(Written(r, p)) /\ \A n \in 1 .. h : Written(r, p)[n] = s[n]
    BY DEF Keeps
  <2>. QED
    BY <1>1, <1>4, <1>6, SMT
<1>. QED
  BY <1>1, <1>3, <1>4, <1>5, <1>7

\* A write to the log: at the offset of a run, or by the daemon, anew.
Writes ==
    \/ UNCHANGED <<log, disturbed>>
    \/ Truncate(<<>>)
    \/ Truncate(<< <<run, 1>> >>) /\ run \in 1 .. MaxRuns
    \/ \E r \in 1 .. MaxRuns, p \in 1 .. MaxLog :
           log' = Written(r, p) /\ disturbed' = (disturbed \/ p <= Held)

\* Whatever is written: the log keeps its shape, and up to what the follower holds
\* it stays, or that is on record.
LEMMA WritesKeep ==
    ASSUME FollowInv, Writes
    PROVE  /\ log' \in Seq(Byte) /\ Len(log') \in Nat /\ Len(log') <= MaxLog
           /\ \A n \in 1 .. Len(log') : log'[n][2] = n
           /\ disturbed' \in BOOLEAN
           /\ disturbed => disturbed'
           /\ ~disturbed' => /\ Held <= Len(log')
                             /\ \A n \in 1 .. Held : log'[n] = log[n]
<1>. USE Kinds
<1>d. disturbed \in BOOLEAN /\ \A n \in 1 .. Len(log) : log[n][2] = n
  BY DEF FollowInv, LogFollowTypeOK, LogInv
<1>e. <<>> \in Seq(Byte) /\ Len(<<>>) = 0
  BY SMT
<1>1. CASE UNCHANGED <<log, disturbed>>
  <2>1. ~disturbed => Held <= Len(log)
    OBVIOUS
  <2>. QED
    BY <1>1, <1>d, <2>1
<1>2. ASSUME NEW new \in Seq(Byte), Truncate(new), Len(new) <= MaxLog,
             \A n \in 1 .. Len(new) : new[n][2] = n
      PROVE  /\ log' \in Seq(Byte) /\ Len(log') \in Nat /\ Len(log') <= MaxLog
             /\ \A n \in 1 .. Len(log') : log'[n][2] = n
             /\ disturbed' \in BOOLEAN
             /\ disturbed => disturbed'
             /\ ~disturbed' => /\ Held <= Len(log')
                               /\ \A n \in 1 .. Held : log'[n] = log[n]
  <2>1. log' = new /\ disturbed' = (disturbed \/ Held > 0)
    BY <1>2 DEF Truncate
  <2>2. disturbed' \in BOOLEAN /\ (disturbed => disturbed') /\ (~disturbed' => ~(Held > 0))
    BY <2>1, <1>d, Zenon
  <2>3. Len(log') \in Nat
    BY <2>1, LenProperties
  <2>4. ~disturbed' => Held = 0
    BY <2>2, SMT
  <2>5. ~disturbed' => Held <= Len(log') /\ \A n \in 1 .. Held : log'[n] = log[n]
    BY <2>3, <2>4, SMT
  <2>. QED
    BY <1>2, <2>1, <2>2, <2>3, <2>5
<1>3. ASSUME NEW r \in 1 .. MaxRuns, NEW p \in 1 .. MaxLog, log' = Written(r, p),
             disturbed' = (disturbed \/ p <= Held)
      PROVE  /\ log' \in Seq(Byte) /\ Len(log') \in Nat /\ Len(log') <= MaxLog
             /\ \A n \in 1 .. Len(log') : log'[n][2] = n
             /\ disturbed' \in BOOLEAN
             /\ disturbed => disturbed'
             /\ ~disturbed' => /\ Held <= Len(log')
                               /\ \A n \in 1 .. Held : log'[n] = log[n]
  <2>1. disturbed' \in BOOLEAN /\ (disturbed => disturbed')
        /\ (~disturbed' => ~disturbed /\ ~(p <= Held))
    BY <1>3, <1>d, Zenon
  <2>2. /\ Written(r, p) \in Seq(Byte)
        /\ Len(Written(r, p)) <= MaxLog
        /\ \A n \in 1 .. Len(Written(r, p)) : Written(r, p)[n][2] = n
        /\ \A h \in Nat : h < p => Keeps(log, Written(r, p), h)
    BY <1>d, WriteEffect
  <2>3. /\ log' \in Seq(Byte) /\ Len(log') <= MaxLog
        /\ \A n \in 1 .. Len(log') : log'[n][2] = n
    BY <1>3, <2>2
  <2>4. Len(log') \in Nat
    BY <2>3, LenProperties
  <2>5. ASSUME ~disturbed' PROVE Held <= Len(log') /\ \A n \in 1 .. Held : log'[n] = log[n]
    <3>1. Held < p /\ Held \in Nat /\ Held <= Len(log)
      BY <2>1, <2>5, SMT
    <3>2. Keeps(log, log', Held)
      BY <1>3, <2>2, <3>1
    <3>. QED
      BY <3>1, <3>2 DEF Keeps
  <2>. QED
    BY <2>1, <2>3, <2>4, <2>5
<1>4. CASE Truncate(<<>>)
  <2>. DEFINE new == <<>>
  <2>1. new \in Seq(Byte) /\ Len(new) = 0 /\ Truncate(new)
    BY <1>4, <1>e
  <2>. HIDE DEF new
  <2>2. Len(new) <= MaxLog /\ \A n \in 1 .. Len(new) : new[n][2] = n
    BY <2>1, SMT
  <2>. QED
    BY <1>2, <2>1, <2>2
<1>5. CASE Truncate(<< <<run, 1>> >>) /\ run \in 1 .. MaxRuns
  <2>. DEFINE b == <<run, 1>>
  <2>1. b \in Byte /\ b[2] = 1
    BY <1>5, SMT DEF Byte
  <2>2. Truncate(<<b>>)
    BY <1>5
  <2>. HIDE DEF b
  <2>3. <<b>> \in Seq(Byte) /\ Len(<<b>>) = 1 /\ <<b>>[1] = b
    BY <2>1, SMT
  <2>4. Len(<<b>>) <= MaxLog /\ \A n \in 1 .. Len(<<b>>) : <<b>>[n][2] = n
    BY <2>1, <2>3, SMT
  <2>. QED
    BY <1>2, <2>2, <2>3, <2>4
<1>. QED
  BY <1>1, <1>3, <1>4, <1>5 DEF Writes

\* Every step writes to the log and leaves the client and its due alone, or settles
\* what is owed to it, or is a step of the client, which leaves the file alone.
LEMMA Worlds ==
    ASSUME FollowInv, Next
    PROVE  \/ Writes /\ UNCHANGED <<clientVars, owed>>
           \/ Owe /\ UNCHANGED <<log, clientVars, disturbed>>
           \/ (Watch \/ Follow \/ Interrupt) /\ UNCHANGED <<log, owed, disturbed>>
<1>1. CASE CreateLog
  BY <1>1, Zenon DEF CreateLog, Writes
<1>2. CASE SpawnFails
  <2>1. run >= 1
    BY <1>2 DEF SpawnFails, FollowInv, LogInv
  <2>2. run \in 1 .. MaxRuns
    BY <2>1, Kinds, SMT DEF FollowInv, LogFollowTypeOK
  <2>. QED
    BY <1>2, <2>2, Zenon DEF SpawnFails, Writes
<1>3. ASSUME NEW r \in 1 .. MaxRuns, Output(r)
      PROVE  Writes /\ UNCHANGED <<clientVars, owed>>
  <2>. DEFINE p == offset[r] + 1
  <2>1. log' = Written(r, p) /\ disturbed' = (disturbed \/ p <= Held) /\ p <= MaxLog
    BY <1>3 DEF Output
  <2>2. p \in 1 .. MaxLog
    <3>1. offset[r] \in 0 .. MaxLog
      BY DEF FollowInv, LogFollowTypeOK
    <3>. QED
      BY <2>1, <3>1, Kinds, SMT
  <2>. HIDE DEF p
  <2>3. UNCHANGED <<clientVars, owed>>
    BY <1>3 DEF Output
  <2>. QED
    BY <2>1, <2>2, <2>3, Zenon DEF Writes
<1>4. CASE SettleRun \/ KillPending \/ DaemonDies
  BY <1>4, Zenon DEF SettleRun, KillPending, DaemonDies, fileVars
<1>5. CASE StartRun \/ Spawn \/ RunEnds \/ AskRestart \/ RemoveJob \/ Save
  <2>1. UNCHANGED <<log, disturbed, clientVars, owed>>
    BY <1>5 DEF StartRun, Spawn, RunEnds, AskRestart, RemoveJob, Save, fileVars
  <2>. QED
    BY <2>1 DEF Writes
<1>6. CASE Watch \/ Follow \/ Interrupt
  BY <1>6 DEF Watch, Follow, Interrupt, Locate, Measure, Poll, Drain, DrainAgain,
              worldVars, fileVars
<1>. QED
  BY <1>1, <1>2, <1>3, <1>4, <1>5, <1>6 DEF Next, JobStep

\* What a read writes out, and where it leaves the offset.
LEMMA NewOutput ==
    ASSUME FollowInv, DrainLog
    PROVE  /\ shown' \in Seq(Byte)
           /\ pos' \in 0 .. MaxLog
           /\ pos' >= pos /\ pos' >= Len(log)
           /\ EachPlaceOnce /\ UNCHANGED start => EachPlaceOnce'
           /\ pos <= Len(log) => pos' = Len(log) /\ shown' = shown \o SubSeq(log, pos + 1, Len(log))
<1>. DEFINE new == SubSeq(log, pos + 1, Len(log))
<1>. USE Kinds
<1>1. shown' = shown \o new /\ pos' = pos + Len(new)
  BY DEF DrainLog
<1>2. CASE pos <= Len(log)
  <2>1. /\ new \in Seq(Byte) /\ Len(new) = Len(log) - pos
        /\ \A i \in 1 .. Len(log) - pos : new[i] = log[pos + i]
    BY <1>2, PartOf
  <2>. HIDE DEF new
  <2>2. /\ shown' \in Seq(Byte) /\ Len(shown') = Len(shown) + Len(new)
        /\ \A i \in 1 .. Len(shown) : shown'[i] = shown[i]
        /\ \A i \in Len(shown) + 1 .. Len(shown) + Len(new) : shown'[i] = new[i - Len(shown)]
    <3>1. shown \in Seq(Byte) /\ new \in Seq(Byte) /\ shown' = shown \o new
      BY <1>1, <2>1
    <3>. QED
      BY ONLY <3>1, JoinOf
  <2>3. pos' = Len(log)
    BY <1>1, <1>2, <2>1, SMT
  <2>4. ASSUME EachPlaceOnce, start' = start PROVE EachPlaceOnce'
    <3>1. start <= pos /\ \A n \in 1 .. Len(log) : log[n][2] = n
      BY DEF FollowInv, OffsetInv, LogInv
    <3>2. Len(shown) = pos - start /\ \A i \in 1 .. Len(shown) : shown[i][2] = start + i
      BY <2>4, LenProperties DEF EachPlaceOnce
    <3>3. Len(shown') = pos' - start'
      BY <1>2, <2>1, <2>2, <2>3, <2>4, <3>1, <3>2, SMT
    <3>4. ASSUME NEW i \in 1 .. Len(shown') PROVE shown'[i][2] = start' + i
      <4>1. CASE i <= Len(shown)
        <5>1. i \in 1 .. Len(shown)
          BY <2>1, <2>2, <4>1, SMT
        <5>. QED
          BY <2>2, <2>4, <3>2, <5>1
      <4>2. CASE ~(i <= Len(shown))
        <5>1. /\ i \in Len(shown) + 1 .. Len(shown) + Len(new)
              /\ i - Len(shown) \in 1 .. Len(log) - pos
              /\ pos + (i - Len(shown)) \in 1 .. Len(log)
              /\ pos + (i - Len(shown)) = start + i
          <6>1. /\ Len(shown) = pos - start /\ Len(new) = Len(log) - pos
                /\ i \in 1 .. Len(shown) + Len(new) /\ ~(i <= Len(shown)) /\ start <= pos
                /\ Len(shown) \in Nat /\ Len(log) \in Nat /\ pos \in Nat /\ start \in Nat
            BY <2>1, <2>2, <3>1, <3>2, <4>2
          <6>. QED
            BY ONLY <6>1, SMT
        <5>2. shown'[i] = log[pos + (i - Len(shown))]
          BY <2>1, <2>2, <5>1
        <5>. QED
          BY <2>4, <3>1, <5>1, <5>2
      <4>. QED
        BY <4>1, <4>2
    <3>5. DOMAIN shown' = 1 .. Len(shown')
      BY <2>2, LenProperties
    <3>. QED
      BY <3>3, <3>4, <3>5 DEF EachPlaceOnce
  <2>. QED
    BY <1>1, <1>2, <2>2, <2>3, <2>4 DEF new
<1>3. CASE pos > Len(log)
  <2>1. new = <<>> /\ Len(new) = 0
    BY <1>3, SubSeqEmpty, SMT
  <2>2. shown' = shown
    BY <1>1, <2>1, ConcatEmptySeq
  <2>3. pos' = pos
    BY <1>1, <2>1, SMT
  <2>4. pos' \in 0 .. MaxLog /\ pos' >= pos /\ pos' >= Len(log) /\ ~(pos <= Len(log))
    BY <1>3, <2>3, SMT
  <2>5. EachPlaceOnce /\ start' = start => EachPlaceOnce'
    BY <2>2, <2>3 DEF EachPlaceOnce
  <2>. QED
    BY <2>2, <2>4, <2>5, Zenon
<1>4. pos <= Len(log) \/ pos > Len(log)
  BY SMT
<1>. QED
  BY <1>2, <1>3, <1>4, Zenon

-----------------------------------------------------------------------------
(* The invariant *)

LEMMA FollowInit == Init => FollowInv
<1>. SUFFICES ASSUME Init PROVE FollowInv
  OBVIOUS
<1>. USE LogFollowAssumption DEF LogFollowAssumption
<1>1. <<>> \in Seq(Byte) /\ Len(<<>>) = 0 /\ DOMAIN <<>> = {}
  BY SMT DEF Byte
<1>2. LogFollowTypeOK
  <2>1. restart \in BOOLEAN /\ disturbed \in BOOLEAN
    BY Zenon DEF Init
  <2>2. offset \in [1 .. MaxRuns -> 0 .. MaxLog]
    <3>1. 0 \in 0 .. MaxLog
      BY SMT
    <3>. QED
      BY <3>1 DEF Init
  <2>. QED
    BY <1>1, <2>1, <2>2, SMT DEF Init, LogFollowTypeOK
<1>3. LogInv /\ OwedInv /\ DoneInv
  <2>1. LogInv
    BY <1>1, SMT DEF Init, LogInv
  <2>2. OwedInv
    BY <1>1, SMT DEF Init, OwedInv
  <2>3. DoneInv
    BY DEF Init, DoneInv
  <2>. QED
    BY <2>1, <2>2, <2>3
<1>4. OffsetInv
  <2>1. SubSeq(log, start + 1, pos) = <<>>
    BY SubSeqEmpty, SMT DEF Init
  <2>. QED
    BY <1>1, <2>1, SMT DEF Init, OffsetInv, EachPlaceOnce, ShownIsTheLog
<1>. QED
  BY <1>2, <1>3, <1>4 DEF FollowInv

\* The types of what the daemon and the processes have, and the number of the run.
LEMMA FollowTypes == FollowInv /\ [Next]_vars => LogFollowTypeOK' /\ LogInv'
<1>. SUFFICES ASSUME FollowInv, [Next]_vars
              PROVE  LogFollowTypeOK' /\ LogInv'
  OBVIOUS
<1>. USE Kinds
<1>. DEFINE
       World ==
         /\ job \in {"Queued", "Running", "Terminal", "Gone"}
         /\ saved \in {"Queued", "Running", "Terminal", "Gone"}
         /\ restart \in BOOLEAN
         /\ run \in 0 .. MaxRuns
         /\ phase \in {"none", "starting", "created", "alive", "ended"}
         /\ writers \subseteq 1 .. MaxRuns
         /\ offset \in [1 .. MaxRuns -> 0 .. MaxLog]
         /\ phase # "none" => run >= 1
       Lists ==
         /\ log \in Seq(Byte) /\ Len(log) <= MaxLog
         /\ \A n \in 1 .. Len(log) : log[n][2] = n
         /\ owed \in Seq(Byte)
         /\ disturbed \in BOOLEAN
       Client ==
         /\ pc \in {"idle", "locate", "measure", "poll", "drain", "last",
                    "missing", "done", "interrupted"}
         /\ seen \in {"Queued", "Running", "Terminal"}
         /\ pos \in 0 .. MaxLog
         /\ shown \in Seq(Byte)
         /\ start \in 0 .. MaxLog
<1>1. World /\ Lists /\ Client
  BY DEF FollowInv, LogFollowTypeOK, LogInv
<1>2. World'
  <2>1. CASE StartRun
    BY <1>1, <2>1, SMT DEF StartRun, fileVars
  <2>2. CASE CreateLog
    BY <1>1, <2>2 DEF CreateLog
  <2>3. CASE Spawn
    <3>1. run \in 1 .. MaxRuns
      BY <1>1, <2>3, SMT DEF Spawn
    <3>. QED
      BY <1>1, <2>3, <3>1 DEF Spawn
  <2>4. CASE SpawnFails
    BY <1>1, <2>4 DEF SpawnFails
  <2>5. ASSUME NEW r \in 1 .. MaxRuns, Output(r)
        PROVE  World'
    <3>1. offset[r] + 1 \in 0 .. MaxLog
      <4>1. offset[r] \in 0 .. MaxLog
        BY <1>1
      <4>. QED
        BY <2>5, <4>1, SMT DEF Output
    <3>2. offset' \in [1 .. MaxRuns -> 0 .. MaxLog]
      BY <1>1, <2>5, <3>1 DEF Output
    <3>3. UNCHANGED <<jobVars, writers>>
      BY <2>5 DEF Output
    <3>. QED
      BY <1>1, <3>2, <3>3 DEF jobVars
  <2>6. CASE RunEnds
    <3>1. writers' \subseteq writers
      BY <2>6 DEF RunEnds
    <3>. QED
      BY <1>1, <2>6, <3>1 DEF RunEnds
  <2>7. CASE SettleRun
    <3>1. job' \in {"Queued", "Terminal"} /\ restart' \in BOOLEAN
      BY <2>7, Zenon DEF SettleRun
    <3>. QED
      BY <1>1, <2>7, <3>1 DEF SettleRun, fileVars
  <2>8. CASE AskRestart \/ KillPending \/ RemoveJob \/ Save
    BY <1>1, <2>8 DEF AskRestart, KillPending, RemoveJob, Save, fileVars
  <2>9. CASE DaemonDies
    <3>1. restart' \in BOOLEAN
      BY <2>9, Zenon DEF DaemonDies
    <3>2. writers' \subseteq writers
      BY <2>9 DEF DaemonDies
    <3>3. job' \in {"Queued", "Running", "Terminal", "Gone"} /\ saved' = job'
      BY <1>1, <2>9 DEF DaemonDies
    <3>. QED
      BY <1>1, <2>9, <3>1, <3>2, <3>3 DEF DaemonDies
  <2>10. CASE Watch \/ Follow \/ Interrupt
    BY <1>1, <2>10 DEF Watch, Follow, Interrupt, Locate, Measure, Poll, Drain, DrainAgain,
                       worldVars, jobVars, fileVars
  <2>11. CASE UNCHANGED vars
    BY <1>1, <2>11 DEF vars, worldVars, jobVars, fileVars
  <2>. QED
    BY <2>1, <2>2, <2>3, <2>4, <2>5, <2>6, <2>7, <2>8, <2>9, <2>10, <2>11
       DEF Next, JobStep
<1>3. Lists'
  <2>1. CASE Writes /\ UNCHANGED <<clientVars, owed>>
    BY <1>1, <2>1, WritesKeep
  <2>2. CASE Owe /\ UNCHANGED <<log, clientVars, disturbed>>
    <3>1. owed' \in {log, owed}
      BY <2>2 DEF Owe
    <3>. QED
      BY <1>1, <2>2, <3>1
  <2>3. CASE UNCHANGED <<log, owed, disturbed>>
    BY <1>1, <2>3
  <2>. QED
    BY <2>1, <2>2, <2>3, Worlds DEF vars, worldVars, fileVars
<1>4. Client'
  <2>1. CASE UNCHANGED clientVars
    BY <1>1, <2>1 DEF clientVars
  <2>2. CASE Watch \/ Locate \/ Interrupt
    BY <1>1, <2>2 DEF Watch, Locate, Interrupt
  <2>3. CASE Measure
    <3>1. Len(log) \in 0 .. MaxLog
      BY SMT
    <3>. QED
      BY <1>1, <2>3, <3>1 DEF Measure
  <2>4. CASE Poll
    BY <1>1, <2>4 DEF Poll
  <2>5. CASE Drain \/ DrainAgain
    <3>1. DrainLog
      BY <2>5 DEF Drain, DrainAgain
    <3>2. pos' \in 0 .. MaxLog /\ shown' \in Seq(Byte)
      BY <3>1, NewOutput
    <3>. QED
      BY <1>1, <2>5, <3>2 DEF Drain, DrainAgain
  <2>. QED
    BY <2>1, <2>2, <2>3, <2>4, <2>5, Worlds DEF Follow, vars
<1>. QED
  BY <1>2, <1>3, <1>4 DEF LogFollowTypeOK, LogInv

LEMMA FollowOwed == FollowInv /\ [Next]_vars => OwedInv'
<1>. SUFFICES ASSUME FollowInv, [Next]_vars
              PROVE  OwedInv'
  OBVIOUS
<1>. USE Kinds
<1>1. OwedInv
  BY DEF FollowInv
<1>2. CASE Writes /\ UNCHANGED <<clientVars, owed>>
  <2>1. /\ disturbed => disturbed'
        /\ ~disturbed' => Held <= Len(log') /\ \A n \in 1 .. Held : log'[n] = log[n]
        /\ Len(log') \in Nat
    BY <1>2, WritesKeep
  <2>2. ASSUME ~disturbed' PROVE /\ Len(owed) <= Len(log')
                                 /\ \A n \in 1 .. Len(owed) : owed[n] = log'[n]
    <3>1. \A n \in 1 .. Len(owed) : n \in 1 .. Held /\ owed[n] = log[n]
      BY <1>1, <2>1, <2>2, SMT DEF OwedInv
    <3>2. \A n \in 1 .. Len(owed) : owed[n] = log'[n]
      BY <2>1, <2>2, <3>1
    <3>. QED
      BY <2>1, <2>2, <3>2, SMT
  <2>. QED
    BY <1>1, <1>2, <2>2 DEF OwedInv, clientVars
<1>3. CASE Owe /\ UNCHANGED <<log, clientVars, disturbed>>
  <2>1. CASE owed' = owed
    BY <1>1, <1>3, <2>1 DEF OwedInv, clientVars
  <2>2. CASE owed' = log /\ Following
    BY <1>3, <2>2, SMT DEF OwedInv, clientVars, Following
  <2>. QED
    BY <1>3, <2>1, <2>2 DEF Owe
<1>4. CASE (Watch \/ Follow \/ Interrupt) /\ UNCHANGED <<log, owed, disturbed>>
  <2>1. pc' # "idle"
    BY <1>4 DEF Watch, Follow, Interrupt, Locate, Measure, Poll, Drain, DrainAgain
  <2>. QED
    BY <1>1, <1>4, <2>1 DEF OwedInv
<1>5. CASE UNCHANGED vars
  BY <1>1, <1>5 DEF OwedInv, vars, worldVars, fileVars, clientVars
<1>. QED
  BY <1>2, <1>3, <1>4, <1>5, Worlds

LEMMA FollowOffset == FollowInv /\ [Next]_vars => OffsetInv'
<1>. SUFFICES ASSUME FollowInv, [Next]_vars
              PROVE  OffsetInv'
  OBVIOUS
<1>. USE Kinds
<1>1. OffsetInv /\ EachPlaceOnce /\ ShownIsTheLog /\ start <= pos
  BY DEF FollowInv, OffsetInv
<1>2. CASE Writes /\ UNCHANGED <<clientVars, owed>>
  <2>1. /\ disturbed => disturbed'
        /\ ~disturbed' => Held <= Len(log') /\ \A n \in 1 .. Held : log'[n] = log[n]
        /\ Len(log') \in Nat /\ log' \in Seq(Byte)
    BY <1>2, WritesKeep
  <2>2. ASSUME ~disturbed' PROVE pos <= Len(log') /\ shown = SubSeq(log', start + 1, pos)
    <3>1. ~disturbed /\ pos <= Len(log) /\ shown = SubSeq(log, start + 1, pos)
      BY <1>1, <2>1, <2>2 DEF ShownIsTheLog
    <3>2. pos <= Len(log')
      BY <2>1, <2>2, SMT
    <3>3. \A n \in 1 .. pos : log'[n] = log[n]
      <4>1. \A n \in 1 .. pos : n \in 1 .. Held
        BY SMT
      <4>. QED
        BY <2>1, <2>2, <4>1
    <3>4. SubSeq(log', start + 1, pos) = SubSeq(log, start + 1, pos)
      <4>1. /\ log \in Seq(Byte) /\ log' \in Seq(Byte) /\ start \in Nat /\ pos \in Nat
            /\ start <= pos /\ pos <= Len(log) /\ pos <= Len(log')
        BY <1>1, <2>1, <3>1, <3>2
      <4>. HIDE Kinds
      <4>. QED
        BY ONLY <4>1, <3>3, PartStays
    <3>. QED
      BY <3>1, <3>2, <3>4
  <2>3. UNCHANGED <<pc, pos, start, shown>>
    BY <1>2 DEF clientVars
  <2>. QED
    BY <1>1, <2>2, <2>3 DEF OffsetInv, ShownIsTheLog, EachPlaceOnce
<1>3. CASE UNCHANGED <<log, clientVars, disturbed>>
  BY <1>1, <1>3 DEF OffsetInv, ShownIsTheLog, EachPlaceOnce, clientVars
<1>4. CASE Measure /\ UNCHANGED <<log, disturbed>>
  <2>1. shown' = <<>> /\ pos' = Len(log) /\ start' = Len(log) /\ pc' = "poll"
    BY <1>1, <1>4 DEF Measure, OffsetInv
  <2>2. SubSeq(log, Len(log) + 1, Len(log)) = <<>>
    BY SubSeqEmpty, SMT
  <2>3. EachPlaceOnce'
    <3>1. Len(<<>>) = 0 /\ DOMAIN <<>> = {}
      BY SMT
    <3>. QED
      BY <2>1, <3>1, SMT DEF EachPlaceOnce
  <2>4. ShownIsTheLog'
    BY <1>4, <2>1, <2>2, SMT DEF ShownIsTheLog
  <2>. QED
    BY <2>1, <2>3, <2>4, SMT DEF OffsetInv
<1>5. CASE (Drain \/ DrainAgain) /\ UNCHANGED <<log, disturbed>>
  <2>1. DrainLog /\ UNCHANGED start /\ pc' \in {"last", "poll", "done"}
    BY <1>5 DEF Drain, DrainAgain
  <2>2. /\ pos' >= pos /\ pos' \in 0 .. MaxLog
        /\ EachPlaceOnce'
        /\ pos <= Len(log) => /\ pos' = Len(log)
                              /\ shown' = shown \o SubSeq(log, pos + 1, Len(log))
    BY <1>1, <2>1, NewOutput
  <2>3. start' <= pos'
    BY <1>1, <2>1, <2>2, SMT
  <2>4. ASSUME ~disturbed PROVE pos' = Len(log) /\ shown' = SubSeq(log, start + 1, Len(log))
    <3>1. pos <= Len(log) /\ shown = SubSeq(log, start + 1, pos)
      BY <1>1, <2>4 DEF ShownIsTheLog
    <3>2. SubSeq(log, start + 1, pos) \o SubSeq(log, pos + 1, Len(log))
            = SubSeq(log, start + 1, Len(log))
      <4>1. /\ start + 1 \in 1 .. Len(log) + 1
            /\ pos \in (start + 1) - 1 .. Len(log)
            /\ Len(log) \in pos .. Len(log)
        BY <1>1, <3>1, SMT
      <4>. QED
        BY <4>1, ConcatAdjacentSubSeq
    <3>. QED
      BY <2>2, <3>1, <3>2
  <2>5. ShownIsTheLog'
    <3>1. Len(log) <= Len(log)
      BY SMT
    <3>. QED
      BY <1>5, <2>1, <2>4, <3>1 DEF ShownIsTheLog
  <2>. QED
    BY <2>1, <2>2, <2>3, <2>5 DEF OffsetInv
<1>6. CASE (Watch \/ Locate \/ Poll \/ Interrupt) /\ UNCHANGED <<log, disturbed>>
  <2>1. UNCHANGED <<pos, shown, start>>
    BY <1>6 DEF Watch, Locate, Poll, Interrupt
  <2>2. pc' \in {"idle", "locate", "measure"} => pc \in {"idle", "locate", "measure"}
    BY <1>6 DEF Watch, Locate, Poll, Interrupt
  <2>. QED
    BY <1>1, <1>6, <2>1, <2>2 DEF OffsetInv, ShownIsTheLog, EachPlaceOnce
<1>. QED
  BY <1>2, <1>3, <1>4, <1>5, <1>6, Worlds DEF Follow, vars, worldVars, fileVars

LEMMA FollowDone == FollowInv /\ [Next]_vars => DoneInv'
<1>. SUFFICES ASSUME FollowInv, [Next]_vars
              PROVE  DoneInv'
  OBVIOUS
<1>. USE Kinds DEF DoneInv
<1>1. DoneInv /\ OwedInv
  BY DEF FollowInv
<1>2. CASE Writes /\ UNCHANGED <<clientVars, owed>>
  BY <1>1, <1>2, WritesKeep DEF clientVars
<1>3. CASE Owe /\ UNCHANGED <<log, clientVars, disturbed>>
  BY <1>1, <1>3 DEF Owe, Following, clientVars
<1>4. CASE DrainAgain /\ UNCHANGED <<log, owed, disturbed>>
  <2>1. pos' >= Len(log) /\ pos' \in 0 .. MaxLog
    BY <1>4, NewOutput DEF DrainAgain
  <2>2. ~disturbed => pos' >= Len(owed)
    BY <1>1, <2>1, SMT DEF OwedInv
  <2>. QED
    BY <1>4, <2>2
<1>5. CASE Watch \/ Locate \/ Measure \/ Poll \/ Drain \/ Interrupt
  BY <1>5 DEF Watch, Locate, Measure, Poll, Drain, Interrupt
<1>6. CASE UNCHANGED vars
  BY <1>1, <1>6 DEF vars, worldVars, clientVars
<1>. QED
  BY <1>2, <1>3, <1>4, <1>5, <1>6, Worlds DEF Follow

\* The invariant holds in every state a follower and a daemon can reach.
THEOREM FollowInvariant == Spec => []FollowInv
<1>1. Init => FollowInv
  BY FollowInit
<1>2. FollowInv /\ [Next]_vars => FollowInv'
  BY FollowTypes, FollowOwed, FollowOffset, FollowDone DEF FollowInv
<1>. QED
  BY <1>1, <1>2, PTL DEF Spec

-----------------------------------------------------------------------------
(* What it gives *)

\* The types; the offset and what was shown stay within the log's longest length.
THEOREM FollowerTypesCorrect == Spec => []LogFollowTypeOK
<1>1. FollowInv => LogFollowTypeOK
  BY DEF FollowInv
<1>. QED
  BY <1>1, FollowInvariant, PTL

\* Whatever restarts, survivors of earlier runs and failed spawns do to the file, a
\* follower shows each place of it once and in order (client.rs 454-473).
THEOREM FollowerShowsEachPlaceOnce == Spec => []EachPlaceOnce
<1>1. FollowInv => EachPlaceOnce
  BY DEF FollowInv, OffsetInv
<1>. QED
  BY <1>1, FollowInvariant, PTL

\* As long as nothing it has read is lost, a follower has shown exactly the log
\* between where it began and where it is (client.rs 427-473), for runs and logs
\* of any number and length, and whatever else writes into the file.
THEOREM FollowerShowsTheLog == Spec => []ShownIsTheLog
<1>1. FollowInv => ShownIsTheLog
  BY DEF FollowInv, OffsetInv
<1>. QED
  BY <1>1, FollowInvariant, PTL

\* And when it leaves because the job is over, it has shown all of the log as it
\* was when the job ended (client.rs 441-447).
THEOREM FollowerShowsAll == Spec => []CompleteUnlessDisturbed
<1>1. ASSUME FollowInv, ~disturbed, pc = "done", NEW n \in start + 1 .. Len(owed)
      PROVE  \E i \in DOMAIN shown : shown[i] = owed[n]
  <2>1. /\ pos >= Len(owed) /\ pos <= Len(log) /\ start <= pos
        /\ shown = SubSeq(log, start + 1, pos)
    BY <1>1 DEF FollowInv, DoneInv, OffsetInv, ShownIsTheLog
  <2>2. /\ log \in Seq(Byte) /\ start \in Nat /\ pos \in Nat
        /\ Len(log) \in Nat /\ Len(owed) \in Nat
    BY <1>1, Kinds
  <2>3. n - start \in 1 .. pos - start /\ start + (n - start) = n /\ n \in 1 .. Len(owed)
    BY <2>1, <2>2, SMT
  <2>4. /\ shown \in Seq(Byte) /\ Len(shown) = pos - start
        /\ \A i \in 1 .. pos - start : shown[i] = log[start + i]
    BY <2>1, <2>2, PartOf
  <2>5. shown[n - start] = log[n]
    BY <2>3, <2>4
  <2>6. log[n] = owed[n]
    BY <1>1, <2>3 DEF FollowInv, OwedInv
  <2>7. n - start \in DOMAIN shown
    BY <2>3, <2>4, SMT
  <2>. QED
    BY <2>5, <2>6, <2>7
<1>2. FollowInv => CompleteUnlessDisturbed
  BY <1>1 DEF CompleteUnlessDisturbed, CompleteAtEnd
<1>. QED
  BY <1>2, FollowInvariant, PTL
=============================================================================
