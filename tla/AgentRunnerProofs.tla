-------------------------- MODULE AgentRunnerProofs --------------------------
(***************************************************************************)
(* Theorems of AgentRunner, for any number of processes.                   *)
(***************************************************************************)
EXTENDS AgentRunner, TLAPS

\* Where the control of a thread may be.
LEMMA MoveType ==
  ASSUME TypeOK, NEW t \in {Main, Sup}, NEW p,
         p \in SpawnPoints \cup (IF t = Main THEN MainPoints ELSE SupPoints),
         pc' = [pc EXCEPT ![t] = p]
  PROVE  /\ pc' \in [{Main, Sup} -> SpawnPoints \cup MainPoints \cup SupPoints]
         /\ pc'[Main] \in SpawnPoints \cup MainPoints
         /\ pc'[Sup] \in SpawnPoints \cup SupPoints
BY DEF TypeOK, Main, Sup

LEMMA InitType == Init => TypeOK
<1> SUFFICES ASSUME Init PROVE TypeOK
  OBVIOUS
<1>1. <<>> \in Seq(Markers)
  OBVIOUS
<1>2. 0 \in 0 .. MaxFailures
  BY RunnerAssumption
<1> QED
  BY <1>1, <1>2 DEF Init, TypeOK, Main, Sup, MainPoints, SupPoints

LEMMA NextType == TypeOK /\ [Next]_vars => TypeOK'
<1> SUFFICES ASSUME TypeOK, [Next]_vars PROVE TypeOK'
  OBVIOUS
<1> USE RunnerAssumption DEF Move, events, processes, session, SpawnPoints, MainPoints, SupPoints
<1>1. ASSUME NEW t \in {Main, Sup}, Spawn(t) PROVE TypeOK'
  <2>1. CASE Clear(t)
    BY <2>1, MoveType DEF Clear, TypeOK
  <2>2. CASE Patch(t)
    BY <2>2, MoveType DEF Patch, TypeOK
  <2>3. ASSUME NEW p \in Procs, Popen(t, p) PROVE TypeOK'
    BY <2>3, MoveType DEF Popen, TypeOK
  <2>4. ASSUME NEW p \in Procs, StartReader(t, p) PROVE TypeOK'
    <3>1. /\ pc' \in [{Main, Sup} -> SpawnPoints \cup MainPoints \cup SupPoints]
          /\ pc'[Main] \in SpawnPoints \cup MainPoints
          /\ pc'[Sup] \in SpawnPoints \cup SupPoints
      <4>1. (IF t = Main THEN "wait" ELSE "settle")
              \in SpawnPoints \cup (IF t = Main THEN MainPoints ELSE SupPoints)
        OBVIOUS
      <4>2. pc' = [pc EXCEPT ![t] = IF t = Main THEN "wait" ELSE "settle"]
        BY <2>4 DEF StartReader
      <4>3. QED
        BY <4>1, <4>2, MoveType
    <3>2. QED
      BY <2>4, <3>1 DEF StartReader, TypeOK
  <2>5. QED
    BY <1>1, <2>1, <2>2, <2>3, <2>4 DEF Spawn
<1>2. CASE Begin
  BY <1>2, MoveType DEF Begin, TypeOK, Main, Sup
<1>3. CASE EndWait
  BY <1>3, MoveType DEF EndWait, TypeOK, Main, Sup
<1>4. CASE Judge
  BY <1>4, MoveType DEF Judge, StopThen, TypeOK, Main, Sup
<1>5. CASE OpenTunnel
  BY <1>5, MoveType DEF OpenTunnel, TypeOK, Main, Sup
<1>6. CASE OpenTunnelFails
  BY <1>6, MoveType DEF OpenTunnelFails, Failure, TypeOK, Main, Sup
<1>7. CASE WaitForPort
  BY <1>7, MoveType DEF WaitForPort, StopThen, TypeOK, Main, Sup
<1>8. CASE ReturnHandle
  BY <1>8, MoveType DEF ReturnHandle, TypeOK, Main, Sup
<1>9. CASE RequestStop
  BY <1>9, MoveType DEF RequestStop, StopThen, TypeOK, Main, Sup
<1>10. CASE EnterStop
  BY <1>10, MoveType DEF EnterStop, TypeOK, Main, Sup
<1>11. CASE Terminate
  BY <1>11, MoveType DEF Terminate, TypeOK, Main, Sup
<1>12. CASE Reap
  BY <1>12, MoveType DEF Reap, TypeOK, Main, Sup
<1>13. CASE Forget
  BY <1>13, MoveType DEF Forget, TypeOK, Main, Sup
<1>14. CASE Watch
  BY <1>14, MoveType DEF Watch, TypeOK, Main, Sup
<1>15. CASE Decide
  BY <1>15, MoveType DEF Decide, TypeOK, Main, Sup
<1>16. CASE Settle
  BY <1>16, MoveType DEF Settle, TypeOK, Main, Sup
<1>17. CASE WakeUp
  BY <1>17, MoveType DEF WakeUp, TypeOK, Main, Sup
<1>18. ASSUME NEW t \in {Main, Sup}, SpawnFails(t) PROVE TypeOK'
  <2>1. failures' \in 0 .. MaxFailures
    BY <1>18 DEF SpawnFails, Failure, TypeOK
  <2>2. /\ pc' \in [{Main, Sup} -> SpawnPoints \cup MainPoints \cup SupPoints]
        /\ pc'[Main] \in SpawnPoints \cup MainPoints
        /\ pc'[Sup] \in SpawnPoints \cup SupPoints
    <3>1. (IF t = Main THEN "failed" ELSE "sleep")
            \in SpawnPoints \cup (IF t = Main THEN MainPoints ELSE SupPoints)
      OBVIOUS
    <3>2. pc' = [pc EXCEPT ![t] = IF t = Main THEN "failed" ELSE "sleep"]
      BY <1>18 DEF SpawnFails
    <3>3. QED
      BY <3>1, <3>2, MoveType
  <2>3. UNCHANGED <<process, events, session, processes, reader>>
    BY <1>18 DEF SpawnFails
  <2>4. QED
    BY <2>1, <2>2, <2>3 DEF TypeOK
<1>19. ASSUME NEW p \in Procs, Reader(p) PROVE TypeOK'
  <2>1. CASE Attach(p)
    BY <2>1 DEF Attach, TypeOK
  <2>2. CASE ReadLine(p)
    <3>1. ready' \in BOOLEAN /\ fatal' \in BOOLEAN
      BY <2>2, Zenon DEF ReadLine
    <3>2. Tail(lines[p]) \in Seq(Markers)
      BY <2>2 DEF ReadLine, TypeOK
    <3>3. QED
      BY <2>2, <3>1, <3>2 DEF ReadLine, TypeOK
  <2>3. CASE EndOfOutput(p)
    <3>1. crashed' \in BOOLEAN
      BY <2>3, Zenon DEF EndOfOutput
    <3>2. QED
      BY <2>3, <3>1 DEF EndOfOutput, TypeOK
  <2>4. QED
    BY <1>19, <2>1, <2>2, <2>3 DEF Reader
<1>20. ASSUME NEW p \in Procs, Exit(p) PROVE TypeOK'
  BY <1>20 DEF Exit, TypeOK
<1>21. ASSUME NEW p \in Procs, NEW m \in Markers, Say(p, m) PROVE TypeOK'
  BY <1>21 DEF Say, TypeOK
<1>22. CASE UNCHANGED vars
  BY <1>22 DEF vars, TypeOK
<1> QED
  BY <1>1, <1>2, <1>3, <1>4, <1>5, <1>6, <1>7, <1>8, <1>9, <1>10, <1>11, <1>12, <1>13, <1>14,
     <1>15, <1>16, <1>17, <1>18, <1>19, <1>20, <1>21, <1>22
     DEF Next, Start, Stop, Supervise, AllOver, Main, Sup

\* The runner's fields, its threads and its processes keep their types.
THEOREM RunnerTypeCorrect == Spec => []TypeOK
<1>1. Init => TypeOK
  BY InitType
<1>2. TypeOK /\ [Next]_vars => TypeOK'
  BY NextType
<1> QED
  BY <1>1, <1>2, PTL DEF Spec

-----------------------------------------------------------------------------
(* One runner at a time: the inductive invariant *)

\* Every process that was started has exited, and its output is read.
Quiet == \A p \in Procs : proc[p] # "unused" => proc[p] = "exited" /\ reader[p] = "done"

\* A process is started when everything before it is over.
Generations ==
  \A p, q \in Procs : p < q /\ proc[q] # "unused" => proc[p] = "exited" /\ reader[p] = "done"

\* A crash is reported, and a process started, only when nothing is left.
QuietWhenCrashed ==
  /\ crashed => Quiet
  /\ pc[Main] \in {"begin", "clear", "patch", "popen"} => Quiet
  /\ pc[Sup] \in {"woken", "clear", "patch", "popen"} => Quiet

\* _spawn has cleared the crash event, and nothing sets it again before Popen.
Cleared == pc[Main] \in {"patch", "popen"} \/ pc[Sup] \in {"patch", "popen"} => ~crashed

\* The supervisor exists only after start() has come to its end.
OneSpawner ==
  pc[Sup] # "none" =>
    pc[Main] \in {"serving", "stop", "signal", "reap", "forget", "stopped", "failed"}

\* self._process and the readers belong to processes that were started.
Known ==
  /\ process # NoProc => proc[process] # "unused"
  /\ victim # NoProc => proc[victim] # "unused"
  /\ \A p \in Procs : reader[p] # "none" => proc[p] # "unused"

OneRunner == Generations /\ QuietWhenCrashed /\ Cleared /\ OneSpawner /\ Known

LEMMA InitOneRunner == Init => OneRunner
BY DEF Init, OneRunner, Generations, QuietWhenCrashed, Cleared, OneSpawner, Known, Quiet, Main, Sup

LEMMA NextOneRunner == TypeOK /\ OneRunner /\ [Next]_vars => OneRunner'
<1> SUFFICES ASSUME TypeOK, OneRunner, [Next]_vars PROVE OneRunner'
  OBVIOUS
<1> USE DEF Move, events, processes, session, SpawnPoints, MainPoints, SupPoints,
           OneRunner, Generations, QuietWhenCrashed, Cleared, OneSpawner, Known, Quiet
<1>1. ASSUME NEW t \in {Main, Sup}, Spawn(t) PROVE OneRunner'
  <2>1. CASE Clear(t)
    BY <2>1 DEF Clear, TypeOK, Main, Sup
  <2>2. CASE Patch(t)
    BY <2>2 DEF Patch, TypeOK, Main, Sup
  <2>3. ASSUME NEW p \in Procs, Popen(t, p) PROVE OneRunner'
    <3>1. Quiet /\ proc[p] = "unused" /\ \A q \in Procs : proc[q] = "unused" => p <= q
      BY <2>3 DEF Popen, OneRunner, QuietWhenCrashed
    <3>2. proc' = [proc EXCEPT ![p] = "running"] /\ process' = p
          /\ UNCHANGED <<victim, reader, crashed>>
      BY <2>3 DEF Popen
    <3>3. Generations'
      BY <3>1, <3>2 DEF OneRunner, Generations, Quiet, TypeOK, Procs
    <3>4. Known'
      BY <3>1, <3>2 DEF OneRunner, Known, TypeOK, Procs, NoProc
    <3>5. ~crashed /\ pc'[Main] \notin {"begin", "clear", "patch", "popen"}
          /\ pc'[Sup] \notin {"woken", "clear", "patch", "popen"} /\ OneSpawner'
      BY <2>3, <3>1 DEF Popen, OneRunner, OneSpawner, Cleared, TypeOK, Main, Sup
    <3>6. QED
      BY <3>2, <3>3, <3>4, <3>5 DEF OneRunner, QuietWhenCrashed, Cleared
  <2>4. ASSUME NEW p \in Procs, StartReader(t, p) PROVE OneRunner'
    BY <2>4 DEF StartReader, TypeOK, Main, Sup, Procs, NoProc
  <2>5. QED
    BY <1>1, <2>1, <2>2, <2>3, <2>4 DEF Spawn
<1>2. CASE Begin
  BY <1>2 DEF Begin, TypeOK, Main, Sup
<1>3. CASE EndWait
  BY <1>3 DEF EndWait, TypeOK, Main, Sup
<1>4. CASE Judge
  BY <1>4 DEF Judge, StopThen, TypeOK, Main, Sup
<1>5. CASE OpenTunnel
  BY <1>5 DEF OpenTunnel, TypeOK, Main, Sup
<1>6. CASE OpenTunnelFails
  BY <1>6 DEF OpenTunnelFails, TypeOK, Main, Sup
<1>7. CASE WaitForPort
  BY <1>7 DEF WaitForPort, StopThen, TypeOK, Main, Sup
<1>8. CASE ReturnHandle
  BY <1>8 DEF ReturnHandle, TypeOK, Main, Sup
<1>9. CASE RequestStop
  BY <1>9 DEF RequestStop, StopThen, TypeOK, Main, Sup
<1>10. CASE EnterStop
  BY <1>10 DEF EnterStop, TypeOK, Main, Sup
<1>11. CASE Terminate
  BY <1>11 DEF Terminate, TypeOK, Main, Sup
<1>12. CASE Reap
  BY <1>12 DEF Reap, TypeOK, Procs, NoProc, Main, Sup
<1>13. CASE Forget
  BY <1>13 DEF Forget, TypeOK, Main, Sup
<1>14. CASE Watch
  BY <1>14 DEF Watch, TypeOK, Main, Sup
<1>15. CASE Decide
  BY <1>15 DEF Decide, TypeOK, Main, Sup
<1>16. CASE Settle
  BY <1>16 DEF Settle, TypeOK, Main, Sup
<1>17. CASE WakeUp
  BY <1>17 DEF WakeUp, TypeOK, Main, Sup
<1>18. ASSUME NEW t \in {Main, Sup}, SpawnFails(t) PROVE OneRunner'
  BY <1>18 DEF SpawnFails, TypeOK, Main, Sup
<1>19. ASSUME NEW p \in Procs, Reader(p) PROVE OneRunner'
  <2>1. CASE Attach(p)
    BY <2>1 DEF Attach, TypeOK
  <2>2. CASE ReadLine(p)
    BY <2>2 DEF ReadLine, TypeOK
  <2>3. CASE EndOfOutput(p)
    BY <2>3 DEF EndOfOutput, TypeOK, Procs
  <2>4. QED
    BY <1>19, <2>1, <2>2, <2>3 DEF Reader
<1>20. ASSUME NEW p \in Procs, Exit(p) PROVE OneRunner'
  BY <1>20 DEF Exit, Alive, TypeOK
<1>21. ASSUME NEW p \in Procs, NEW m \in Markers, Say(p, m) PROVE OneRunner'
  BY <1>21 DEF Say, TypeOK
<1>22. CASE UNCHANGED vars
  BY <1>22 DEF vars
<1> QED
  BY <1>1, <1>2, <1>3, <1>4, <1>5, <1>6, <1>7, <1>8, <1>9, <1>10, <1>11, <1>12, <1>13, <1>14,
     <1>15, <1>16, <1>17, <1>18, <1>19, <1>20, <1>21, <1>22
     DEF Next, Start, Stop, Supervise, AllOver, Main, Sup

LEMMA OneRunnerInvariant == Spec => [](TypeOK /\ OneRunner)
<1>1. Init => TypeOK /\ OneRunner
  BY InitType, InitOneRunner
<1>2. TypeOK /\ OneRunner /\ [Next]_vars => (TypeOK /\ OneRunner)'
  BY NextType, NextOneRunner
<1> QED
  BY <1>1, <1>2, PTL DEF Spec

\* Two xcodebuild test processes never run beside each other: the supervisor
\* starts the next one only when the output of the last has ended.
THEOREM OneRunnerAtATime == Spec => []AtMostOneRunner
<1>1. TypeOK /\ OneRunner => AtMostOneRunner
  BY DEF TypeOK, OneRunner, Generations, AtMostOneRunner, Alive, Procs
<1> QED
  BY <1>1, OneRunnerInvariant, PTL

-----------------------------------------------------------------------------
(* No restart after a fatal error: the inductive invariant *)

\* The reader of a process still has the line of the error before it.
FatalUnread(q) == reader[q] # "done" /\ \E i \in DOMAIN lines[q] : lines[q][i] = "fatal"

\* An error that was printed is known, or about to be - or stop() has taken
\* the process out of the reader's sight.
FatalSeen == \A q \in Procs : "fatal" \in said[q] => fatal \/ stopping \/ FatalUnread(q)

\* Who is about to start a process knows that there was no such error.
NoFatalBeforeSpawn ==
  /\ pc[Main] \in {"begin", "clear", "patch", "popen"} => \A q \in Procs : "fatal" \notin said[q]
  /\ pc[Sup] \in {"clear", "patch", "popen"} => \A q \in Procs : "fatal" \notin said[q]

\* Only a process that was started prints.
Printed == \A q \in Procs : said[q] # {} => proc[q] # "unused"

\* A reader that is done has left nothing that runs, unless stop() was called.
ReadToTheEnd == \A q \in Procs : reader[q] = "done" => proc[q] = "exited" \/ stopping

\* Only stop() forgets a process.
Forgotten ==
  /\ pc[Main] \in {"signal", "reap", "forget"} => stopping
  /\ process = NoProc => stopping \/ \A p \in Procs : proc[p] = "unused"

FatalIsKnown == FatalSeen /\ Printed /\ ReadToTheEnd /\ NoFatalBeforeSpawn /\ Forgotten

LEMMA InitFatalIsKnown == Init => FatalIsKnown
BY DEF Init, FatalIsKnown, FatalSeen, Printed, ReadToTheEnd, NoFatalBeforeSpawn, Forgotten

LEMMA NextFatalIsKnown ==
  TypeOK /\ OneRunner /\ FatalIsKnown /\ [Next]_vars => FatalIsKnown'
<1> SUFFICES ASSUME TypeOK, OneRunner, FatalIsKnown, [Next]_vars PROVE FatalIsKnown'
  OBVIOUS
<1> USE DEF Move, events, processes, session, SpawnPoints, MainPoints, SupPoints,
           FatalIsKnown, FatalSeen, Printed, ReadToTheEnd,
           FatalUnread, NoFatalBeforeSpawn, Forgotten
<1>1. ASSUME NEW t \in {Main, Sup}, Spawn(t) PROVE FatalIsKnown'
  <2>1. CASE Clear(t)
    BY <2>1 DEF Clear, TypeOK, Main, Sup
  <2>2. CASE Patch(t)
    BY <2>2 DEF Patch, TypeOK, Main, Sup
  <2>3. ASSUME NEW p \in Procs, Popen(t, p) PROVE FatalIsKnown'
    BY <2>3 DEF Popen, TypeOK, Main, Sup, Procs, NoProc, OneRunner, Known
  <2>4. ASSUME NEW p \in Procs, StartReader(t, p) PROVE FatalIsKnown'
    BY <2>4 DEF StartReader, TypeOK, Main, Sup
  <2>5. QED
    BY <1>1, <2>1, <2>2, <2>3, <2>4 DEF Spawn
<1>2. CASE Begin
  BY <1>2 DEF Begin, TypeOK, Main, Sup
<1>3. CASE EndWait
  BY <1>3 DEF EndWait, TypeOK, Main, Sup
<1>4. CASE Judge
  BY <1>4 DEF Judge, StopThen, TypeOK, Main, Sup
<1>5. CASE OpenTunnel
  BY <1>5 DEF OpenTunnel, TypeOK, Main, Sup
<1>6. CASE OpenTunnelFails
  BY <1>6 DEF OpenTunnelFails, TypeOK, Main, Sup
<1>7. CASE WaitForPort
  BY <1>7 DEF WaitForPort, StopThen, TypeOK, Main, Sup
<1>8. CASE ReturnHandle
  BY <1>8 DEF ReturnHandle, TypeOK, Main, Sup
<1>9. CASE RequestStop
  BY <1>9 DEF RequestStop, StopThen, TypeOK, Main, Sup
<1>10. CASE EnterStop
  BY <1>10 DEF EnterStop, TypeOK, Main, Sup
<1>11. CASE Terminate
  BY <1>11 DEF Terminate, TypeOK, Main, Sup, Procs, NoProc, OneRunner,
                QuietWhenCrashed, Quiet, Known
<1>12. CASE Reap
  BY <1>12 DEF Reap, TypeOK, Main, Sup, Procs, NoProc, OneRunner,
                QuietWhenCrashed, Quiet, Known
<1>13. CASE Forget
  BY <1>13 DEF Forget, TypeOK, Main, Sup
<1>14. CASE Watch
  BY <1>14 DEF Watch, TypeOK, Main, Sup
<1>15. CASE Decide
  BY <1>15 DEF Decide, TypeOK, Main, Sup, OneRunner, QuietWhenCrashed, Quiet, Known
<1>16. CASE Settle
  BY <1>16 DEF Settle, TypeOK, Main, Sup
<1>17. CASE WakeUp
  BY <1>17 DEF WakeUp, TypeOK, Main, Sup
<1>18. ASSUME NEW t \in {Main, Sup}, SpawnFails(t) PROVE FatalIsKnown'
  BY <1>18 DEF SpawnFails, TypeOK, Main, Sup
<1>19. ASSUME NEW p \in Procs, Reader(p) PROVE FatalIsKnown'
  <2>1. CASE Attach(p)
    BY <2>1 DEF Attach, TypeOK, OneRunner, Known
  <2>2. CASE ReadLine(p)
    <3>1. ASSUME NEW q \in Procs, "fatal" \in said[q] PROVE fatal' \/ stopping \/ FatalUnread(q)'
      <4>1. CASE q # p
        BY <2>2, <3>1, <4>1 DEF ReadLine, TypeOK, FatalIsKnown, FatalSeen, FatalUnread
      <4>2. CASE q = p /\ Head(lines[p]) # "fatal" /\ FatalUnread(p)
        <5>1. PICK i \in 1 .. Len(lines[p]) : lines[p][i] = "fatal"
          BY <4>2 DEF FatalUnread, TypeOK
        <5>2. i # 1 /\ i - 1 \in 1 .. Len(Tail(lines[p])) /\ Tail(lines[p])[i - 1] = "fatal"
          BY <4>2, <5>1 DEF TypeOK
        <5>3. lines'[p] = Tail(lines[p]) /\ reader'[p] # "done"
          BY <2>2 DEF ReadLine, TypeOK
        <5>4. i - 1 \in DOMAIN Tail(lines[p])
          BY <5>2 DEF TypeOK
        <5>5. QED
          BY <4>2, <5>2, <5>3, <5>4 DEF FatalUnread
      <4>3. QED
        BY <2>2, <3>1, <4>1, <4>2 DEF ReadLine, FatalIsKnown, FatalSeen
    <3>2. QED
      BY <2>2, <3>1 DEF ReadLine
  <2>3. CASE EndOfOutput(p)
    BY <2>3 DEF EndOfOutput, TypeOK
  <2>4. QED
    BY <1>19, <2>1, <2>2, <2>3 DEF Reader
<1>20. ASSUME NEW p \in Procs, Exit(p) PROVE FatalIsKnown'
  BY <1>20 DEF Exit, Alive, TypeOK
<1>21. ASSUME NEW p \in Procs, NEW m \in Markers, Say(p, m) PROVE FatalIsKnown'
  <2>1. ASSUME NEW q \in Procs, "fatal" \in said'[q] PROVE fatal \/ stopping \/ FatalUnread(q)'
    <3>1. CASE "fatal" \in said[q]
      <4>1. CASE fatal \/ stopping
        BY <4>1
      <4>2. CASE FatalUnread(q)
        <5>1. PICK i \in DOMAIN lines[q] : lines[q][i] = "fatal"
          BY <4>2 DEF FatalUnread
        <5>2. i \in DOMAIN lines'[q] /\ lines'[q][i] = "fatal"
          BY <1>21, <5>1 DEF Say, TypeOK
        <5>3. QED
          BY <1>21, <4>2, <5>2 DEF Say, FatalUnread
      <4>3. QED
        BY <3>1, <4>1, <4>2 DEF FatalIsKnown, FatalSeen
    <3>2. CASE q = p /\ m = "fatal" /\ reader[p] # "done"
      <4>1. /\ lines'[p] = Append(lines[p], "fatal")
            /\ Len(lines[p]) + 1 \in DOMAIN Append(lines[p], "fatal")
            /\ Append(lines[p], "fatal")[Len(lines[p]) + 1] = "fatal"
        BY <1>21, <3>2 DEF Say, TypeOK
      <4>2. QED
        BY <1>21, <3>2, <4>1 DEF Say, FatalUnread
    <3>3. CASE q = p /\ reader[p] = "done"
      BY <1>21, <3>3 DEF Say, TypeOK, FatalIsKnown, ReadToTheEnd
    <3>4. QED
      BY <1>21, <2>1, <3>1, <3>2, <3>3 DEF Say, TypeOK
  <2>2. QED
    BY <1>21, <2>1 DEF Say, TypeOK, Main, Sup, OneRunner, QuietWhenCrashed, Quiet, Known
<1>22. CASE UNCHANGED vars
  BY <1>22 DEF vars
<1> QED
  BY <1>1, <1>2, <1>3, <1>4, <1>5, <1>6, <1>7, <1>8, <1>9, <1>10, <1>11, <1>12, <1>13, <1>14,
     <1>15, <1>16, <1>17, <1>18, <1>19, <1>20, <1>21, <1>22
     DEF Next, Start, Stop, Supervise, AllOver, Main, Sup

\* A process that printed an error no restart can fix is never replaced.
THEOREM FatalIsFinal == Spec => NoRestartAfterFatal
<1> DEFINE Started(p) == proc[p] = "unused" /\ proc'[p] = "running"
           Inv == TypeOK /\ OneRunner /\ FatalIsKnown
<1>1. Spec => []Inv
  <2>1. Init => FatalIsKnown
    BY InitFatalIsKnown
  <2>2. TypeOK /\ OneRunner /\ FatalIsKnown /\ [Next]_vars => FatalIsKnown'
    BY NextFatalIsKnown
  <2>3. QED
    BY <2>1, <2>2, OneRunnerInvariant, PTL DEF Spec
<1>2. Inv /\ [Next]_vars =>
        [\A p \in Procs : Started(p) => \A q \in Procs : "fatal" \notin said[q]]_vars
  <2> SUFFICES ASSUME Inv, Next, NEW p \in Procs, Started(p), NEW q \in Procs
               PROVE  "fatal" \notin said[q]
    OBVIOUS
  <2>1. PICK t \in {Main, Sup} : pc[t] = "popen"
    <3>1. (\E t \in {Main, Sup} : pc[t] = "popen") \/ proc'[p] = proc[p] \/ proc'[p] # "running"
      BY DEF Next, Start, Stop, Supervise, AllOver, Main, Sup, Move, StopThen, Begin, Spawn, Clear,
             Patch, Popen, StartReader, EndWait, Judge, OpenTunnel, OpenTunnelFails, WaitForPort,
             ReturnHandle, RequestStop, EnterStop, Terminate, Reap, Forget, Watch, Decide, Settle,
             WakeUp, SpawnFails, Reader, Attach, ReadLine, EndOfOutput, Exit, Say, events,
             processes, session, vars, TypeOK
    <3>2. QED
      BY <3>1
  <2>2. QED
    BY <2>1 DEF FatalIsKnown, NoFatalBeforeSpawn
<1>3. QED
  BY <1>1, <1>2, PTL DEF Spec, NoRestartAfterFatal

-----------------------------------------------------------------------------
(* A start that failed *)

NoneAlive == \A p \in Procs : ~Alive(p)

\* As long as there is no supervisor, the process that is alive is the one that
\* stop() will find.
AloneIsKnown == pc[Sup] = "none" => \A p \in Procs : Alive(p) => p = process

\* stop() ends the process it found, and nobody has started another.
StopEndsIt ==
  pc[Sup] = "none" =>
    /\ pc[Main] = "reap" => \A p \in Procs : Alive(p) => p = victim
    /\ pc[Main] = "forget" => NoneAlive

\* start() fails before it makes the supervisor.
FailedAlone ==
  /\ pc[Main] = "failed" => pc[Sup] = "none"
  /\ after = "failed" /\ pc[Main] \in {"stop", "signal", "reap", "forget"} => pc[Sup] = "none"

FailedStart == AloneIsKnown /\ StopEndsIt /\ FailedAlone /\ FailedStartLeavesNothing

LEMMA InitFailedStart == Init => FailedStart
BY DEF Init, FailedStart, AloneIsKnown, StopEndsIt, FailedAlone, FailedStartLeavesNothing,
       Alive, Main, Sup

LEMMA NextFailedStart ==
  TypeOK /\ OneRunner /\ FailedStart /\ [Next]_vars => FailedStart'
<1> SUFFICES ASSUME TypeOK, OneRunner, FailedStart, [Next]_vars PROVE FailedStart'
  OBVIOUS
<1> USE DEF Move, events, processes, session, SpawnPoints, MainPoints, SupPoints, FailedStart,
           AloneIsKnown, StopEndsIt, FailedAlone, FailedStartLeavesNothing, NoneAlive, Alive
<1>1. ASSUME NEW t \in {Main, Sup}, Spawn(t) PROVE FailedStart'
  <2>1. CASE Clear(t)
    BY <2>1 DEF Clear, TypeOK, Main, Sup
  <2>2. CASE Patch(t)
    BY <2>2 DEF Patch, TypeOK, Main, Sup
  <2>3. ASSUME NEW p \in Procs, Popen(t, p) PROVE FailedStart'
    <3>1. Quiet
      BY <2>3 DEF Popen, OneRunner, QuietWhenCrashed
    <3>2. \A q \in Procs : proc'[q] \in {"running", "dying"} => q = p
      BY <2>3, <3>1 DEF Popen, Quiet, TypeOK
    <3>3. pc'[Main] # "failed" \/ (t = Sup /\ pc[Main] = "failed")
      BY <2>3 DEF Popen, TypeOK, Main, Sup
    <3>4. QED
      BY <2>3, <3>2, <3>3 DEF Popen, TypeOK, Main, Sup
  <2>4. ASSUME NEW p \in Procs, StartReader(t, p) PROVE FailedStart'
    BY <2>4 DEF StartReader, TypeOK, Main, Sup
  <2>5. QED
    BY <1>1, <2>1, <2>2, <2>3, <2>4 DEF Spawn
<1>2. CASE Begin
  <2>1. Quiet
    BY <1>2 DEF Begin, OneRunner, QuietWhenCrashed
  <2>2. QED
    BY <1>2, <2>1 DEF Begin, TypeOK, Main, Sup, OneRunner, OneSpawner, Quiet
<1>3. CASE EndWait
  BY <1>3 DEF EndWait, TypeOK, Main, Sup
<1>4. CASE Judge
  BY <1>4 DEF Judge, StopThen, TypeOK, Main, Sup, OneRunner, OneSpawner
<1>5. CASE OpenTunnel
  BY <1>5 DEF OpenTunnel, TypeOK, Main, Sup
<1>6. CASE OpenTunnelFails
  BY <1>6 DEF OpenTunnelFails, Failure, TypeOK, Main, Sup, OneRunner, OneSpawner
<1>7. CASE WaitForPort
  BY <1>7 DEF WaitForPort, StopThen, TypeOK, Main, Sup, OneRunner, OneSpawner
<1>8. CASE ReturnHandle
  BY <1>8 DEF ReturnHandle, TypeOK, Main, Sup
<1>9. CASE RequestStop
  BY <1>9 DEF RequestStop, StopThen, TypeOK, Main, Sup
<1>10. CASE EnterStop
  BY <1>10 DEF EnterStop, TypeOK, Main, Sup
<1>11. CASE Terminate
  BY <1>11 DEF Terminate, TypeOK, Main, Sup
<1>12. CASE Reap
  BY <1>12 DEF Reap, TypeOK, Main, Sup
<1>13. CASE Forget
  BY <1>13 DEF Forget, TypeOK, Main, Sup
<1>14. CASE Watch
  BY <1>14 DEF Watch, TypeOK, Main, Sup
<1>15. CASE Decide
  BY <1>15 DEF Decide, TypeOK, Main, Sup
<1>16. CASE Settle
  BY <1>16 DEF Settle, TypeOK, Main, Sup
<1>17. CASE WakeUp
  BY <1>17 DEF WakeUp, TypeOK, Main, Sup
<1>18. ASSUME NEW t \in {Main, Sup}, SpawnFails(t) PROVE FailedStart'
  <2>1. failures' # 0
    BY <1>18, RunnerAssumption DEF SpawnFails, Failure, TypeOK
  <2>2. QED
    BY <1>18, <2>1 DEF SpawnFails, TypeOK, Main, Sup, OneRunner, OneSpawner
<1>19. ASSUME NEW p \in Procs, Reader(p) PROVE FailedStart'
  BY <1>19 DEF Reader, Attach, ReadLine, EndOfOutput
<1>20. ASSUME NEW p \in Procs, Exit(p) PROVE FailedStart'
  BY <1>20 DEF Exit, TypeOK
<1>21. ASSUME NEW p \in Procs, NEW m \in Markers, Say(p, m) PROVE FailedStart'
  BY <1>21 DEF Say
<1>22. CASE UNCHANGED vars
  BY <1>22 DEF vars
<1> QED
  BY <1>1, <1>2, <1>3, <1>4, <1>5, <1>6, <1>7, <1>8, <1>9, <1>10, <1>11, <1>12, <1>13, <1>14,
     <1>15, <1>16, <1>17, <1>18, <1>19, <1>20, <1>21, <1>22
     DEF Next, Start, Stop, Supervise, AllOver, Main, Sup

\* A start() that has raised leaves no process behind, unless what raised was
\* patch_xctestrun, Popen or open_tunnel: whatever else goes wrong goes through
\* stop(), which finds the process that was started (agent.py:113-151).
THEOREM FailedStartsLeaveNothing == Spec => []FailedStartLeavesNothing
<1>1. FailedStart => FailedStartLeavesNothing
  BY DEF FailedStart
<1> QED
  BY <1>1, InitFailedStart, NextFailedStart, RunnerTypeCorrect, OneRunnerInvariant, PTL DEF Spec
==============================================================================
