---------------------------- MODULE ServerProofs ----------------------------
(***************************************************************************)
(* Server: types, and what the save at shutdown is worth, for any number   *)
(* of connections and sessions.                                            *)
(***************************************************************************)
EXTENDS Server, TLAPS

(* The run of c has swapped in this session.                               *)
Done(c) == conn[c] = "replying" \/ c \in acked

(* Before its run a connection has missed nothing.                         *)
Early == {"none", "queued", "reading", "indexing"}

NothingMissed == \A d \in Connection : conn[d] \in Early => missed[d] = {}

(* The index in memory has every run that has swapped, but for overwritten *)
(* ones.                                                                   *)
MemoryHasRuns == \A c \in Connection :
                    Done(c) => Overwritten(c) \/ IndexRun(c) \in published

(* So has the copy of a run that is building, but for those that it has    *)
(* missed: which is why its swap overwrites nothing else.                  *)
CopiesHaveRuns ==
    \A c, d \in Connection :
       Done(c) /\ conn[d] = "building" =>
          Overwritten(c) \/ c \in missed[d] \/ IndexRun(c) \in work[d]

(* A session starts with no run, which is why the load, which sets the     *)
(* index back to the file, drops none.                                     *)
NothingYet == phase = "load" => acked = {} /\ \A c \in Connection : conn[c] = "none"

(* Once loaded, the index in memory and every copy of it has what the file *)
(* has, until the session has saved: of runs that swap later the file may  *)
(* have one that a later swap drops.                                       *)
MemoryCoversFile ==
    \/ phase \in {"load", "return", "exited"}
    \/ load_failed
    \/ /\ file \subseteq published
       /\ \A d \in Connection : conn[d] = "building" => file \subseteq work[d]

RunsKept == NothingMissed /\ MemoryHasRuns /\ CopiesHaveRuns

IInv == TypeOK /\ RunsKept /\ NothingYet /\ MemoryCoversFile

LEMMA InitInv == Init => IInv
<1> SUFFICES ASSUME Init PROVE IInv
  OBVIOUS
<1>1. sessions \in 1..MaxSessions
  BY ServerAssumption DEF Init
<1>2. TypeOK
  BY <1>1, ServerAssumption DEF Init, TypeOK, Phases, ConnStates, Threaded
<1>3. RunsKept /\ NothingYet /\ MemoryCoversFile
  BY DEF Init, RunsKept, NothingMissed, MemoryHasRuns, CopiesHaveRuns, Done, NothingYet,
     MemoryCoversFile
<1> QED
  BY <1>2, <1>3 DEF IInv

(* What a step does to connections is of no account to what the indexes    *)
(* have, if no run begins to build, swaps, or is acknowledged.             *)
LEMMA RunsStay ==
    ASSUME IInv, UNCHANGED <<published, work, missed, acked, sessions>>,
           \A d \in Connection : /\ conn'[d] = "building" => conn[d] = "building"
                                 /\ conn'[d] = "replying" => conn[d] = "replying"
                                 /\ conn'[d] \in Early => conn[d] \in Early
    PROVE  RunsKept'
<1>1. \A c \in Connection : Done(c)' => Done(c)
  BY DEF Done
<1>2. \A c \in Connection : Overwritten(c) => Overwritten(c)'
  BY DEF Overwritten
<1>3. NothingMissed'
  BY DEF IInv, RunsKept, NothingMissed
<1>4. MemoryHasRuns'
  BY <1>1, <1>2 DEF IInv, RunsKept, MemoryHasRuns, IndexRun
<1>5. CopiesHaveRuns'
  BY <1>1, <1>2 DEF IInv, RunsKept, CopiesHaveRuns, IndexRun
<1> QED
  BY <1>3, <1>4, <1>5 DEF RunsKept

(* The process may end at any time.                                        *)
LEMMA EndInv == ASSUME IInv, EndProcess PROVE IInv'
<1> USE DEF EndProcess, flags, indexes, runs
<1>1. TypeOK'
  BY DEF IInv, TypeOK, Phases, ConnStates, Threaded
<1>2. RunsKept'
  BY RunsStay DEF Early
<1>3. NothingYet' /\ MemoryCoversFile'
  BY DEF NothingYet, MemoryCoversFile
<1> QED
  BY <1>1, <1>2, <1>3 DEF IInv

LEMMA MainInv == ASSUME IInv, Main \/ SelectInterrupted PROVE IInv'
<1> USE DEF IInv, flags, indexes, clients, runs, Go, Early
<1>1. CASE LoadExisting
  <2> USE <1>1 DEF LoadExisting
  <2>1. \A c \in Connection : ~Done(c)' /\ conn'[c] = "none"
    BY DEF NothingYet, Done
  <2>2. RunsKept'
    BY <2>1 DEF RunsKept, NothingMissed, MemoryHasRuns, CopiesHaveRuns
  <2>3. MemoryCoversFile'
    BY <2>1 DEF MemoryCoversFile
  <2> QED
    BY <2>2, <2>3 DEF TypeOK, Phases, NothingYet
<1>2. ASSUME UNCHANGED <<published, clients, sessions>>, phase' # "load", TypeOK',
             MemoryCoversFile'
      PROVE  IInv'
  BY <1>2, RunsStay DEF NothingYet
<1>3. CASE StartEmpty
  BY <1>2, <1>3 DEF StartEmpty, TypeOK, Phases, MemoryCoversFile
<1>4. CASE Listen
  BY <1>2, <1>4 DEF Listen, TypeOK, Phases, MemoryCoversFile
<1>5. CASE SetRunning
  BY <1>2, <1>5 DEF SetRunning, TypeOK, Phases, MemoryCoversFile
<1>6. CASE CheckRunning
  BY <1>2, <1>6 DEF CheckRunning, TypeOK, Phases, MemoryCoversFile
<1>7. CASE SelectTimesOut \/ SelectInterrupted
  BY <1>2, <1>7 DEF SelectTimesOut, SelectInterrupted, TypeOK, Phases, MemoryCoversFile
<1>8. CASE SaveIndex
  BY <1>2, <1>8 DEF SaveIndex, TypeOK, Phases, MemoryCoversFile
<1>9. CASE SaveFails
  BY <1>2, <1>9 DEF SaveFails, TypeOK, Phases, MemoryCoversFile
<1>10. ASSUME UNCHANGED <<published, file, runs, load_failed, sessions>>,
              phase \notin {"load", "return", "exited"}, phase' # "load", TypeOK',
              \A d \in Connection : \/ conn'[d] = conn[d]
                                    \/ conn[d] = "queued" /\ conn'[d] \in {"reading", "gone"}
       PROVE  IInv'
  <2>1. RunsKept'
    BY <1>10, RunsStay
  <2>2. NothingYet' /\ MemoryCoversFile'
    BY <1>10 DEF NothingYet, MemoryCoversFile
  <2> QED
    BY <1>10, <2>1, <2>2
<1>11. CASE Accept
  BY <1>10, <1>11 DEF Accept, TypeOK, Phases, ConnStates, Threaded
<1>12. CASE AcceptFails
  BY <1>10, <1>12 DEF AcceptFails, TypeOK, Phases, ConnStates, Threaded
<1>13. CASE CloseSocket
  BY <1>10, <1>13 DEF CloseSocket, TypeOK, Phases, ConnStates, Threaded
<1>14. CASE ListenFails \/ ThreadFails \/ Exit
  BY <1>14, EndInv DEF ListenFails, ThreadFails, Exit
<1> QED
  BY <1>1, <1>3, <1>4, <1>5, <1>6, <1>7, <1>8, <1>9, <1>11, <1>12, <1>13, <1>14 DEF Main

(* What clients do, and requests that do not index.                        *)
LEMMA ClientInv ==
    ASSUME IInv, NEW c \in Connection, Connect(c) \/ Receive(c) \/ Abandon(c) \/ Search(c)
    PROVE  IInv'
<1> USE DEF Connect, Receive, Abandon, Search, Move, process, flags, indexes, runs, IInv
<1>1. TypeOK'
  BY DEF TypeOK, ConnStates, Threaded
<1>2. RunsKept'
  BY RunsStay DEF TypeOK, Early
<1>3. NothingYet'
  BY DEF NothingYet, TypeOK, Listening
<1>4. MemoryCoversFile'
  BY DEF MemoryCoversFile, TypeOK
<1> QED
  BY <1>1, <1>2, <1>3, <1>4

LEMMA SnapshotInv == ASSUME IInv, NEW e \in Connection, IndexSnapshot(e) PROVE IInv'
<1> USE DEF IndexSnapshot, Move, process, flags, indexes, IInv
<1>1. TypeOK'
  BY DEF TypeOK, ConnStates, Threaded
<1>2. missed[e] = {}
  BY DEF RunsKept, NothingMissed, Early
<1>3. /\ \A c \in Connection : Done(c)' => Done(c)
      /\ \A c \in Connection : Overwritten(c) => Overwritten(c)'
  BY <1>2 DEF Done, Overwritten, TypeOK
<1>4. NothingMissed' /\ MemoryHasRuns'
  BY <1>3 DEF RunsKept, NothingMissed, MemoryHasRuns, IndexRun, TypeOK, Early
<1>5. CopiesHaveRuns'
  BY <1>3 DEF RunsKept, MemoryHasRuns, CopiesHaveRuns, IndexRun, TypeOK
<1>6. NothingYet' /\ MemoryCoversFile'
  BY DEF NothingYet, MemoryCoversFile, TypeOK
<1> QED
  BY <1>1, <1>4, <1>5, <1>6 DEF RunsKept

LEMMA SwapInv == ASSUME IInv, NEW e \in Connection, IndexSwap(e) PROVE IInv'
<1> USE DEF IndexSwap, Move, process, flags, indexes, IInv
<1>1. TypeOK'
  BY DEF TypeOK, ConnStates, Threaded, IndexRun, IndexRuns
<1>2. \A c \in Connection : Done(c)' => Done(c) \/ c = e
  BY DEF Done, TypeOK
<1>3. ASSUME NEW c \in Connection, Overwritten(c) \/ c \in missed[e]
      PROVE  Overwritten(c)'
  BY <1>3 DEF Overwritten, TypeOK
<1>4. NothingMissed'
  BY DEF RunsKept, NothingMissed, TypeOK, Early
<1>5. MemoryHasRuns'
  BY <1>2, <1>3 DEF RunsKept, CopiesHaveRuns, MemoryHasRuns, IndexRun
<1>6. CopiesHaveRuns'
  <2> SUFFICES ASSUME NEW c \in Connection, NEW d \in Connection, Done(c)', (conn[d] = "building")'
               PROVE  (Overwritten(c) \/ c \in missed[d] \/ IndexRun(c) \in work[d])'
    BY DEF CopiesHaveRuns
  <2>1. d # e /\ conn[d] = "building" /\ missed'[d] = missed[d] \cup {e} /\ work'[d] = work[d]
    BY DEF TypeOK
  <2> QED
    BY <1>2, <1>3, <2>1 DEF RunsKept, CopiesHaveRuns, IndexRun
<1>7. NothingYet' /\ MemoryCoversFile'
  BY DEF NothingYet, MemoryCoversFile, TypeOK
<1> QED
  BY <1>1, <1>4, <1>5, <1>6, <1>7 DEF RunsKept

LEMMA FailInv == ASSUME IInv, NEW e \in Connection, IndexFails(e) PROVE IInv'
<1> USE DEF IndexFails, Move, process, flags, indexes, IInv
<1>1. TypeOK'
  BY DEF TypeOK, ConnStates, Threaded
<1>2. /\ \A c \in Connection : Done(c)' => Done(c)
      /\ \A c \in Connection : Overwritten(c) => Overwritten(c)'
  BY DEF Done, Overwritten, TypeOK
<1>3. RunsKept'
  BY <1>2 DEF RunsKept, NothingMissed, MemoryHasRuns, CopiesHaveRuns, IndexRun, TypeOK, Early
<1>4. NothingYet' /\ MemoryCoversFile'
  BY DEF NothingYet, MemoryCoversFile, TypeOK
<1> QED
  BY <1>1, <1>3, <1>4

LEMMA ReplyInv == ASSUME IInv, NEW e \in Connection, Reply(e) PROVE IInv'
<1> USE DEF Reply, Move, process, flags, indexes, IInv
<1>1. TypeOK'
  BY DEF TypeOK, ConnStates, Threaded
<1>2. /\ \A c \in Connection : Done(c)' => Done(c)
      /\ \A c \in Connection : Overwritten(c) => Overwritten(c)'
  BY DEF Done, Overwritten, TypeOK
<1>3. RunsKept'
  BY <1>2 DEF RunsKept, NothingMissed, MemoryHasRuns, CopiesHaveRuns, IndexRun, TypeOK, Early
<1>4. NothingYet' /\ MemoryCoversFile'
  BY DEF NothingYet, MemoryCoversFile, TypeOK
<1> QED
  BY <1>1, <1>3, <1>4

LEMMA NextInv == ASSUME IInv, [Next]_vars PROVE IInv'
<1>1. CASE Main \/ SelectInterrupted
  BY <1>1, MainInv
<1>2. CASE Restart
  <2>1. sessions' \in 1..MaxSessions
    BY <1>2, ServerAssumption DEF Restart, IInv, TypeOK
  <2>2. TypeOK'
    BY <1>2, <2>1 DEF Restart, IInv, TypeOK, Phases, ConnStates, Threaded
  <2>3. (RunsKept /\ NothingYet /\ MemoryCoversFile)'
    BY <1>2 DEF Restart, RunsKept, NothingMissed, MemoryHasRuns, CopiesHaveRuns, Done,
       NothingYet, MemoryCoversFile
  <2> QED
    BY <2>2, <2>3 DEF IInv
<1>3. CASE SignalKills
  BY <1>3, EndInv DEF SignalKills
<1>4. CASE Stop \/ UNCHANGED vars
  <2> USE <1>4 DEF Stop, vars, process, flags, indexes, clients, runs
  <2>1. Stop => TypeOK'
    BY DEF IInv, TypeOK
  <2>2. RunsKept'
    BY RunsStay
  <2>3. UNCHANGED vars => TypeOK'
    BY DEF IInv, TypeOK
  <2>4. NothingYet' /\ MemoryCoversFile'
    BY DEF IInv, NothingYet, MemoryCoversFile
  <2> QED
    BY <2>1, <2>2, <2>3, <2>4 DEF IInv
<1>5. ASSUME NEW c \in Connection, Connect(c) \/ Receive(c) \/ Abandon(c) \/ Handle(c)
      PROVE  IInv'
  BY <1>5, ClientInv, SnapshotInv, SwapInv, FailInv, ReplyInv DEF Handle
<1>6. ASSUME NEW c \in Connection, RequestThrows(c) \/ SendKills(c)
      PROVE  IInv'
  BY <1>6, EndInv DEF RequestThrows, SendKills
<1> QED
  BY <1>1, <1>2, <1>3, <1>4, <1>5, <1>6 DEF Next

(* The invariant of the server: its types, and which runs the indexes in   *)
(* memory, in the making and on disk have.                                 *)
THEOREM Invariance == Spec => []IInv
<1>1. IInv /\ [Next]_vars => IInv'
  BY NextInv
<1> QED
  BY InitInv, <1>1, PTL DEF Spec

(* Type correctness; and running_ is set only while the main thread is in  *)
(* its loop.                                                               *)
THEOREM ServerTypes == Spec => []TypeOK
<1>1. IInv => TypeOK
  BY DEF IInv
<1> QED
  BY <1>1, Invariance, PTL

(* Only SaveIndex sets `saved`; whatever else happens leaves it alone.     *)
LEMMA OnlySaveSaves == ASSUME Next, saved', ~saved PROVE SaveIndex
<1> USE DEF flags, indexes, clients, runs, process
<1>1. CASE Main \/ SelectInterrupted
  BY <1>1 DEF Main, LoadExisting, StartEmpty, Listen, ListenFails, SetRunning, CheckRunning,
     Accept, AcceptFails, ThreadFails, SelectTimesOut, SelectInterrupted, CloseSocket,
     SaveFails, Exit, EndProcess
<1>2. CASE Restart \/ SignalKills \/ Stop
  BY <1>2 DEF Restart, SignalKills, Stop, EndProcess
<1>3. ASSUME NEW c \in Connection,
             \/ Connect(c) \/ Receive(c) \/ Abandon(c) \/ Handle(c)
             \/ RequestThrows(c) \/ SendKills(c)
      PROVE  FALSE
  BY <1>3 DEF Connect, Receive, Abandon, Handle, Search, IndexSnapshot, IndexSwap,
     IndexFails, Reply, RequestThrows, SendKills, EndProcess
<1> QED
  BY <1>1, <1>2, <1>3 DEF Next

(* And only SaveIndex writes the file.                                     *)
LEMMA OnlySaveWrites == ASSUME Next PROVE UNCHANGED file \/ SaveIndex
<1> USE DEF flags, indexes, clients, runs, process
<1>1. CASE Main \/ SelectInterrupted
  BY <1>1 DEF Main, LoadExisting, StartEmpty, Listen, ListenFails, SetRunning, CheckRunning,
     Accept, AcceptFails, ThreadFails, SelectTimesOut, SelectInterrupted, CloseSocket,
     SaveFails, Exit, EndProcess
<1>2. CASE Restart \/ SignalKills \/ Stop
  BY <1>2 DEF Restart, SignalKills, Stop, EndProcess
<1>3. ASSUME NEW c \in Connection,
             \/ Connect(c) \/ Receive(c) \/ Abandon(c) \/ Handle(c)
             \/ RequestThrows(c) \/ SendKills(c)
      PROVE  UNCHANGED file
  BY <1>3 DEF Connect, Receive, Abandon, Handle, Search, IndexSnapshot, IndexSwap,
     IndexFails, Reply, RequestThrows, SendKills, EndProcess
<1> QED
  BY <1>1, <1>2, <1>3 DEF Next

(* The save at shutdown covers every index run acknowledged before it,     *)
(* whatever threads still run beside it, but for those that a run which    *)
(* overlapped them has overwritten.                                        *)
THEOREM SaveCorrect == Spec => SaveCoversReplies
<1>1. IInv /\ [Next]_vars =>
         [saved' /\ ~saved => \A c \in acked : Overwritten(c) \/ IndexRun(c) \in file']_vars
  <2> SUFFICES ASSUME IInv, Next, saved', ~saved, NEW c \in acked
               PROVE  Overwritten(c) \/ IndexRun(c) \in file'
    BY DEF vars, process, flags
  <2>1. SaveIndex
    BY OnlySaveSaves
  <2>2. c \in Connection
    BY DEF IInv, TypeOK
  <2> QED
    BY <2>1, <2>2 DEF SaveIndex, IInv, RunsKept, MemoryHasRuns, Done
<1> QED
  BY <1>1, Invariance, PTL DEF Spec, SaveCoversReplies

(* The index on disk loses nothing, unless a session could not load it.    *)
THEOREM SavesBuildOnEachOther == Spec => SavedIndexNeverGoesBack
<1>1. IInv /\ [Next]_vars => [file \subseteq file' \/ load_failed]_vars
  <2> SUFFICES ASSUME IInv, Next, ~load_failed PROVE file \subseteq file'
    BY DEF vars
  <2>1. CASE SaveIndex
    BY <2>1 DEF SaveIndex, Go, IInv, MemoryCoversFile
  <2>2. CASE UNCHANGED file
    BY <2>2
  <2> QED
    BY <2>1, <2>2, OnlySaveWrites
<1> QED
  BY <1>1, Invariance, PTL DEF Spec, SavedIndexNeverGoesBack
=============================================================================
