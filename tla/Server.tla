------------------------------- MODULE Server -------------------------------
(***************************************************************************)
(* The serve command (src/main.cpp) and its HTTP server                    *)
(* (src/http_server.cpp): load the index, accept connections until a       *)
(* signal clears running_, save the index, return.  Each connection has a  *)
(* detached thread, which nothing waits for and which ends with the        *)
(* process at the latest.                                                  *)
(*                                                                         *)
(* An index is the set of the index runs it descends from.  A run copies   *)
(* the index in memory and in the end swaps the copy in, and so drops what *)
(* other runs have swapped in since; what it does to the documents is in   *)
(* SearchEngine.  Requests that do not index only read and are one kind,   *)
(* "search".                                                               *)
(***************************************************************************)
EXTENDS Naturals, FiniteSets

CONSTANTS Connection,   \* the connections of a session
          Descriptors,  \* how many of them may be open at once
          MaxSessions   \* bound: how often serve is started

ASSUME ServerAssumption == Descriptors \in Nat \ {0} /\ MaxSessions \in Nat \ {0}

VARIABLES phase,        \* where the main thread is
          running,      \* running_
          stopping,     \* stop() has been called in this session
          published,    \* the index in memory
          file,         \* the index on disk
          load_failed,  \* this session started empty though there was a file
          saved,        \* the save at the end of this session succeeded
          conn,         \* connection -> where its thread is
          work,         \* connection -> the private copy of its index run
          missed,       \* connection -> whose runs swapped while its own was building (history)
          acked,        \* whose index runs were answered 200 in this session (history)
          sessions

flags   == <<stopping, load_failed, saved, sessions>>
process == <<phase, running, flags>>
indexes == <<published, file>>
runs    == <<work, missed, acked>>
clients == <<conn, runs>>
vars    == <<process, indexes, clients>>

Phases == {"load", "setup", "ready", "check", "select", "close", "save", "return", "exited"}

\* queued: in the backlog of the listening socket.  A connection with a thread
\* has a descriptor; the thread closes it in the end.
Threaded   == {"reading", "searching", "indexing", "building", "replying"}
ConnStates == {"none", "queued", "answered", "gone"} \cup Threaded

Alive     == phase # "exited"
Listening == phase \in {"ready", "check", "select", "close"}

DescriptorFree == Cardinality({c \in Connection : conn[c] \in Threaded}) < Descriptors

\* An index run is named by its session and its connection.
IndexRuns  == (1..MaxSessions) \X Connection
IndexRun(c) == <<sessions, c>>

Go(from, to) == phase = from /\ phase' = to

-----------------------------------------------------------------------------
(* The main thread.                                                        *)

Init == /\ phase = "load" /\ running = FALSE /\ stopping = FALSE
        /\ published = {} /\ file = {}
        /\ load_failed = FALSE /\ saved = FALSE
        /\ conn = [c \in Connection |-> "none"]
        /\ work = [c \in Connection |-> {}]
        /\ missed = [c \in Connection |-> {}]
        /\ acked = {}
        /\ sessions = 1

\* Mutant: the index is not loaded.
LoadForgotten == /\ Go("load", "setup")
                 /\ UNCHANGED <<running, flags, indexes, clients>>

\* try_load_existing_index(); then run_serve installs the signal handlers.
LoadExisting == /\ Go("load", "setup")
                /\ published' = file
                /\ UNCHANGED <<running, flags, file, clients>>

\* "could not load existing index; starting empty".
StartEmpty == /\ Go("load", "setup")
              /\ file # {}
              /\ load_failed' = TRUE
              /\ UNCHANGED <<running, stopping, saved, sessions, indexes, clients>>

EndProcess == /\ phase' = "exited"
              /\ conn' = [c \in Connection |-> IF conn[c] = "answered" THEN "answered" ELSE "gone"]
              /\ UNCHANGED <<running, flags, indexes, runs>>

\* socket(), bind() and listen(); each may throw, and nothing catches it.
Listen == /\ Go("setup", "ready")
          /\ UNCHANGED <<running, flags, indexes, clients>>

ListenFails == phase = "setup" /\ EndProcess

SetRunning == /\ Go("ready", "check")
              /\ running' = TRUE
              /\ UNCHANGED <<flags, indexes, clients>>

CheckRunning == /\ Go("check", IF running THEN "select" ELSE "close")
                /\ UNCHANGED <<running, flags, indexes, clients>>

\* select() reports a connection; accept() it and detach its thread.
Accept == /\ Go("select", "check")
          /\ DescriptorFree
          /\ \E c \in Connection : /\ conn[c] = "queued"
                                   /\ conn' = [conn EXCEPT ![c] = "reading"]
          /\ UNCHANGED <<running, flags, indexes, runs>>

\* accept() fails, and the loop goes on: without a descriptor the connection
\* stays in the backlog, one that was reset there is dropped.
AcceptFails == /\ Go("select", "check")
               /\ \E c \in Connection :
                     /\ conn[c] = "queued"
                     /\ \/ ~DescriptorFree /\ UNCHANGED conn
                        \/ conn' = [conn EXCEPT ![c] = "gone"]
               /\ UNCHANGED <<running, flags, indexes, runs>>

\* std::thread throws when there can be no further thread; nothing catches it.
ThreadFails == /\ phase = "select"
               /\ DescriptorFree
               /\ \E c \in Connection : conn[c] = "queued"
               /\ EndProcess

\* Mutants: no timeout; the result of select() is not looked at.
SelectBlocks == phase = "select" /\ UNCHANGED vars
SelectIgnored == /\ Go("select", "check")
                 /\ UNCHANGED <<running, flags, indexes, clients>>

\* Nothing for 200 ms.
SelectTimesOut == /\ Go("select", "check")
                  /\ \A c \in Connection : conn[c] # "queued"
                  /\ UNCHANGED <<running, flags, indexes, clients>>

\* A signal that the main thread gets during select() makes it return an error;
\* one that came just before, or that another thread got, does not.
SelectInterrupted == /\ Go("select", "check")
                     /\ ~running
                     /\ UNCHANGED <<running, flags, indexes, clients>>

\* Closing the socket resets what is still in its backlog.
CloseSocket == /\ Go("close", "save")
               /\ conn' = [c \in Connection |-> IF conn[c] = "queued" THEN "gone" ELSE conn[c]]
               /\ UNCHANGED <<running, flags, indexes, runs>>

\* engine.save(); mutex_ keeps swaps away meanwhile.
SaveIndex == /\ Go("save", "return")
             /\ file' = published
             /\ saved' = TRUE
             /\ UNCHANGED <<running, stopping, load_failed, sessions, published, clients>>

\* "warning: failed to save index on shutdown".
SaveFails == /\ Go("save", "return")
             /\ UNCHANGED <<running, flags, indexes, clients>>

\* The server and the engine are destroyed, and main returns.
Exit == phase = "return" /\ EndProcess

Restart == /\ phase = "exited"
           /\ sessions < MaxSessions
           /\ sessions' = sessions + 1
           /\ phase' = "load" /\ running' = FALSE /\ stopping' = FALSE
           /\ load_failed' = FALSE /\ saved' = FALSE
           /\ published' = {}
           /\ conn' = [c \in Connection |-> "none"]
           /\ work' = [c \in Connection |-> {}]
           /\ missed' = [c \in Connection |-> {}]
           /\ acked' = {}
           /\ UNCHANGED file

-----------------------------------------------------------------------------
(* Signals.  Before run_serve installs a handler the default action ends   *)
(* the process; the handler calls stop().  A signal after the server is    *)
(* destroyed would call stop() through a dangling g_server: not modelled.  *)

SignalKills == phase = "load" /\ EndProcess

Stop == /\ phase \notin {"load", "exited", "return"}
        /\ running' = FALSE
        /\ stopping' = TRUE
        /\ UNCHANGED <<phase, load_failed, saved, sessions, indexes, clients>>

-----------------------------------------------------------------------------
(* Clients and the threads of their connections; handle_connection().      *)

Move(c, from, to) == Alive /\ conn[c] = from /\ conn' = [conn EXCEPT ![c] = to]

Connect(c) == /\ Listening /\ Move(c, "none", "queued")
              /\ UNCHANGED <<process, indexes, runs>>

\* The request has been read; it is dispatched.  A client may never send one.
Receive(c) == /\ \/ Move(c, "reading", "searching")
                 \/ Move(c, "reading", "indexing")
              /\ UNCHANGED <<process, indexes, runs>>

\* The client closes early, or sends no header.
Abandon(c) == /\ Move(c, "reading", "gone")
              /\ UNCHANGED <<process, indexes, runs>>

\* A number in the request cannot be parsed: the exception leaves the thread
\* and ends the process.
RequestThrows(c) == conn[c] = "reading" /\ Alive /\ EndProcess

\* send() on a connection the client has reset raises SIGPIPE, which is neither
\* ignored nor handled; for a run that is building this is the error it is
\* answered with.
SendKills(c) == conn[c] \in {"searching", "building", "replying"} /\ Alive /\ EndProcess

Search(c) == /\ Move(c, "searching", "answered")
             /\ UNCHANGED <<process, indexes, runs>>

\* Mutant: a run copies nothing, as one that is not incremental.
StartsAfresh(c) == /\ Move(c, "indexing", "building")
                   /\ work' = [work EXCEPT ![c] = {}]
                   /\ UNCHANGED <<process, indexes, missed, acked>>

\* The snapshot under the shared lock.
IndexSnapshot(c) == /\ Move(c, "indexing", "building")
                    /\ work' = [work EXCEPT ![c] = published]
                    /\ UNCHANGED <<process, indexes, missed, acked>>

\* The swap under the unique lock.
IndexSwap(c) == /\ Move(c, "building", "replying")
                /\ published' = work[c] \cup {IndexRun(c)}
                /\ work' = [work EXCEPT ![c] = {}]
                /\ missed' = [d \in Connection |-> IF d # c /\ conn[d] = "building"
                                                    THEN missed[d] \cup {c} ELSE missed[d]]
                /\ UNCHANGED <<process, file, acked>>

\* The run throws before its swap (Scanner::scan) and is answered 500.
IndexFails(c) == /\ Move(c, "building", "answered")
                 /\ work' = [work EXCEPT ![c] = {}]
                 /\ missed' = [missed EXCEPT ![c] = {}]
                 /\ UNCHANGED <<process, indexes, acked>>

\* The 200 with the report.
Reply(c) == /\ Move(c, "replying", "answered")
            /\ acked' = acked \cup {c}
            /\ UNCHANGED <<process, indexes, work, missed>>

Main == \/ LoadExisting \/ StartEmpty \/ Listen \/ ListenFails \/ SetRunning
        \/ CheckRunning \/ Accept \/ AcceptFails \/ ThreadFails
        \/ SelectTimesOut \/ CloseSocket \/ SaveIndex \/ SaveFails \/ Exit

Handle(c) == Search(c) \/ IndexSnapshot(c) \/ IndexSwap(c) \/ IndexFails(c) \/ Reply(c)

Next == \/ Main \/ SelectInterrupted \/ Restart \/ SignalKills \/ Stop
        \/ \E c \in Connection : \/ Connect(c) \/ Receive(c) \/ Abandon(c) \/ Handle(c)
                                \/ RequestThrows(c) \/ SendKills(c)

Spec == Init /\ [][Next]_vars

\* Main and connection threads are scheduled; clients and signals may stay away,
\* and select() need not be interrupted.
FairSpec == /\ Spec
            /\ WF_vars(Main)
            /\ \A c \in Connection : WF_vars(Handle(c))

-----------------------------------------------------------------------------

(* Types; and the main thread is in its loop while running_ is set, or the *)
(* process died there.                                                     *)
TypeOK == /\ phase \in Phases
          /\ running \in BOOLEAN /\ stopping \in BOOLEAN
          /\ load_failed \in BOOLEAN /\ saved \in BOOLEAN
          /\ published \subseteq IndexRuns /\ file \subseteq IndexRuns
          /\ conn \in [Connection -> ConnStates]
          /\ work \in [Connection -> SUBSET IndexRuns]
          /\ missed \in [Connection -> SUBSET Connection]
          /\ acked \subseteq Connection
          /\ sessions \in 1..MaxSessions
          /\ running => phase \in {"check", "select", "exited"}

\* The work of c was dropped by the swap of a run that took its copy before c's swap.
Overwritten(c) == \E d \in Connection : conn[d] # "building" /\ c \in missed[d]

(* The save at shutdown covers every index run whose 200 went out before   *)
(* it, though nothing waits for the threads that sent them, and others     *)
(* still run: except those that an overlapping run has overwritten.        *)
SaveCoversReplies ==
    [][saved' /\ ~saved => \A c \in acked : Overwritten(c) \/ IndexRun(c) \in file']_vars

(* "Graceful shutdown: persist the index so the next `serve` doesn't have  *)
(* to rescan everything" (main.cpp:184): what was answered is saved.       *)
EveryReplyIsSaved == [][saved' /\ ~saved => \A c \in acked : IndexRun(c) \in file']_vars

(* Sessions build on each other: the index on disk has everything that the *)
(* one it replaces had, whatever runs overlapped, unless the session could *)
(* not load that one and started empty.                                    *)
SavedIndexNeverGoesBack == [][file \subseteq file' \/ load_failed]_vars

(* A signal that comes while the server is serving ends the process: the   *)
(* 200 ms timeout of select() "is what makes graceful shutdown possible"   *)
(* (architecture.md:213), with and without connections.                    *)
StopEndsServing == (stopping /\ phase \in {"check", "select"} /\ ~running) ~> ~Alive

\* Clients that send nothing have all the descriptors: recv() has no timeout.
SilentHoldAll == Cardinality({c \in Connection : conn[c] = "reading"}) >= Descriptors

(* Nobody waits in the backlog for ever: a client is accepted or, at       *)
(* shutdown, disconnected.  There is one exception, which nothing in the   *)
(* code prevents: from some time on every descriptor stays with a client   *)
(* that sends nothing.                                                     *)
BacklogDrains == \A c \in Connection :
                    (conn[c] = "queued") ~> (conn[c] # "queued" \/ []SilentHoldAll)
=============================================================================
