------------------------------ MODULE Startup ------------------------------
(***************************************************************************)
(* The server process around its loop: main, Options and InitDaemon        *)
(* (server/Main.cpp), Server::InitSSL, InitSocket and InitEntities         *)
(* (Server.cpp), the Database constructor (Database.h) and Logger::log     *)
(* (Logging.cpp).  What the loop does for clients, and how that can end    *)
(* the process, is in Server; here it accepts and drops them.              *)
(*                                                                         *)
(* The model keeps what these share: the table of descriptors, in which    *)
(* every new one takes the lowest free number.  fds maps each open one to  *)
(* what it is: "tty" (inherited), "master", "db", "null" (/dev/null),      *)
(* "client" or "syslog".                                                   *)
(***************************************************************************)
EXTENDS Naturals, FiniteSetsExt

CONSTANTS
    MaxFd,      \* the highest descriptor, RLIMIT_NOFILE - 1
    Inherited   \* sets of descriptors the process may be started with

\* Whoever starts the server leaves it stdin, stdout and stderr.
ASSUME StartupAssumption ==
    /\ MaxFd \in Nat /\ MaxFd > 2
    /\ \A fs \in Inherited : 0..2 \subseteq fs /\ fs \subseteq 0..MaxFd

VARIABLES
    pc,                \* step of main, or how the process has ended
    options,           \* option names given, {"?"} if some are not valid
    fds,               \* the descriptors
    m_ctx,             \* "garbage", "null", "live" or "freed"
    m_MasterSocket,    \* a descriptor, or {} for -1
    m_ServerState,     \* eServerState
    closingRequested,  \* set by SIGINT and SIGTERM
    queued,            \* does a connection wait to be accepted?
    incoming,          \* is m_MasterSocket in m_Readfds?
    logged             \* entries logged

loopVars == <<queued, incoming>>
vars == <<pc, options, fds, m_ctx, m_MasterSocket, m_ServerState,
          closingRequested, loopVars, logged>>

\* The steps of main's loop.
InLoop == {"loop", "accept", "process", "closing?"}

Ended == pc \in {"exit0", "exit1", "aborted", "crashed", "killed"}

known == {"no-daemon", "debug", "help"}

Init ==
    /\ pc = "options"
    /\ options \in SUBSET known \cup {{"?"}}
    /\ \E fs \in Inherited : fds = [f \in fs |-> "tty"]
    /\ m_ctx = "garbage" /\ m_MasterSocket = {} /\ m_ServerState = "NOT_STARTED"
    /\ closingRequested = FALSE
    /\ queued = FALSE /\ incoming = FALSE
    /\ logged = {}

daemonize == "no-daemon" \notin options

----------------------------------------------------------------------------
(* Descriptors.                                                            *)

Free(table) == (0..MaxFd) \ DOMAIN table

\* The table after one more has been opened; some must be free.
Opened(table, what) ==
    [f \in DOMAIN table \cup {Min(Free(table))} |->
        IF f \in DOMAIN table THEN table[f] ELSE what]

Closed(table, fs) == [f \in DOMAIN table \ fs |-> table[f]]

\* /dev/null on the first three descriptors that are free.
Plugged(table) ==
    [f \in DOMAIN table \cup 0..2 |-> IF f \in DOMAIN table THEN table[f] ELSE "null"]

\* sqlite3_open, whose file is never one of the first three: those are plugged
\* with /dev/null first.
OpenedDatabase(table) == Opened(Plugged(table), "db")

----------------------------------------------------------------------------
(* Logger.                                                                 *)

\* m_LogLevelFilter lets the level through.
Passes(level) == level # "DEBUG" \/ "debug" \in options

\* Mutated form: LOG_LEVEL_ERROR is a mask of more than one bit as well.
syslogLevelMasks(level) == "LOG_INFO"

\* The priority syslog gets.  The code compares the level, one bit, with masks of
\* which only LOG_LEVEL_ERROR is one bit too.
syslogLevel(level) == IF level = "ERROR" THEN "LOG_ERR" ELSE "LOG_INFO"

\* Logger::log of a list of entries <<level, msg>>.
Entries(list) ==
    {[level |-> e[1], msg |-> e[2],
      to |-> IF daemonize THEN syslogLevel(e[1]) ELSE "console"] :
        e \in {x \in list : Passes(x[1])}}

log(list) == logged' = logged \cup Entries(list)

\* Mutated form: closelog is forgotten.
SyslogLeft(table) ==
    IF daemonize /\ "syslog" \notin {table[f] : f \in DOMAIN table}
    THEN Opened(table, "syslog") ELSE table

\* openlog, syslog and closelog leave the descriptors as they were.
AfterSyslog(table) == table

----------------------------------------------------------------------------
(* main.                                                                   *)

Options ==
    /\ pc = "options"
    /\ pc' = IF options = {"?"} THEN "exit1"
             ELSE IF "help" \in options THEN "exit0" ELSE "daemon"
    /\ UNCHANGED <<options, fds, m_ctx, m_MasterSocket, m_ServerState,
                   closingRequested, loopVars, logged>>

\* fork, setsid or chdir may fail; the parent of the fork has exited.  Signal
\* handlers are installed last.
InitDaemon ==
    /\ pc = "daemon"
    /\ \/ /\ daemonize /\ pc' = "exit1"
          /\ UNCHANGED <<fds, logged>>
       \/ /\ pc' = "ssl"
          /\ IF daemonize
             THEN /\ fds' = AfterSyslog(<< >>)
                  /\ log({<<"INFO", "daemon started.">>})
             ELSE UNCHANGED <<fds, logged>>
    /\ UNCHANGED <<options, m_ctx, m_MasterSocket, m_ServerState, closingRequested,
                   loopVars>>

\* An exception of InitSSL is logged and passed over.  After SSL_CTX_free the
\* pointer is kept.
InitSSL ==
    /\ pc = "ssl" /\ pc' = "socket"
    /\ \/ m_ctx' = "live" /\ log({<<"DEBUG", "InitSSL">>})
       \/ /\ m_ctx' \in {"null", "freed"}
          /\ log({<<"DEBUG", "InitSSL">>, <<"ERROR", "failed to init SSL">>})
    /\ UNCHANGED <<options, fds, m_MasterSocket, m_ServerState, closingRequested,
                   loopVars>>

\* Without a socket an exception is thrown, logged and passed over; when
\* setsockopt, bind or listen fails the process exits.
InitSocket ==
    /\ pc = "socket"
    /\ \/ /\ pc' = "entities" /\ Free(fds) # {}
          /\ fds' = Opened(fds, "master") /\ m_MasterSocket' = {Min(Free(fds))}
          /\ m_ServerState' = "STARTED"
          /\ log({<<"DEBUG", "InitSocket">>, <<"INFO", "Waiting for connections ...">>})
       \/ /\ pc' = "entities"
          /\ log({<<"DEBUG", "InitSocket">>, <<"ERROR", "failed to init socket">>})
          /\ UNCHANGED <<fds, m_MasterSocket, m_ServerState>>
       \/ /\ pc' = "exit1"
          /\ log({<<"DEBUG", "InitSocket">>,
                  <<"ERROR", "setsockopt, bind or listen failed">>})
          /\ UNCHANGED <<fds, m_MasterSocket, m_ServerState>>
    /\ UNCHANGED <<options, m_ctx, closingRequested, loopVars>>

\* The Database constructor throws std::runtime_error, which main does not catch.
InitEntities ==
    /\ pc = "entities"
    /\ \/ /\ pc' = "loop" /\ Free(Plugged(fds)) # {}
          /\ fds' = OpenedDatabase(fds)
          /\ log({<<"DEBUG", "InitEntities">>, <<"INFO", "Server started.">>})
       \/ /\ pc' = "aborted"
          /\ log({<<"DEBUG", "InitEntities">>})
          /\ UNCHANGED fds
    /\ UNCHANGED <<options, m_ctx, m_MasterSocket, m_ServerState, closingRequested,
                   loopVars>>

Clients(table) == {f \in DOMAIN table : table[f] = "client"}

\* FD_SET of -1 is outside its array: the process crashes or gets away with it.
\* select waits for nothing.
PoolActivity ==
    /\ pc = "loop"
    /\ \/ pc' = "accept" /\ incoming' = queued
       \/ m_MasterSocket = {} /\ pc' = "crashed" /\ UNCHANGED incoming
    /\ UNCHANGED <<options, fds, m_ctx, m_MasterSocket, m_ServerState,
                   closingRequested, queued, logged>>

\* A signal is delivered during select and nothing is ready: EINTR, which the
\* code passes over, and the set is left as it was given.
PoolInterrupted ==
    /\ pc = "loop"
    /\ m_MasterSocket # {} /\ ~queued
    /\ closingRequested' = TRUE /\ incoming' = TRUE
    /\ pc' = "accept"
    /\ UNCHANGED <<options, fds, m_ctx, m_MasterSocket, m_ServerState, queued, logged>>

\* HandleNewConnections without a connection: the bit is not set, or accept fails
\* at once for want of a descriptor.
NothingAccepted ==
    /\ pc = "accept"
    /\ incoming => Free(fds) = {}
    /\ pc' = "process"
    /\ UNCHANGED <<options, fds, m_ctx, m_MasterSocket, m_ServerState,
                   closingRequested, loopVars, logged>>

\* HandleNewConnections with one; the listening socket is blocking, so with none
\* queued the process stays here.  The handshake takes at most 10 s.  It fails
\* without a context; with a freed one it is undefined.
Accept ==
    /\ pc = "accept"
    /\ incoming /\ queued /\ Free(fds) # {}
    /\ queued' \in BOOLEAN
    /\ \/ pc' = "process" /\ UNCHANGED fds
       \/ /\ m_ctx \in {"live", "freed"} /\ pc' = "process"
          /\ fds' = Opened(fds, "client")
       \/ m_ctx = "freed" /\ pc' = "crashed" /\ UNCHANGED fds
    /\ UNCHANGED <<options, m_ctx, m_MasterSocket, m_ServerState,
                   closingRequested, incoming, logged>>

\* Some clients may have gone.
ProcessRequests ==
    /\ pc = "process" /\ pc' = "closing?"
    /\ fds' \in {Closed(fds, fs) : fs \in SUBSET Clients(fds)}
    /\ UNCHANGED <<options, m_ctx, m_MasterSocket, m_ServerState,
                   closingRequested, loopVars, logged>>

\* Mutated form: only a server that has been started is closed.
ClosesStarted == closingRequested /\ m_ServerState = "STARTED"

Closes == closingRequested

\* The end of an iteration.
ClosingTest ==
    /\ pc = "closing?"
    /\ IF Closes
       THEN /\ pc' = "end" /\ m_ServerState' = "CLOSED"
            /\ fds' = Closed(fds, Clients(fds))
            /\ log({<<"INFO", "closing requested...">>,
                    <<"INFO", "server is now closed.">>})
       ELSE pc' = "loop" /\ UNCHANGED <<m_ServerState, fds, logged>>
    /\ UNCHANGED <<options, m_ctx, m_MasterSocket, closingRequested, loopVars>>

\* main returns: ~Server frees the context, again if InitSSL has freed it.
Return ==
    /\ pc = "end"
    /\ \/ pc' = "exit0"
       \/ m_ctx = "freed" /\ pc' = "crashed"
    /\ m_ctx' = IF m_ctx = "live" THEN "freed" ELSE m_ctx
    /\ IF daemonize THEN log({<<"INFO", "daemon terminated.">>}) ELSE UNCHANGED logged
    /\ UNCHANGED <<options, fds, m_MasterSocket, m_ServerState, closingRequested,
                   loopVars>>

MainStep ==
    \/ Options \/ InitDaemon \/ InitSSL \/ InitSocket \/ InitEntities
    \/ PoolActivity \/ NothingAccepted \/ Accept \/ ProcessRequests
    \/ ClosingTest \/ Return

\* SIGINT or SIGTERM (SIGHUP is ignored from the same moment on): before InitDaemon
\* has installed the handlers it kills.
Signal ==
    /\ ~Ended
    /\ IF pc \in {"options", "daemon"}
       THEN pc' = "killed" /\ UNCHANGED closingRequested
       ELSE closingRequested' = TRUE /\ UNCHANGED pc
    /\ UNCHANGED <<options, fds, m_ctx, m_MasterSocket, m_ServerState, loopVars, logged>>

\* A client connects: the kernel queues it.
Connect ==
    /\ ~Ended /\ m_MasterSocket # {} /\ ~queued
    /\ queued' = TRUE
    /\ UNCHANGED <<pc, options, fds, m_ctx, m_MasterSocket, m_ServerState,
                   closingRequested, incoming, logged>>

Next == MainStep \/ PoolInterrupted \/ Signal \/ Connect

\* main runs when it is not blocked.  Nothing is assumed of clients or signals.
Spec == Init /\ [][Next]_vars /\ WF_vars(MainStep)

----------------------------------------------------------------------------
(* Properties.                                                             *)

\* What the process writes to stdout and stderr (printf, perror, OpenSSL's errors)
\* never goes to a client, to the database or to the listening socket, not even in
\* a daemon, which has closed both; and no client is given descriptor 0, which
\* PoolActivity ("itr.socket > 0") would never hear.
ConsoleApart ==
    \A f \in DOMAIN fds : f \in {1, 2} \/ fds[f] = "client" =>
        (f \in {1, 2} /\ fds[f] \in {"tty", "null"}) \/ (f > 2 /\ fds[f] = "client")

\* main waits in accept for a connection that an interrupted select announced.
Blocked == pc = "accept" /\ incoming /\ ~queued /\ Free(fds) # {}

\* After SIGINT or SIGTERM the process ends, whatever part of the start has failed
\* before, or it stays for good in that accept: only a client that connects could
\* end it then.
SignalEnds == closingRequested ~> (Ended \/ []Blocked)

Reported(msg) ==
    \E e \in logged : e.msg = msg /\ e.to \in {"LOG_ERR", "console"}

\* main goes on when InitSSL or InitSocket has failed, and says "Server started.";
\* then, as when InitSocket exits, the failure is on record as an error: whatever
\* the options, it passes the filter and in a daemon it has syslog's error priority,
\* the only trace of it there.
FailuresReported ==
    /\ pc \in InLoop /\ m_ctx # "live" => Reported("failed to init SSL")
    /\ pc \in InLoop /\ m_MasterSocket = {} => Reported("failed to init socket")
    /\ pc = "exit1" /\ m_ctx # "garbage" =>
            Reported("setsockopt, bind or listen failed")

=============================================================================
