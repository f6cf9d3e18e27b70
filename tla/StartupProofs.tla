--------------------------- MODULE StartupProofs ---------------------------
(***************************************************************************)
(* ConsoleApart and FailuresReported for any limit on descriptors and any  *)
(* inherited ones.  The inductive invariant of the first says, for each    *)
(* step of main, which of the first three descriptors are taken and by     *)
(* what: all of them by the terminal when the server stays in the          *)
(* foreground; in a daemon none, then 0 by the listening socket, then the  *)
(* others by /dev/null.                                                    *)
(***************************************************************************)
EXTENDS Startup, WellFoundedInduction, TLAPS

\* fds is a table of descriptors.
TableOK(table) == table = [f \in DOMAIN table |-> table[f]] /\ DOMAIN table \subseteq 0..MaxFd

\* The first three descriptors are taken and none by a client, 1 and 2 by nothing
\* that output would harm.
Settled(table) ==
    /\ 0..2 \subseteq DOMAIN table
    /\ table[0] \in {"tty", "null", "master"}
    /\ table[1] \in {"tty", "null"} /\ table[2] \in {"tty", "null"}

Foreground(table) == 0..2 \subseteq DOMAIN table /\ \A f \in 0..2 : table[f] = "tty"

DescriptorInv ==
    /\ TableOK(fds)
    /\ pc \in {"options", "daemon"} => Foreground(fds)
    /\ pc \in {"ssl", "socket"} =>
            IF daemonize THEN DOMAIN fds = {} ELSE Foreground(fds)
    /\ pc = "entities" =>
            \/ Foreground(fds)
            \/ DOMAIN fds \subseteq {0} /\ (0 \in DOMAIN fds => fds[0] = "master")
    /\ pc \in InLoop \cup {"end"} => Settled(fds)
    /\ ConsoleApart

\* The lowest free descriptor is free and is the lowest.
LEMMA LowestFree ==
    ASSUME NEW table, Free(table) # {}
    PROVE  /\ Min(Free(table)) \in 0..MaxFd /\ Min(Free(table)) \notin DOMAIN table
           /\ \A f \in Free(table) : Min(Free(table)) <= f
<1>1. Free(table) \in SUBSET Nat
    BY StartupAssumption DEF Free
<1> DEFINE R == {ss \in Nat \X Nat : ss[1] < ss[2]}
<1>a. IsWellFoundedOn(R, Nat)
    BY NatLessThanWellFounded DEF OpToRel
<1>b. PICK n \in Free(table) : \A m \in Free(table) : ~ (<<m, n>> \in R)
    BY <1>1, <1>a, WFMin
<1>2. \E x \in Free(table) : \A m \in Free(table) : x <= m
    <2>1. ASSUME NEW m \in Free(table) PROVE n <= m
        <3>1. n \in Nat /\ m \in Nat
            BY <1>1
        <3>2. ~ (<<m, n>> \in R)
            BY <1>b
        <3>3. ~ (m < n)
            BY <3>1, <3>2
        <3> QED
            BY <3>1, <3>3
    <2> QED
        BY <1>b, <2>1
<1> QED
    BY <1>2 DEF Min, Free

\* What the table is after one more has been opened.
LEMMA OpenedTable ==
    ASSUME NEW table, NEW what, TableOK(table), Free(table) # {}
    PROVE  /\ TableOK(Opened(table, what))
           /\ DOMAIN Opened(table, what) = DOMAIN table \cup {Min(Free(table))}
           /\ \A f \in DOMAIN table : Opened(table, what)[f] = table[f]
           /\ Opened(table, what)[Min(Free(table))] = what
BY LowestFree DEF Opened, TableOK

\* With the first three taken a new descriptor is above them.
LEMMA OpenedAbove ==
    ASSUME NEW table, 0..2 \subseteq DOMAIN table, Free(table) # {}
    PROVE  Min(Free(table)) \in Nat /\ Min(Free(table)) > 2
<1>1. Min(Free(table)) \in 0..MaxFd /\ Min(Free(table)) \notin 0..2
    BY LowestFree
<1> QED
    BY <1>1, StartupAssumption

\* Closing clients keeps the first three and the rest's meaning.
LEMMA ClosedTable ==
    ASSUME NEW table, NEW fs, TableOK(table), fs \subseteq Clients(table)
    PROVE  /\ TableOK(Closed(table, fs))
           /\ DOMAIN Closed(table, fs) = DOMAIN table \ fs
           /\ \A f \in DOMAIN table \ fs : Closed(table, fs)[f] = table[f]
BY DEF Closed, TableOK, Clients

\* ConsoleApart, of any table.
Apart(table) ==
    \A f \in DOMAIN table : f \in {1, 2} \/ table[f] = "client" =>
        (f \in {1, 2} /\ table[f] \in {"tty", "null"}) \/ (f > 2 /\ table[f] = "client")

\* A settled table stays so when clients are closed.
LEMMA ClosedSettled ==
    ASSUME NEW table, NEW fs, TableOK(table), fs \subseteq Clients(table),
           Settled(table), Apart(table)
    PROVE  /\ TableOK(Closed(table, fs)) /\ Settled(Closed(table, fs))
           /\ Apart(Closed(table, fs))
<1>1. 0 \notin fs /\ 1 \notin fs /\ 2 \notin fs
    BY DEF Settled, Clients
<1>2. 0..2 = {0, 1, 2}
    OBVIOUS
<1> DEFINE new == Closed(table, fs)
<1>3. /\ TableOK(new) /\ DOMAIN new = DOMAIN table \ fs
      /\ \A f \in DOMAIN table \ fs : new[f] = table[f]
    BY ClosedTable
<1> HIDE DEF new
<1>4. Settled(new)
    BY <1>1, <1>2, <1>3 DEF Settled
<1>5. Apart(new)
    BY <1>3 DEF Apart
<1> QED
    BY <1>3, <1>4, <1>5 DEF new

\* A settled table stays so when a client or another high descriptor is opened.
LEMMA OpenedSettled ==
    ASSUME NEW table, NEW what, TableOK(table), Free(table) # {},
           Settled(table), Apart(table)
    PROVE  /\ TableOK(Opened(table, what)) /\ Settled(Opened(table, what))
           /\ Apart(Opened(table, what))
<1>1. Min(Free(table)) \in Nat /\ Min(Free(table)) > 2
    BY OpenedAbove DEF Settled
<1>2. 0..2 = {0, 1, 2}
    OBVIOUS
<1> DEFINE new == Opened(table, what)
           low == Min(Free(table))
<1>3. /\ TableOK(new) /\ DOMAIN new = DOMAIN table \cup {low}
      /\ \A f \in DOMAIN table : new[f] = table[f]
    BY OpenedTable
<1> HIDE DEF new, low
<1>4. Settled(new)
    BY <1>2, <1>3 DEF Settled
<1>5. Apart(new)
    <2>1. low \in Nat /\ low > 2
        BY <1>1 DEF low
    <2>2. SUFFICES ASSUME NEW f \in DOMAIN new, f \in {1, 2} \/ new[f] = "client"
                   PROVE  (f \in {1, 2} /\ new[f] \in {"tty", "null"})
                            \/ (f > 2 /\ new[f] = "client")
        BY DEF Apart
    <2>3. CASE f = low
        BY <2>1, <2>2, <2>3
    <2>4. CASE f \in DOMAIN table
        BY <1>3, <2>2, <2>4 DEF Apart
    <2> QED
        BY <1>3, <2>3, <2>4
<1> QED
    BY <1>3, <1>4, <1>5 DEF new

----------------------------------------------------------------------------

\* Every step of main keeps the invariant.
LEMMA DescriptorStep ==
    ASSUME DescriptorInv, [Next]_vars
    PROVE  DescriptorInv'
<1> USE DEF daemonize, InLoop
<1>0. 0..2 = {0, 1, 2} /\ (ConsoleApart <=> Apart(fds)) /\ (ConsoleApart' <=> Apart(fds'))
    BY DEF ConsoleApart, Apart
<1>1. CASE UNCHANGED vars
    BY <1>1 DEF vars, DescriptorInv, ConsoleApart, TableOK, Foreground, Settled
<1>2. CASE Options
    BY <1>2 DEF Options, DescriptorInv, ConsoleApart, TableOK, Foreground, Settled
<1>3. CASE InitDaemon
    <2>0. CASE pc' = "exit1" /\ UNCHANGED fds
        BY <2>0 DEF DescriptorInv, ConsoleApart, TableOK
    <2>1. CASE ~daemonize /\ pc' = "ssl" /\ UNCHANGED fds
        <3>1. ~daemonize' /\ Foreground(fds')
            BY <1>3, <2>1 DEF InitDaemon, DescriptorInv, Foreground
        <3> QED
            BY <2>1, <3>1 DEF DescriptorInv, ConsoleApart, TableOK
    <2>2. CASE daemonize /\ pc' = "ssl" /\ fds' = << >>
        <3>1. DOMAIN fds' = {} /\ TableOK(fds')
            BY <2>2 DEF TableOK
        <3>2. Apart(fds')
            BY <3>1 DEF Apart
        <3>3. daemonize'
            BY <1>3, <2>2 DEF InitDaemon
        <3> QED
            BY <1>0, <2>2, <3>1, <3>2, <3>3 DEF DescriptorInv
    <2> QED
        BY <1>3, <2>0, <2>1, <2>2 DEF InitDaemon, AfterSyslog
<1>4. CASE InitSSL
    BY <1>4 DEF InitSSL, DescriptorInv, ConsoleApart, TableOK, Foreground, Settled
<1>5. CASE InitSocket
    <2>1. CASE UNCHANGED fds
        BY <1>5, <2>1 DEF InitSocket, DescriptorInv, ConsoleApart, TableOK, Foreground, Settled
    <2>2. CASE pc' = "entities" /\ Free(fds) # {} /\ fds' = Opened(fds, "master")
        <3>1. TableOK(fds) /\ TableOK(fds')
            BY <2>2, OpenedTable DEF DescriptorInv
        <3>2. CASE daemonize
            <4>1. DOMAIN fds = {}
                BY <1>5, <3>2 DEF InitSocket, DescriptorInv
            <4>2. Min(Free(fds)) = 0
                <5>1. 0 \in Free(fds)
                    BY <4>1, StartupAssumption DEF Free
                <5>2. Min(Free(fds)) \in 0..MaxFd /\ Min(Free(fds)) <= 0
                    BY <5>1, LowestFree
                <5> QED
                    BY <5>2, StartupAssumption
            <4>3. DOMAIN fds' = {0} /\ fds'[0] = "master"
                BY <2>2, <3>1, <4>1, <4>2, OpenedTable
            <4>4. Apart(fds')
                BY <4>3 DEF Apart
            <4> QED
                BY <1>0, <2>2, <3>1, <4>3, <4>4 DEF DescriptorInv
        <3>3. CASE ~daemonize
            <4>1. Foreground(fds) /\ Apart(fds)
                BY <1>0, <1>5, <3>3 DEF InitSocket, DescriptorInv
            <4>2. Settled(fds)
                BY <1>0, <4>1 DEF Foreground, Settled
            <4>3. Apart(fds')
                BY <2>2, <3>1, <4>1, <4>2, OpenedSettled
            <4>4. Foreground(fds')
                <5>1. /\ DOMAIN fds \subseteq DOMAIN fds'
                      /\ \A f \in DOMAIN fds : fds'[f] = fds[f]
                    <6>1. /\ DOMAIN Opened(fds, "master") = DOMAIN fds \cup {Min(Free(fds))}
                          /\ \A f \in DOMAIN fds : Opened(fds, "master")[f] = fds[f]
                        BY <2>2, <3>1, OpenedTable
                    <6> QED
                        BY <2>2, <6>1
                <5> QED
                    BY <4>1, <5>1 DEF Foreground
            <4> QED
                BY <1>0, <2>2, <3>1, <4>3, <4>4 DEF DescriptorInv
        <3> QED
            BY <3>2, <3>3
    <2> QED
        BY <1>5, <2>1, <2>2 DEF InitSocket
<1>6. CASE InitEntities
    <2>1. CASE pc' = "aborted" /\ UNCHANGED fds
        BY <2>1 DEF DescriptorInv, ConsoleApart, TableOK
    <2>2. CASE pc' = "loop" /\ Free(Plugged(fds)) # {} /\ fds' = OpenedDatabase(fds)
        <3>1. TableOK(Plugged(fds))
            BY StartupAssumption DEF DescriptorInv, TableOK, Plugged
        <3>2. /\ DOMAIN Plugged(fds) = DOMAIN fds \cup 0..2
              /\ \A f \in DOMAIN Plugged(fds) :
                    Plugged(fds)[f] = IF f \in DOMAIN fds THEN fds[f] ELSE "null"
            BY DEF Plugged
        <3>3. Settled(Plugged(fds)) /\ Apart(Plugged(fds))
            <4>1. \/ Foreground(fds)
                  \/ DOMAIN fds \subseteq {0} /\ (0 \in DOMAIN fds => fds[0] = "master")
                BY <1>6 DEF InitEntities, DescriptorInv
            <4>2. Settled(Plugged(fds))
                BY <1>0, <3>2, <4>1 DEF Settled, Foreground
            <4>3. Apart(fds)
                BY <1>0 DEF DescriptorInv
            <4>4. Apart(Plugged(fds))
                BY <1>0, <3>2, <4>2, <4>3 DEF Apart, Settled
            <4> QED
                BY <4>2, <4>4
        <3>4. TableOK(fds') /\ Settled(fds') /\ Apart(fds')
            BY <2>2, <3>1, <3>3, OpenedSettled DEF OpenedDatabase
        <3> QED
            BY <1>0, <2>2, <3>4 DEF DescriptorInv
    <2> QED
        BY <1>6, <2>1, <2>2 DEF InitEntities
<1>7. CASE PoolActivity \/ PoolInterrupted \/ NothingAccepted \/ Connect
    BY <1>7 DEF PoolActivity, PoolInterrupted, NothingAccepted, Connect, DescriptorInv,
                ConsoleApart, TableOK, Foreground, Settled
<1>8. CASE Accept
    <2>1. TableOK(fds) /\ Settled(fds) /\ Apart(fds)
        BY <1>0, <1>8 DEF Accept, DescriptorInv
    <2>2. CASE UNCHANGED fds
        BY <1>0, <1>8, <2>1, <2>2 DEF Accept, DescriptorInv
    <2>3. CASE pc' = "process" /\ Free(fds) # {} /\ fds' = Opened(fds, "client")
        <3>1. TableOK(fds') /\ Settled(fds') /\ Apart(fds')
            BY <2>1, <2>3, OpenedSettled
        <3> QED
            BY <1>0, <2>3, <3>1 DEF DescriptorInv
    <2> QED
        BY <1>8, <2>2, <2>3 DEF Accept
<1>9. CASE ProcessRequests
    <2>1. TableOK(fds) /\ Settled(fds) /\ Apart(fds)
        BY <1>0, <1>9 DEF ProcessRequests, DescriptorInv
    <2>2. PICK fs \in SUBSET Clients(fds) : fds' = Closed(fds, fs)
        BY <1>9 DEF ProcessRequests
    <2>3. TableOK(fds') /\ Settled(fds') /\ Apart(fds')
        BY <2>1, <2>2, ClosedSettled
    <2> QED
        BY <1>0, <1>9, <2>3 DEF ProcessRequests, DescriptorInv
<1>10. CASE ClosingTest
    <2>1. TableOK(fds) /\ Settled(fds) /\ Apart(fds)
        BY <1>0, <1>10 DEF ClosingTest, DescriptorInv
    <2>2. TableOK(fds') /\ Settled(fds') /\ Apart(fds')
        BY <1>10, <2>1, ClosedSettled DEF ClosingTest
    <2> QED
        BY <1>0, <1>10, <2>2 DEF ClosingTest, DescriptorInv
<1>11. CASE Return
    BY <1>11 DEF Return, DescriptorInv, ConsoleApart, TableOK
<1>12. CASE Signal
    BY <1>12 DEF Signal, Ended, DescriptorInv, ConsoleApart, TableOK, Foreground, Settled
<1> QED
    BY <1>1, <1>2, <1>3, <1>4, <1>5, <1>6, <1>7, <1>8, <1>9, <1>10, <1>11, <1>12
       DEF Next, MainStep

\* Output never reaches a client, the database or the listening socket, and no
\* client has descriptor 0, in the foreground and as a daemon, whatever fails.
THEOREM ConsoleApartHolds == Spec => []ConsoleApart
<1>1. Init => DescriptorInv
    <2> SUFFICES ASSUME Init PROVE DescriptorInv
        OBVIOUS
    <2>1. PICK fs \in Inherited : fds = [f \in fs |-> "tty"]
        BY DEF Init
    <2>2. 0..2 \subseteq fs /\ fs \subseteq 0..MaxFd
        BY StartupAssumption
    <2> QED
        BY <2>1, <2>2 DEF Init, InLoop, DescriptorInv, TableOK, Foreground, ConsoleApart
<1>2. DescriptorInv /\ [Next]_vars => DescriptorInv'
    BY DescriptorStep
<1>3. DescriptorInv => ConsoleApart
    BY DEF DescriptorInv
<1> QED
    BY <1>1, <1>2, <1>3, PTL DEF Spec

----------------------------------------------------------------------------
(* FailuresReported.  It is not inductive: it speaks of the loop, and the  *)
(* failures come before.  ReportedInv says the same of every step from the *)
(* failure on, and that the context is untouched before InitSSL, so that   *)
(* an exit of Options or InitDaemon is told from one of InitSocket.        *)

ReportedInv ==
    /\ pc \in {"options", "daemon", "ssl"} => m_ctx = "garbage"
    /\ pc \in {"socket", "entities"} \cup InLoop /\ m_ctx # "live"
            => Reported("failed to init SSL")
    /\ pc \in {"entities"} \cup InLoop /\ m_MasterSocket = {}
            => Reported("failed to init socket")
    /\ pc = "exit1" /\ m_ctx # "garbage"
            => Reported("setsockopt, bind or listen failed")

\* An error passes the filter and gets the error priority, or the console.
LEMMA ErrorsGetThrough ==
    ASSUME NEW list, NEW msg, <<"ERROR", msg>> \in list, log(list)
    PROVE  Reported(msg)'
<1> DEFINE entry == [level |-> "ERROR", msg |-> msg,
                     to |-> IF daemonize THEN syslogLevel("ERROR") ELSE "console"]
<1>1. entry \in Entries(list)
    <2>1. <<"ERROR", msg>> \in {x \in list : Passes(x[1])}
        BY DEF Passes
    <2> QED
        BY <2>1 DEF Entries
<1>2. entry \in logged'
    BY <1>1 DEF log
<1>3. entry.msg = msg /\ entry.to \in {"LOG_ERR", "console"}
    BY DEF syslogLevel
<1> QED
    BY <1>2, <1>3 DEF Reported

\* Nothing is ever taken out of the log.
LEMMA LogGrows == [Next]_vars => logged \subseteq logged'
    BY DEF Next, MainStep, vars, Options, InitDaemon, InitSSL, InitSocket,
           InitEntities, PoolActivity, PoolInterrupted, NothingAccepted, Accept,
           ProcessRequests, ClosingTest, Return, Signal, Connect, log

LEMMA ReportedStays ==
    ASSUME NEW msg, logged \subseteq logged', Reported(msg)
    PROVE  Reported(msg)'
BY DEF Reported

LEMMA ReportedStep == ReportedInv /\ [Next]_vars => ReportedInv'
<1> USE DEF InLoop
<1> SUFFICES ASSUME ReportedInv, [Next]_vars PROVE ReportedInv'
    OBVIOUS
<1> DEFINE noSSL == "failed to init SSL"
           noSocket == "failed to init socket"
           noListen == "setsockopt, bind or listen failed"
<1>0. /\ Reported(noSSL) => Reported(noSSL)'
      /\ Reported(noSocket) => Reported(noSocket)'
      /\ Reported(noListen) => Reported(noListen)'
    BY LogGrows, ReportedStays
<1> HIDE DEF noSSL, noSocket, noListen
<1>inv. /\ pc \in {"options", "daemon", "ssl"} => m_ctx = "garbage"
        /\ pc \in {"socket", "entities"} \cup InLoop /\ m_ctx # "live"
                => Reported(noSSL)
        /\ pc \in {"entities"} \cup InLoop /\ m_MasterSocket = {}
                => Reported(noSocket)
        /\ pc = "exit1" /\ m_ctx # "garbage" => Reported(noListen)
    BY DEF ReportedInv, noSSL, noSocket, noListen
<1>goal. SUFFICES
        /\ pc' \in {"options", "daemon", "ssl"} => m_ctx' = "garbage"
        /\ pc' \in {"socket", "entities"} \cup InLoop /\ m_ctx' # "live"
                => Reported(noSSL)'
        /\ pc' \in {"entities"} \cup InLoop /\ m_MasterSocket' = {}
                => Reported(noSocket)'
        /\ pc' = "exit1" /\ m_ctx' # "garbage" => Reported(noListen)'
    BY DEF ReportedInv, noSSL, noSocket, noListen
<1>1. CASE UNCHANGED vars
    BY <1>0, <1>1, <1>inv DEF vars
<1>2. CASE Options \/ InitDaemon
    BY <1>2, <1>inv DEF Options, InitDaemon
<1>3. CASE InitSSL
    <2>1. ASSUME m_ctx' # "live" PROVE Reported(noSSL)'
        <3> DEFINE list == {<<"DEBUG", "InitSSL">>, <<"ERROR", noSSL>>}
        <3>1. log(list)
            BY <1>3, <2>1 DEF InitSSL, noSSL
        <3>2. <<"ERROR", noSSL>> \in list
            OBVIOUS
        <3> HIDE DEF list
        <3> QED
            BY <3>1, <3>2, ErrorsGetThrough
    <2> QED
        BY <1>3, <2>1 DEF InitSSL
<1>4. CASE InitSocket
    <2>1. ASSUME pc' = "entities", m_MasterSocket' = {} PROVE Reported(noSocket)'
        <3> DEFINE list == {<<"DEBUG", "InitSocket">>, <<"ERROR", noSocket>>}
        <3>1. log(list)
            BY <1>4, <2>1 DEF InitSocket, noSocket
        <3>2. <<"ERROR", noSocket>> \in list
            OBVIOUS
        <3> HIDE DEF list
        <3> QED
            BY <3>1, <3>2, ErrorsGetThrough
    <2>2. ASSUME pc' = "exit1" PROVE Reported(noListen)'
        <3> DEFINE list == {<<"DEBUG", "InitSocket">>, <<"ERROR", noListen>>}
        <3>1. log(list)
            BY <1>4, <2>2 DEF InitSocket, noListen
        <3>2. <<"ERROR", noListen>> \in list
            OBVIOUS
        <3> HIDE DEF list
        <3> QED
            BY <3>1, <3>2, ErrorsGetThrough
    <2> QED
        BY <1>0, <1>4, <1>inv, <2>1, <2>2 DEF InitSocket
<1>5. CASE InitEntities \/ ClosingTest \/ Return
    BY <1>0, <1>5, <1>inv DEF InitEntities, ClosingTest, Return
<1>6. CASE PoolActivity \/ PoolInterrupted \/ NothingAccepted \/ Accept \/ ProcessRequests
    BY <1>0, <1>6, <1>inv DEF PoolActivity, PoolInterrupted, NothingAccepted, Accept,
                              ProcessRequests
<1>7. CASE Signal \/ Connect
    BY <1>0, <1>7, <1>inv DEF Signal, Connect, Ended
<1> QED
    BY <1>1, <1>2, <1>3, <1>4, <1>5, <1>6, <1>7 DEF Next, MainStep

\* A failure of InitSSL or InitSocket that main passes over, or that ends it, is
\* on record as an error, for every set of options.
THEOREM FailuresReportedHolds == Spec => []FailuresReported
<1>1. Init => ReportedInv
    BY DEF Init, ReportedInv, InLoop
<1>2. ReportedInv /\ [Next]_vars => ReportedInv'
    BY ReportedStep
<1>3. ReportedInv => FailuresReported
    BY DEF ReportedInv, FailuresReported
<1> QED
    BY <1>1, <1>2, <1>3, PTL DEF Spec

=============================================================================
