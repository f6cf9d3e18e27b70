------------------------------ MODULE MCClient ------------------------------
(***************************************************************************)
(* Small instances of the client for TLC.                                  *)
(***************************************************************************)
EXTENDS ClientProperties

\* Numbers of several types, and words that are none.
Numbers == [w \in {"7"} |-> "uint8"] @@ [w \in {"300"} |-> "uint16"]
           @@ [w \in {"-1"} |-> "int8"] @@ [w \in {"2.5"} |-> "double"]
Words == {"exit", "echo", "add", "broadcast", "ping", "uptime", "counter",
          "increment", "get", "client", "get-clients", "set-username",
          "send-msg", "chat", "get-rooms", "info", "join", "say", "help", "hi"}
Types == Numbers @@ [w \in Words |-> "invalid"]

\* One line of each kind, complete and wanting.
EveryLine ==
    {<< >>, <<"exit">>, <<"hi">>, <<"help">>, <<"echo", "hi">>, <<"broadcast">>,
     <<"add", "7">>, <<"add", "7", "hi">>, <<"add", "7", "2.5">>,
     <<"add", "7", "-1", "300", "300">>, <<"ping">>,
     <<"uptime">>, <<"counter">>, <<"counter", "increment">>,
     <<"counter", "get">>, <<"client", "get-clients">>,
     <<"client", "set-username", "hi">>, <<"client", "send-msg", "7">>,
     <<"client", "send-msg", "300", "hi">>, <<"client", "send-msg", "-1", "hi">>,
     <<"chat", "get-rooms">>, <<"chat", "info">>, <<"chat", "join">>,
     <<"chat", "join", "7">>, <<"chat", "join", "7", "hi">>,
     <<"chat", "join", "300">>, <<"chat", "say", "hi">>}

PingLines == {<<"ping">>, <<"exit">>}

Motd == [op |-> "SMSG_MOTD", pieces |-> 1]
LongMessage == [op |-> "SMSG_PRIVATE_MESSAGE", pieces |-> 2]
Packets == {Motd, LongMessage}

\* To keep the instance small, packets come in and time passes only while the
\* user has typed nothing but pings and exit; among the other lines there is
\* only the ticket.  The bound blocks no step of the two threads.
Bounded ==
    \/ \A k \in 1..Len(typed) : typed[k].line \in PingLines
    \/ Len(recs) <= 1 /\ ~part /\ clock = 0

MCSpec == Init /\ [][Next /\ Bounded']_vars
               /\ WF_vars(MainStep) /\ WF_vars(ReaderStep)

=============================================================================
