--------------------------- MODULE ClientDisplay ---------------------------
(***************************************************************************)
(* What the client tells its user about a packet: the second half of       *)
(* Client::processReplyFromServerIfAny (Client.cpp).  The opcodes, the     *)
(* errors and the layouts of the packets are written down once for both    *)
(* programs; what each makes of them is not.                               *)
(***************************************************************************)
EXTENDS Server

\* The opcodes whose packets are shown with their payload as it is.
ShowsPayload == {"SMSG_ECHO_REQUEST", "SMSG_MESSAGE", "SMSG_MOTD", "SMSG_BROADCAST",
                 "SMSG_UPTIME", "SMSG_SAY", "SMSG_ADDITION_REQUEST", "SMSG_COUNTER",
                 "SMSG_PRIVATE_MESSAGE", "SMSG_JOIN_CHAT_ROOM_OK"}

\* Mutated form: the table of the message errors is used for SMSG_SAY_ERR.
ExplainedAsPrivate ==
    [SMSG_CLIENT_LIST |-> {"ERR_OK", "ERR_NO_CLIENT_FOUND", "ERR_TOO_MUCH_CLIENTS"},
     SMSG_PRIVATE_MSG_ERR |-> {"ERR_OK", "ERR_NO_CLIENT_FOUND", "ERR_MSG_TO_SELF",
                               "ERR_EMPTY_MESSAGE"},
     SMSG_JOIN_CHAT_ROOM_ERR |-> {"ERR_INVALID_ROOM", "ERR_INVALID_ROOM_PASSWORD",
                                  "ERR_INVALID_PACKET"},
     SMSG_SAY_ERR |-> {"ERR_OK", "ERR_NO_CLIENT_FOUND", "ERR_MSG_TO_SELF",
                       "ERR_EMPTY_MESSAGE"}]

\* The errors each switch has a text for; "Something went wrong." is none.
Explained ==
    [SMSG_CLIENT_LIST |-> {"ERR_OK", "ERR_NO_CLIENT_FOUND", "ERR_TOO_MUCH_CLIENTS"},
     SMSG_PRIVATE_MSG_ERR |-> {"ERR_OK", "ERR_NO_CLIENT_FOUND", "ERR_MSG_TO_SELF",
                               "ERR_EMPTY_MESSAGE"},
     SMSG_JOIN_CHAT_ROOM_ERR |-> {"ERR_INVALID_ROOM", "ERR_INVALID_ROOM_PASSWORD",
                                  "ERR_INVALID_PACKET"},
     SMSG_SAY_ERR |-> {"ERR_INVALID_ROOM", "ERR_NO_ROOM_JOINED"}]

\* What is printed for packet p.
Display(p) ==
    CASE p.op \in ShowsPayload -> "payload"
      [] p.op \in {"SMSG_PONG", "SMSG_SAY_OK"} -> "fixed text"
      [] p.op \in DOMAIN Explained ->
            IF p.error \in Explained[p.op] THEN "explanation"
            ELSE "Something went wrong."
      [] OTHER -> "Received unknown opcode"

Displays == UNION {{Display(outq[c][k]) : k \in 1..Len(outq[c])} : c \in Conn}

\* Every refusal the server sends, by whichever path its handlers take, is one the
\* client has a text for: no handler answers with an error that only the switch of
\* another opcode knows.
ErrorsExplained == "Something went wrong." \notin Displays

=============================================================================
