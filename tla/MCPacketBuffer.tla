--------------------------- MODULE MCPacketBuffer ---------------------------
(***************************************************************************)
(* An instance of PacketBuffer: numbers at the limits of every type, and   *)
(* texts around the length of the buffer.  A byte has 12 values, so that   *)
(* 8-byte numbers stay within the checker's integers.                      *)
(***************************************************************************)
EXTENDS PacketBuffer

Decimal(neg, mag, suffix) ==
    [neg |-> neg, hex |-> FALSE, digits |-> TRUE, mag |-> mag, point |-> FALSE,
     suffix |-> suffix]
Hex(mag, suffix) == [Decimal(FALSE, mag, suffix) EXCEPT !.hex = TRUE]
Point(neg, mag) == [Decimal(neg, mag, "") EXCEPT !.point = TRUE]

\* The last number of every type and the first of the next one.
Limits == {0, 1} \cup UNION {{High[t], High[t] + 1} : t \in IntegerType \ {"uint64"}}

Unsuffixed == {Decimal(neg, mag, "") : neg \in BOOLEAN, mag \in Limits}

Others ==
    {Decimal(FALSE, mag, s) : mag \in {0, 143, 144, High["uint64"]},
                              s \in {"U", "ULL"}}
    \cup {Decimal(TRUE, 1, "U"), Decimal(TRUE, 72, "L"), Decimal(FALSE, 300, "LL")}
    \cup {Decimal(neg, mag, "F") : neg \in BOOLEAN, mag \in {5, 1023, 2049}}
    \cup {[Decimal(FALSE, 0, "F") EXCEPT !.digits = FALSE]}
    \cup {Point(TRUE, 7), Point(FALSE, 100000), Point(FALSE, 3000001)}
    \cup {Hex(mag, s) : mag \in {10, 31, 255, 254, 4096}, s \in {"", "U"}}

ASSUME LiteralsAreLegal == Unsuffixed \cup Others \subseteq Literal

\* Every pair, and some more terms.
Additions ==
    {[op |-> "add", args |-> <<l, m>>] : l \in Unsuffixed \cup Others,
                                         m \in Unsuffixed \cup Others}
    \cup {[op |-> "add", args |-> <<l>>] : l \in Others}
    \cup {[op |-> "add", args |-> <<l, Decimal(TRUE, 12, ""), l, m>>] :
             l \in Unsuffixed, m \in {Decimal(FALSE, 143, ""), Hex(31, "")}}

\* Texts shorter than the buffer, as long as it, longer, and longer than a record;
\* the rest of some is taken for an echo, an addition of numbers of unknown type or
\* nothing known.
Sevens(n) == [k \in 1..n |-> 7]
Fill == Sevens(18)
Rests == {<<11>>, <<11, 11>>, <<0, 1, 9>>, <<0, 2, 10, 0, 10, 0>>,
          Sevens(6) \o <<0, 1, 9>>}

Messages ==
    {[op |-> "echo", text |-> t] : t \in {<<8, 9, 8>>, Fill}}
    \cup {[op |-> "broadcast", text |-> Fill \o t] : t \in Rests}
    \cup {[op |-> "send-msg", to |-> Decimal(FALSE, 1, ""), text |-> t] :
             t \in {<<7>>, Sevens(15) \o <<9>>}}
    \cup {[op |-> "send-msg", to |-> Decimal(neg, 5, ""), text |-> <<7>>] :
             neg \in BOOLEAN}

Commands == Additions \cup Messages

\* To keep the instance small, an addition is the only command of its behaviour.
\* The bound blocks no step of the server.
Allowed ==
    LET ops == UNION {{typed[c][k].op : k \in 1..Len(typed[c])} : c \in Client}
    IN  IF ops = {} THEN Commands ELSE IF "add" \in ops THEN {} ELSE Messages

MCNext ==
    \E c \in Client : Serve(c) \/ \E command \in Allowed : Type(c, command)

MCSpec == Init /\ [][MCNext]_vars /\ Fairness

=============================================================================
