--------------------------- MODULE MCChatService ---------------------------
(***************************************************************************)
(* A small instance of the chat service for TLC.                           *)
(***************************************************************************)
EXTENDS ChatService, TLC

CONSTANT MaxPosts  \* bound: requests per connection

BoundedNext == ServiceNext /\ \A c \in Conn : Len(asked'[c]) <= MaxPosts

Spec == ServiceInit /\ [][BoundedNext]_serviceVars

Symmetry == Permutations(Conn)

=============================================================================
