-------------------------- MODULE MCServerTimeouts --------------------------
(* ServerTimeouts with a short and a long value of each timeout.            *)
EXTENDS ServerTimeouts, TLC

Short == [session |-> 1, heartbeat |-> 1]
Long == [session |-> 2, heartbeat |-> 2]
ShortAndLong == {Short, Long}

Symmetric == Permutations(Threads) \cup Permutations(Tokens)

=============================================================================
