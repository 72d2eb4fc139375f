------------------------------ MODULE RoundRobin ------------------------------
(***************************************************************************)
(* What a rotating pool promises: a queue in which the proxy at the front  *)
(* is handed out and goes to the back, and which a new list may replace as *)
(* a whole.  Nothing here knows of a counter.                              *)
(***************************************************************************)
EXTENDS Sequences

CONSTANTS
  Lists,      \* the lists that may be installed, none of them empty
  Nobody      \* no proxy

VARIABLES
  turn,       \* the proxies in the order they will be handed out
  handed      \* the proxy and the error the last call returned

Init == turn = <<>> /\ handed = <<Nobody, "nil">>

HandOut ==
  /\ turn # <<>>
  /\ handed' = <<Head(turn), "nil">>
  /\ turn' = Append(Tail(turn), Head(turn))

Refuse ==
  /\ turn = <<>>
  /\ handed' = <<Nobody, "empty_pool">>
  /\ UNCHANGED turn

Install(list) ==
  /\ turn' = list
  /\ handed' = <<Nobody, "nil">>

Reject ==
  /\ handed' = <<Nobody, "empty_pool">>
  /\ UNCHANGED turn

Next == HandOut \/ Refuse \/ Reject \/ \E list \in Lists : Install(list)

Spec == Init /\ [][Next]_<<turn, handed>>
=============================================================================
