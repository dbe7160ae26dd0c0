--------------------------- MODULE ConnectionLimit ---------------------------
(***************************************************************************)
(* What ConnectionPool promises its callers: no more than Limit threads    *)
(* have a database connection, or are opening one, at the same time.       *)
(***************************************************************************)
EXTENDS Naturals, FiniteSets

CONSTANTS Thread, Limit

VARIABLE using  \* the threads that have a connection or are opening one

Init == using = {}

Take(t) ==
    /\ t \notin using
    /\ Cardinality(using) < Limit
    /\ using' = using \cup {t}

Give(t) ==
    /\ t \in using
    /\ using' = using \ {t}

Next == \E t \in Thread : Take(t) \/ Give(t)

Spec == Init /\ [][Next]_using

=============================================================================
