--------------------------- MODULE ForgetfulCache ---------------------------
(***************************************************************************)
(* What a user of the result cache may rely on: a value that fits is there *)
(* right after it was set; later it is there unchanged or it is forgotten; *)
(* and setting a value forgets the earlier one even if the new one does    *)
(* not fit.  Nothing is said of what is forgotten, or when.                *)
(***************************************************************************)
CONSTANTS
    Names,      \* what values are stored under
    Values,
    Fits(_)     \* whether a value can be stored at all

VARIABLE stored   \* the set of [name, value]

Init == stored = {}

Others(n) == {s \in stored : s.name # n}

Put(n, v) ==
    IF Fits(v)
    THEN \E kept \in SUBSET Others(n) : stored' = kept \cup {[name |-> n, value |-> v]}
    ELSE stored' = Others(n)

Next == \E n \in Names, v \in Values : Put(n, v)

Spec == Init /\ [][Next]_stored
=============================================================================
