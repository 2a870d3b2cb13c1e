------------------------------ MODULE EventLog ------------------------------
(***************************************************************************)
(* What the conversation log promises: the last Limit entries, in order,   *)
(* and ratings that stick.  A failing disk or a crash may spoil the newest *)
(* entry or put an unreadable one behind it; it never touches an older one.*)
(***************************************************************************)
EXTENDS Naturals, Sequences

CONSTANTS Limit, Traces

VARIABLE log

\* An entry that can be read, rated by a parent or not, and one that cannot.
Entry(id, rated) == [id |-> id, rated |-> rated]
Unreadable == [id |-> 0, rated |-> FALSE]

\* The newest n elements of s.
LastOf(s, n) == IF Len(s) <= n THEN s ELSE SubSeq(s, Len(s) - n + 1, Len(s))

Init == log = <<>>

Put(e) == log' = LastOf(Append(log, e), Limit)

Record(id) == Put(Entry(id, FALSE))

Rate(id) ==
    log' = [i \in DOMAIN log |-> IF log[i].id = id THEN Entry(id, TRUE) ELSE log[i]]

Damage ==
    \/ Put(Unreadable)
    \/ log # <<>> /\ log' = [log EXCEPT ![Len(log)] = Unreadable]

Next == Damage \/ \E id \in Traces : Record(id) \/ Rate(id)

Spec == Init /\ [][Next]_log
=============================================================================
