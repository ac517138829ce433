--------------------------- MODULE SoftStateTable ---------------------------
(***************************************************************************)
(* What a Table2 promises, without its queue, its reference counts and its *)
(* tombstones: a set of rows with unique keys, ordered by their latest     *)
(* insertion.  Requests are served one at a time.  Rows leave the table    *)
(* because the request being served is about their key, or because they    *)
(* are the row inserted least recently and either their lifetime is over   *)
(* or the table is over its size.                                          *)
(***************************************************************************)
EXTENDS Integers, FiniteSets

CONSTANTS Tuples, Key(_), MaxSize, Lifetime, Ordered

VARIABLES
  now,      \* the clock
  rows,     \* the rows of the table
  stamp,    \* the latest insertion of each row
  older,    \* <<t, u>>: row t was inserted before row u was, if Ordered
  phase,    \* "idle", or the request is "cleaning" up or "serving", or "gone"
  key       \* the primary key the request is about

vars == <<now, rows, stamp, older, phase, key>>

Keys == {Key(t) : t \in Tuples}

Init ==
  /\ now = 0
  /\ rows = {}
  /\ stamp = [t \in Tuples |-> 0]
  /\ older = {}
  /\ phase = "idle"
  /\ key \in Keys

Tick ==
  /\ now' = now + 1
  /\ UNCHANGED <<rows, stamp, older, phase, key>>

Request(k) ==
  /\ phase = "idle"
  /\ phase' \in {"cleaning", "serving"}
  /\ key' = k
  /\ UNCHANGED <<now, rows, stamp, older>>

Serve ==
  /\ phase = "cleaning"
  /\ phase' = "serving"
  /\ UNCHANGED <<now, rows, stamp, older, key>>

Reply ==
  /\ phase = "serving"
  /\ MaxSize > 0 => Cardinality(rows) <= MaxSize
  /\ phase' = "idle"
  /\ UNCHANGED <<now, rows, stamp, older, key>>

Forget(t) ==
  /\ rows' = rows \ {t}
  /\ stamp' = [stamp EXCEPT ![t] = 0]
  /\ older' = {p \in older : t \notin {p[1], p[2]}}

Oldest(t) == t \in rows /\ \A u \in rows : <<u, t>> \notin older

Expire(t) ==
  /\ phase = "cleaning"
  /\ Oldest(t)
  /\ Lifetime >= 0
  /\ now - stamp[t] > Lifetime
  /\ Forget(t)
  /\ UNCHANGED <<now, phase, key>>

Evict(t) ==
  /\ phase = "cleaning"
  /\ Oldest(t)
  /\ MaxSize > 0
  /\ Cardinality(rows) > MaxSize
  /\ Forget(t)
  /\ UNCHANGED <<now, phase, key>>

Delete(t) ==
  /\ phase = "serving"
  /\ t \in rows
  /\ Key(t) = key
  /\ Forget(t)
  /\ phase' \in {"serving", "idle"}
  /\ UNCHANGED <<now, key>>

Put(t) ==
  /\ phase = "serving"
  /\ Key(t) = key
  /\ \A u \in rows : Key(u) # key
  /\ rows' = rows \cup {t}
  /\ stamp' = [stamp EXCEPT ![t] = now]
  /\ older' = IF Ordered THEN older \cup (rows \X {t}) ELSE older
  /\ phase' \in {"cleaning", "serving"}
  /\ UNCHANGED <<now, key>>

\* The row is inserted again: it becomes the one inserted most recently.
Renew(t) ==
  /\ phase = "serving"
  /\ t \in rows
  /\ Key(t) = key
  /\ Ordered
  /\ stamp' = [stamp EXCEPT ![t] = now]
  /\ older' = {p \in older : p[1] # t} \cup ((rows \ {t}) \X {t})
  /\ phase' = "idle"
  /\ UNCHANGED <<now, rows, key>>

Drop ==
  /\ phase = "idle"
  /\ phase' = "gone"
  /\ rows' = {}
  /\ stamp' = [t \in Tuples |-> 0]
  /\ older' = {}
  /\ UNCHANGED <<now, key>>

Next ==
  \/ Tick
  \/ \E k \in Keys : Request(k)
  \/ Serve
  \/ Reply
  \/ \E t \in Tuples : Expire(t) \/ Evict(t) \/ Delete(t) \/ Put(t) \/ Renew(t)
  \/ Drop

Spec == Init /\ [][Next]_vars
=============================================================================
