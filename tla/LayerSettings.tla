--------------------------- MODULE LayerSettings ---------------------------
(***************************************************************************)
(* What a caller of ConnectorBuilder may rely on: the builder holds at     *)
(* most one cache, one blacklist and one quota, each set or cleared        *)
(* without an effect on the others.  A shortcut sets the one part of the   *)
(* quota that it names and keeps the others as they are (builder.rs:188,   *)
(* 196 and 204).  Exporting the stack and importing it again, which is the *)
(* inverse (builder.rs:243), changes nothing: it is no step here.          *)
(***************************************************************************)
EXTENDS LayerConfig

VARIABLE settings   \* [Known -> configuration or None], or None once built

Nothing == [name \in Known |-> None]

Init == settings = Nothing

Set(name, config) == settings' = [settings EXCEPT ![name] = config]

\* quota_limit, quota_window and quota_strategy
Tune(field, value) ==
    LET before == IF settings["quota"] = None THEN DefaultQuota ELSE settings["quota"]
    IN  Set("quota", [before EXCEPT ![field] = value])

Load(stack) ==
    LET at(name) == {i \in DOMAIN stack : stack[i].name = name}
    IN  settings' = [name \in Known |->
                        IF at(name) = {} THEN None ELSE Parse(stack[CHOOSE i \in at(name) : TRUE])]

Next ==
    /\ settings # None
    /\ \/ \E c \in Caches \union {None} : Set("cache", c)
       \/ \E d \in Durations \union {None} : Set("blacklist", d)
       \/ \E q \in Quotas \union {None} : Set("quota", q)
       \/ \E n \in Limits : Tune("limit", n)
       \/ \E w \in Durations : Tune("window", w)
       \/ \E s \in Strategies : Tune("strategy", s)
       \/ \E stack \in Stacks : Load(stack)
       \/ settings' = None

Spec == Init /\ [][Next]_settings
=============================================================================
