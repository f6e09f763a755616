------------------------------ MODULE OrderedMap ------------------------------
(***************************************************************************)
(* What a B+ tree promises its callers: a map from keys to values.  Every  *)
(* operation takes effect as a whole or fails.  One that fails changes     *)
(* nothing when the tree writes through a structural batch, which discards *)
(* its pages; a delete that fails in a tree written in place has removed   *)
(* its key.                                                                *)
(***************************************************************************)
EXTENDS Functions

CONSTANTS Keys, Values

VARIABLES
  inPlace, \* whether the tree writes its pages in place
  map,     \* the keys present and their values
  reply    \* the last operation, its key and what it returned

vars == <<inPlace, map, reply>>

Reply(op, k, result) == [op |-> op, key |-> k, result |-> result]

Init == inPlace \in BOOLEAN /\ map = <<>> /\ reply = <<>>

With(m, k, v) == [x \in DOMAIN m \cup {k} |-> IF x = k THEN v ELSE m[x]]
Without(m, k) == Restrict(m, DOMAIN m \ {k})

Insert(k, v) ==
  IF k \in DOMAIN map
    THEN reply' = Reply("insert", k, "duplicate") /\ UNCHANGED map
    ELSE reply' = Reply("insert", k, "ok") /\ map' = With(map, k, v)

ReplaceExisting(k, v) ==
  IF k \in DOMAIN map
    THEN reply' = Reply("replace", k, "ok") /\ map' = With(map, k, v)
    ELSE reply' = Reply("replace", k, "absent") /\ UNCHANGED map

Delete(k) ==
  IF k \in DOMAIN map
    THEN reply' = Reply("delete", k, "ok") /\ map' = Without(map, k)
    ELSE reply' = Reply("delete", k, "absent") /\ UNCHANGED map

(* Any operation may fail, but one whose answer needs no page written. *)
Fail(k) ==
  \/ k \notin DOMAIN map /\ reply' = Reply("insert", k, "error") /\ UNCHANGED map
  \/ k \in DOMAIN map /\ reply' = Reply("replace", k, "error") /\ UNCHANGED map
  \/ /\ k \in DOMAIN map /\ reply' = Reply("delete", k, "error")
     /\ map' = IF inPlace THEN Without(map, k) ELSE map

Next ==
  /\ \/ \E k \in Keys, v \in Values : Insert(k, v) \/ ReplaceExisting(k, v)
     \/ \E k \in Keys : Delete(k) \/ Fail(k)
  /\ UNCHANGED inPlace

Spec == Init /\ [][Next]_vars
===============================================================================
