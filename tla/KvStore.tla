------------------------------ MODULE KvStore ------------------------------
(***************************************************************************)
(* What kv_api.h promises its clients: a map from keys to values, whose    *)
(* completed changes survive a power failure. A change that power cut      *)
(* short may have happened or not, key by key, and which of the two is     *)
(* settled when the store comes up again.                                  *)
(***************************************************************************)
CONSTANTS Keys, Vals, Prefixes, NoVal

VARIABLES
    may,        \* may[k]: the values k may turn out to have
    job,        \* the change in progress: its keys and the value they get
    up,         \* kv_init has returned
    reply       \* the answer to the last request

vars == <<may, job, up, reply>>

Values == Vals \cup {NoVal}
NoJob  == [keys |-> {}, val |-> NoVal]
Ready  == up /\ job = NoJob

Init == /\ may = [k \in Keys |-> {NoVal}]
        /\ job = NoJob /\ up = FALSE /\ reply = "none"

\* kv_init settles on one of the values each key may have.
Start == /\ ~up /\ up' = TRUE
         /\ \E f \in [Keys -> Values] : /\ \A k \in Keys : f[k] \in may[k]
                                        /\ may' = [k \in Keys |-> {f[k]}]
         /\ UNCHANGED <<job, reply>>

\* kv_item_get answers with the value, NoVal for KV_ERR_NOT_FOUND.
Get(k) == /\ Ready /\ {reply'} = may[k]
          /\ UNCHANGED <<may, job, up>>

\* kv_item_set, kv_item_delete or kv_item_delete_by_prefix begins ...
Change(ks, v) == /\ Ready
                 /\ job' = [keys |-> ks, val |-> v]
                 /\ may' = [k \in Keys |-> IF k \in ks THEN may[k] \cup {v}
                                                        ELSE may[k]]
                 /\ reply' = "none" /\ UNCHANGED up

\* ... and succeeds.
Done == /\ up /\ job # NoJob /\ job' = NoJob
        /\ may' = [k \in Keys |-> IF k \in job.keys THEN {job.val} ELSE may[k]]
        /\ reply' = "ok" /\ UNCHANGED up

\* Setting the value a key already has, deleting a key that is not stored, or
\* an error: nothing changes.
Keep(k, v) == /\ Ready /\ may[k] = {v}
              /\ reply' = IF v = NoVal THEN NoVal ELSE "ok"
              /\ UNCHANGED <<may, job, up>>
\* Deleting by a prefix no key has.
KeepAll == {} \in Prefixes /\ Ready /\ reply' = "ok" /\ UNCHANGED <<may, job, up>>
Refuse == Ready /\ reply' \in {"nospace", "none"} /\ UNCHANGED <<may, job, up>>

Fail == /\ up' = FALSE /\ job' = NoJob /\ reply' = "none" /\ UNCHANGED may

Next == \/ Start \/ Done \/ KeepAll \/ Refuse \/ Fail
        \/ \E k \in Keys : \/ Get(k) \/ Change({k}, NoVal)
                           \/ \E v \in Vals : Change({k}, v)
                           \/ \E v \in Values : Keep(k, v)
        \/ \E ks \in Prefixes : Change(ks, NoVal)

Spec == Init /\ [][Next]_vars
=============================================================================
