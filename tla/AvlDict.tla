------------------------------- MODULE AvlDict -------------------------------
(***************************************************************************)
(* What a tree of src/src/containers/avltree.h promises its callers: a     *)
(* dictionary.  A caller looks a key up (search_node), or looks it up and  *)
(* adds it when it is missing (search_or_create_node), one call at a time; *)
(* the answer says whether the call found the key.                         *)
(***************************************************************************)
CONSTANT Key

VARIABLES dict,     \* the keys that have been added
          busy,     \* a call is running
          request,  \* what the running (or the last) call asks: [kind, key]
          found     \* the answer of the last call

vars == <<dict, busy, request, found>>

Requests == [kind: {"search", "create"}, key: Key]

Init == /\ dict = {}
        /\ busy = FALSE
        /\ request \in Requests
        /\ found = FALSE

Call(r) == /\ ~busy
           /\ busy' = TRUE
           /\ request' = r
           /\ UNCHANGED <<dict, found>>

Answer == /\ busy
          /\ busy' = FALSE
          /\ found' = (request.key \in dict)
          /\ dict' = IF request.kind = "create" THEN dict \union {request.key}
                                                ELSE dict
          /\ UNCHANGED request

Next == Answer \/ \E r \in Requests : Call(r)

Spec == Init /\ [][Next]_vars /\ WF_vars(Answer)
=============================================================================
