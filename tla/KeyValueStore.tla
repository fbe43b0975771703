--------------------------- MODULE KeyValueStore ---------------------------
(***************************************************************************)
(* What a leveldb promises its caller (include/leveldb/db.h): a map that   *)
(* Put and Delete change, and snapshots of it that nothing changes.        *)
(***************************************************************************)
CONSTANTS Keys, Values, None, Snapshots

VARIABLES store,   \* what Get finds
          views    \* what Get finds in each snapshot

Init == store = [k \in Keys |-> None] /\ views = <<>>

(* The value of one key changes, perhaps to what it was.                   *)
Write == /\ UNCHANGED views
         /\ \E k \in Keys : /\ store'[k] \in Values \cup {None}
                            /\ \A x \in Keys \ {k} : store'[x] = store[x]

GetSnapshot == /\ UNCHANGED store
               /\ \E s \in Snapshots \ DOMAIN views :
                     views' = [x \in DOMAIN views \cup {s} |-> IF x = s THEN store ELSE views[x]]

ReleaseSnapshot == /\ UNCHANGED store
                   /\ \E s \in DOMAIN views : views' = [x \in DOMAIN views \ {s} |-> views[x]]

Next == Write \/ GetSnapshot \/ ReleaseSnapshot

Spec == Init /\ [][Next]_<<store, views>>
=============================================================================
