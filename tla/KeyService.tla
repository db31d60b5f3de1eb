----------------------------- MODULE KeyService -----------------------------
(***************************************************************************)
(* What the key store promises its clients, whatever happens to its files: *)
(* a key moves from absent to pre-active to active and never back, each    *)
(* move happens once and as a whole, and an answer tells the state the key *)
(* has at that moment.  A move need not be answered.                       *)
(***************************************************************************)
CONSTANT Keys

VARIABLES
    keys,   \* life-cycle state of each key
    told    \* what clients were last told about each key

vars == <<keys, told>>

State == {"absent", "pre", "active"}
After(s) == IF s = "absent" THEN "pre" ELSE "active"

Init == keys = [k \in Keys |-> "absent"] /\ told = [k \in Keys |-> "absent"]

Move(k) ==
    /\ keys[k] # "active"
    /\ keys' = [keys EXCEPT ![k] = After(@)]
    /\ UNCHANGED told

Answer(k) ==
    /\ keys[k] # "absent"
    /\ told' = [told EXCEPT ![k] = keys[k]]
    /\ UNCHANGED keys

Next == \E k \in Keys : Move(k) \/ Answer(k)

Spec == Init /\ [][Next]_vars
=============================================================================
