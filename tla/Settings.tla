------------------------------ MODULE Settings -------------------------------
(***************************************************************************)
(* What a Page promises the application: a map from field ids to values.    *)
(* A field once added stays; saving a form changes fields that exist and    *)
(* "does nothing if no field with this id exists" (WiFiPan.hpp).            *)
(***************************************************************************)
EXTENDS Naturals, FiniteSets

CONSTANTS
    Ids,          \* the ids fields can have
    Texts,        \* the values they can have
    Absent,       \* what GetParam answers for an id that was not added: no text
    MaxParams     \* kMaxParams

VARIABLE values

Known == {id \in Ids : values[id] # Absent}

Init == values = [id \in Ids |-> Absent]

Add(id, v) ==
    /\ id \notin Known
    /\ Cardinality(Known) < MaxParams
    /\ values' = [values EXCEPT ![id] = v]

Save ==
    /\ values' \in [Ids -> Texts \cup {Absent}]
    /\ \A id \in Ids : values'[id] = Absent <=> values[id] = Absent

Next == Save \/ \E id \in Ids, v \in Texts : Add(id, v)

Spec == Init /\ [][Next]_values
=============================================================================
