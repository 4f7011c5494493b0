--------------------------- MODULE ObjectRegistry ---------------------------
(***************************************************************************)
(* What the object store promises to its callers, without files, temp      *)
(* files or refs: a register per object id that is installed at most once, *)
(* and reports that are only made of installed objects.                    *)
(***************************************************************************)
CONSTANTS
    Keys,       \* object ids
    Values,     \* [Keys -> the objects that may be installed under the id]
    Vacant      \* nothing installed

VARIABLES
    installed,  \* [Keys -> the object installed under the id, or Vacant]
    reported    \* the <<id, object>> pairs reported as written

RegistryInit ==
    /\ installed = [k \in Keys |-> Vacant]
    /\ reported = {}

(* An authentic object is installed under a vacant id. *)
Install(k, v) ==
    /\ installed[k] = Vacant
    /\ installed' = [installed EXCEPT ![k] = v]
    /\ UNCHANGED reported

(* A writer learns that its object is the installed one. *)
Report(k) ==
    /\ installed[k] # Vacant
    /\ reported' = reported \cup {<<k, installed[k]>>}
    /\ UNCHANGED installed

RegistryNext ==
    \E k \in Keys : Report(k) \/ \E v \in Values[k] : Install(k, v)

RegistrySpec == RegistryInit /\ [][RegistryNext]_<<installed, reported>>
=============================================================================
