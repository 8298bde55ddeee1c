----------------------------- MODULE ConfigData -----------------------------
(***************************************************************************)
(* The configuration as it is stored, and the queries of its readers.      *)
(***************************************************************************)
EXTENDS Integers, Sequences

CONSTANTS
    Clients,        \* components that read the configuration
    Names,          \* names of domains and parameters
    Kept,           \* what fits the name buffers of a query, for every name
    Contents,       \* what may be stored
    StorageFails    \* a call to the open ConfigServer may return an error

\* A domain has a name and the sizes of its parameters, Absent where it has none.
Absent == -1
Domain == [name : Names, sizes : [Names -> Nat \union {Absent}]]

\* No name is empty, and a name that was cut is not cut again.
ASSUME NamesAssumption ==
    /\ "" \notin Names
    /\ Kept \in [Names -> Names] /\ \A n \in Names : Kept[Kept[n]] = Kept[n]
ASSUME ContentsAssumption == Contents \subseteq Seq(Domain)
ASSUME StorageAssumption  == StorageFails \in BOOLEAN

VARIABLES
    domains,    \* the stored domains, in the order of the files
    store       \* the ConfigServer: "closed" to calls, then "open" or "broken"

\* What a reader asks for, and the room it has for the value.
Query   == [domain : Names, name : Names, room : Nat]
NoQuery == [domain |-> "", name |-> "", room |-> 0]

\* A value is told from others by the place it is stored at.
Value   == [place : Nat, name : Names, size : Nat]
NoValue == [place |-> 0, name |-> "", size |-> 0]

Errors == {"DOMAIN_NOT_FOUND", "PARAMETER_NOT_FOUND", "VALUE_ERROR"}

\* memset and strncpy of at most bufSize - 1 bytes.
initializeName(name) == Kept[name]

ValueAt(i, name) == [place |-> i, name |-> name, size |-> domains[i].sizes[name]]
=============================================================================
