---------------------------- MODULE ConfigAccess ----------------------------
(***************************************************************************)
(* helper_func.c: how a component reads a parameter.  Every client walks   *)
(* through the domains with an enumerator of its own, and each step is a   *)
(* call of the ConfigServer, so the searches of several clients interleave.*)
(* The library and the files behind the calls are external.                *)
(***************************************************************************)
EXTENDS ConfigData

VARIABLES
    at,             \* position of each client in its lookup; "idle" outside
    wanted,         \* the arguments of the lookup
    enumerator,     \* the domain the client's enumerator points at
    ret,            \* its result, "none" before the end
    buffer          \* the value the lookup copied

accessVars == <<at, wanted, enumerator, ret, buffer>>
configVars == <<domains, store, accessVars>>

-----------------------------------------------------------------------------
\* A call reaches the ConfigServer once its post_init is over.
Served(c, position) == at[c] = position /\ store # "closed"

CallFails == store = "broken" \/ StorageFails

ReturnError(c, e) ==
    /\ at' = [at EXCEPT ![c] = "returned"]
    /\ ret' = [ret EXCEPT ![c] = e]

\* helper_func_getConfigParameter, up to its first call: the names are copied
\* and the enumerator is set to the first domain.
GetConfigParameter(c, q) ==
    /\ at[c] = "idle"
    /\ at' = [at EXCEPT ![c] = "domain"]
    /\ wanted' = [wanted EXCEPT ![c] = q]
    /\ enumerator' = [enumerator EXCEPT ![c] = 1]
    /\ UNCHANGED <<ret, buffer>>

\* OS_ConfigService_domainEnumeratorGetElement, and the comparison of the name.
FindDomain(c) ==
    /\ Served(c, "domain")
    /\ store = "open" /\ enumerator[c] \in DOMAIN domains
    /\ at' = [at EXCEPT ![c] =
                 IF domains[enumerator[c]].name = initializeName(wanted[c].domain)
                   THEN "element" ELSE "increment"]
    /\ UNCHANGED <<wanted, enumerator, ret, buffer>>

\* Mutant: the enumerator is incremented twice.
Mut_IncrementTwice(c) ==
    /\ Served(c, "increment")
    /\ store = "open"
    /\ at' = [at EXCEPT ![c] = "domain"]
    /\ enumerator' = [enumerator EXCEPT ![c] = @ + 2]
    /\ UNCHANGED <<wanted, ret, buffer>>

\* OS_ConfigService_domainEnumeratorIncrement
NextDomain(c) ==
    /\ Served(c, "increment")
    /\ store = "open"
    /\ at' = [at EXCEPT ![c] = "domain"]
    /\ enumerator' = [enumerator EXCEPT ![c] = @ + 1]
    /\ UNCHANGED <<wanted, ret, buffer>>

\* Mutant: the end of the domains is taken for the domain that was wanted.
Mut_LastDomainTaken(c) ==
    /\ Served(c, "domain") \/ Served(c, "increment")
    /\ CallFails \/ (at[c] = "domain" /\ enumerator[c] \notin DOMAIN domains)
    /\ IF enumerator[c] \in DOMAIN domains THEN ReturnError(c, "DOMAIN_NOT_FOUND")
       ELSE at' = [at EXCEPT ![c] = "returned"] /\ ret' = [ret EXCEPT ![c] = "SUCCESS"]
    /\ UNCHANGED <<wanted, enumerator, buffer>>

\* Behind the last domain, and when a call fails, the result is the same: the
\* caller of find_domain replaces every error by DOMAIN_NOT_FOUND.
NoSuchDomain(c) ==
    /\ Served(c, "domain") \/ Served(c, "increment")
    /\ CallFails \/ (at[c] = "domain" /\ enumerator[c] \notin DOMAIN domains)
    /\ ReturnError(c, "DOMAIN_NOT_FOUND")
    /\ UNCHANGED <<wanted, enumerator, buffer>>

\* Where the parameter is stored, if the domain found has it.
Place(c) == ValueAt(enumerator[c], initializeName(wanted[c].name))

\* OS_ConfigService_domainGetElement
GetElement(c) ==
    /\ Served(c, "element")
    /\ \/ /\ store = "open" /\ Place(c).size # Absent
          /\ at' = [at EXCEPT ![c] = "value"]
          /\ UNCHANGED ret
       \/ /\ CallFails \/ Place(c).size = Absent
          /\ ReturnError(c, "PARAMETER_NOT_FOUND")
    /\ UNCHANGED <<wanted, enumerator, buffer>>

\* Mutant: the room of the caller's buffer is not passed on.
Mut_RoomIgnored(c) ==
    /\ Served(c, "value")
    /\ store = "open"
    /\ at' = [at EXCEPT ![c] = "returned"] /\ ret' = [ret EXCEPT ![c] = "SUCCESS"]
    /\ buffer' = [buffer EXCEPT ![c] = Place(c)]
    /\ UNCHANGED <<wanted, enumerator>>

\* OS_ConfigService_parameterGetValue
GetValue(c) ==
    /\ Served(c, "value")
    /\ \/ /\ store = "open" /\ Place(c).size <= wanted[c].room
          /\ at' = [at EXCEPT ![c] = "returned"]
          /\ ret' = [ret EXCEPT ![c] = "SUCCESS"]
          /\ buffer' = [buffer EXCEPT ![c] = Place(c)]
       \/ /\ CallFails \/ Place(c).size > wanted[c].room
          /\ ReturnError(c, "VALUE_ERROR")
          /\ UNCHANGED buffer
    /\ UNCHANGED <<wanted, enumerator>>

\* A step inside a lookup.
LookupStep(c) ==
    /\ FindDomain(c) \/ NextDomain(c) \/ NoSuchDomain(c) \/ GetElement(c) \/ GetValue(c)
    /\ UNCHANGED <<domains, store>>

\* The caller has the result and the value; what else was used are locals.
Take(c, result) ==
    /\ at[c] = "returned" /\ (ret[c] = "SUCCESS") = result
    /\ at' = [at EXCEPT ![c] = "idle"]
    /\ wanted' = [wanted EXCEPT ![c] = NoQuery]
    /\ enumerator' = [enumerator EXCEPT ![c] = 0]
    /\ ret' = [ret EXCEPT ![c] = "none"]
    /\ buffer' = [buffer EXCEPT ![c] = NoValue]

AccessInit ==
    /\ domains \in Contents /\ store = "closed"
    /\ at = [c \in Clients |-> "idle"]
    /\ wanted = [c \in Clients |-> NoQuery]
    /\ enumerator = [c \in Clients |-> 0]
    /\ ret = [c \in Clients |-> "none"]
    /\ buffer = [c \in Clients |-> NoValue]

-----------------------------------------------------------------------------
AccessTypeOK ==
    /\ domains \in Contents
    /\ store \in {"closed", "open", "broken"}
    /\ at \in [Clients -> {"idle", "domain", "increment", "element", "value", "returned"}]
    /\ wanted \in [Clients -> Query \union {NoQuery}]
    /\ enumerator \in [Clients -> Nat]
    /\ ret \in [Clients -> {"none", "SUCCESS"} \union Errors]
    /\ buffer \in [Clients -> Value \union {NoValue}]

(* What the readers are promised (ConfigStore): a lookup of several calls   *)
(* is answered as if it were one, with the parameter of the first domain    *)
(* that has the name, whatever the other clients do meanwhile.              *)
Store == INSTANCE ConfigStore WITH
    asked  <- [c \in Clients |-> IF at[c] \in {"idle", "returned"} THEN NoQuery ELSE wanted[c]],
    answer <- [c \in Clients |-> [ret |-> ret[c], value |-> buffer[c]]]

ConfigPromise == Store!StoreSpec
=============================================================================
