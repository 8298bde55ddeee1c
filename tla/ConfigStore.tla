---------------------------- MODULE ConfigStore -----------------------------
(***************************************************************************)
(* What the configuration promises its readers: every query is answered in *)
(* one piece, with the parameter of the first domain of that name, with    *)
(* what is missing, or, if the storage fails, with an error.  A store that *)
(* could not be opened never gives a value.                                *)
(***************************************************************************)
EXTENDS ConfigData

VARIABLES
    asked,      \* the query of each client that is not answered yet
    answer      \* the answer to each client, until it has taken it

storeVars == <<domains, store, asked, answer>>

Failure(e) == [ret |-> e, value |-> NoValue]
NoAnswer   == Failure("none")

Named(q) == {i \in DOMAIN domains : domains[i].name = initializeName(q.domain)}
First(q) == CHOOSE i \in Named(q) : \A j \in Named(q) : i <= j

\* The answer of a store that works.
Contained(q) ==
    LET value == ValueAt(First(q), initializeName(q.name))
    IN  IF Named(q) = {} THEN Failure("DOMAIN_NOT_FOUND")
        ELSE IF value.size = Absent THEN Failure("PARAMETER_NOT_FOUND")
        ELSE IF value.size > q.room THEN Failure("VALUE_ERROR")
        ELSE [ret |-> "SUCCESS", value |-> value]

\* The answers a query may get.
Answers(q) ==
    {a \in {Contained(q)} : store = "open"}
    \union {a \in {Failure(e) : e \in Errors} : store = "broken" \/ StorageFails}

Open ==
    /\ store = "closed"
    /\ store' \in {"open", "broken"}
    /\ UNCHANGED <<domains, asked, answer>>

Ask(c) ==
    /\ asked[c] = NoQuery /\ answer[c] = NoAnswer
    /\ asked'[c] \in Query
    /\ asked' = [asked EXCEPT ![c] = asked'[c]]
    /\ UNCHANGED <<domains, store, answer>>

Reply(c) ==
    /\ asked[c] # NoQuery /\ store # "closed"
    /\ \E a \in Answers(asked[c]) : answer' = [answer EXCEPT ![c] = a]
    /\ asked' = [asked EXCEPT ![c] = NoQuery]
    /\ UNCHANGED <<domains, store>>

TakeAnswer(c) ==
    /\ answer[c] # NoAnswer
    /\ answer' = [answer EXCEPT ![c] = NoAnswer]
    /\ UNCHANGED <<domains, store, asked>>

StoreInit ==
    /\ domains \in Contents /\ store = "closed"
    /\ asked = [c \in Clients |-> NoQuery]
    /\ answer = [c \in Clients |-> NoAnswer]

StoreNext == Open \/ \E c \in Clients : Ask(c) \/ Reply(c) \/ TakeAnswer(c)

StoreSpec == StoreInit /\ [][StoreNext]_storeVars
=============================================================================
