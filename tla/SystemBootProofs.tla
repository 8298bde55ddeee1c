-------------------------- MODULE SystemBootProofs --------------------------
(***************************************************************************)
(* Proofs about the start of the system, for every stored configuration    *)
(* and whatever fails: an interleaved lookup is answered as if it were one *)
(* step, and what the components do with the answers.                      *)
(***************************************************************************)
EXTENDS SystemBoot, TLAPS

-----------------------------------------------------------------------------
\* The inductive invariant, in parts.

\* The domain i has the name the client c looks for.
Matches(c, i) == domains[i].name = initializeName(wanted[c].domain)

\* The loop of find_domain: what it has passed is of another name.
SearchInv(c) ==
    at[c] \in {"domain", "increment"} =>
        /\ enumerator[c] \in Nat \ {0}
        /\ \A i \in DOMAIN domains : i < enumerator[c] => ~Matches(c, i)
        /\ at[c] = "increment" => enumerator[c] \in DOMAIN domains /\ ~Matches(c, enumerator[c])

\* It stops at the first domain of that name.
FoundInv(c) ==
    at[c] \in {"element", "value"} =>
        /\ store = "open"
        /\ enumerator[c] \in DOMAIN domains /\ Matches(c, enumerator[c])
        /\ \A i \in DOMAIN domains : i < enumerator[c] => ~Matches(c, i)
        /\ at[c] = "value" => Place(c).size # Absent

\* The result is one the abstract store may give.
ResultInv(c) ==
    IF at[c] = "returned"
    THEN store # "closed" /\ [ret |-> ret[c], value |-> buffer[c]] \in Store!Answers(wanted[c])
    ELSE ret[c] = "none" /\ buffer[c] = NoValue

\* A lookup belongs to the next query of its component.
CallerInv(c) ==
    IF at[c] = "idle" THEN wanted[c] = NoQuery
    ELSE stage[c] = "reading" /\ wanted[c] = Queries(c)[Len(held[c]) + 1]

LookupInv == \A c \in Clients : SearchInv(c) /\ FoundInv(c) /\ ResultInv(c) /\ CallerInv(c)

\* How far a component is tells how much it has read.
StageInv ==
    \A c \in Clients :
        /\ stage[c] \in {"start", "reading"} => Len(held[c]) < Len(Queries(c))
        /\ stage[c] \in {"configured", "calling", "done", "faulted"} => Len(held[c]) = Len(Queries(c))

\* The ConfigServer is closed until its post_init is over.
ClosedInv == configServer # "serving" => store = "closed"

\* What the stack, the CloudConnector and the sensor wait for.
OrderInv ==
    /\ nwStack # "waiting" =>
           /\ stage["nwStackConfigurator"] = "done"
           /\ stackAddr = held["nwStackConfigurator"]
    /\ stage["cloudConnector"] = "done" => nwStack = "running"
    /\ sem = 1 => stage["cloudConnector"] = "done"
    /\ stage["sensorTemp"] = "done" => sem = 1

BootInv ==
    /\ BootTypeOK /\ LookupInv /\ StageInv /\ ClosedInv /\ OrderInv
    /\ OwnValues /\ MessageFits

-----------------------------------------------------------------------------
\* The queries and the stored domains.

LEMMA QueryFacts ==
    ASSUME NEW c \in Clients
    PROVE  /\ Len(Queries(c)) \in Nat /\ Len(Queries(c)) > 0
           /\ \A i \in 1..Len(Queries(c)) : Queries(c)[i] \in Query /\ Queries(c)[i] # NoQuery
<1>1. Len(Queries(c)) \in 1..6
  BY ClientsAssumption DEF Queries
<1>2. \A i \in 1..Len(Queries(c)) : Queries(c)[i] \in Query
  BY QueriesAssumption
<1>3. NoQuery \notin Query BY NamesAssumption DEF NoQuery, Query
<1>4. QED BY <1>1, <1>2, <1>3

\* A reader that is reading has a query left.
LEMMA NextQuery ==
    ASSUME NEW c \in Clients, BootTypeOK, StageInv, stage[c] = "reading"
    PROVE  /\ Len(held[c]) + 1 \in 1..Len(Queries(c))
           /\ Queries(c)[Len(held[c]) + 1] \in Query
<1>1. Len(held[c]) \in Nat BY DEF BootTypeOK
<1>2. Len(Queries(c)) \in Nat BY QueryFacts
<1>3. Len(held[c]) < Len(Queries(c)) BY DEF StageInv
<1>4. Len(held[c]) + 1 \in 1..Len(Queries(c)) BY <1>1, <1>2, <1>3
<1>5. QED BY <1>4, QueryFacts

LEMMA DomainsFacts ==
    ASSUME AccessTypeOK
    PROVE  /\ domains \in Seq(Domain) /\ DOMAIN domains = 1..Len(domains)
           /\ \A i \in DOMAIN domains : domains[i] \in Domain
  BY ContentsAssumption DEF AccessTypeOK

\* A value that is there has a size.
LEMMA ValueAtType ==
    ASSUME AccessTypeOK, NEW i \in DOMAIN domains, NEW name \in Names,
           ValueAt(i, name).size # Absent
    PROVE  ValueAt(i, name) \in Value
  BY DomainsFacts DEF ValueAt, Value, Domain

\* The first of the domains of a name, by what the loop knows of it.
LEMMA FirstIsFirst ==
    ASSUME AccessTypeOK, NEW q, NEW i \in DOMAIN domains,
           domains[i].name = initializeName(q.domain),
           \A j \in DOMAIN domains : j < i => domains[j].name # initializeName(q.domain)
    PROVE  i \in Store!Named(q) /\ Store!First(q) = i
<1>1. i \in Store!Named(q) BY DEF Store!Named, Store!initializeName, initializeName
<1>2. Store!Named(q) \subseteq Nat /\ i \in Nat BY DomainsFacts DEF Store!Named
<1>3. \A j \in Store!Named(q) : i <= j
  BY <1>2, DomainsFacts DEF Store!Named, Store!initializeName, initializeName
<1>4. Store!First(q) \in Store!Named(q) /\ \A j \in Store!Named(q) : Store!First(q) <= j
  BY <1>1, <1>3 DEF Store!First
<1>5. Store!First(q) = i BY <1>1, <1>2, <1>3, <1>4
<1>6. QED BY <1>1, <1>5

\* The stored domains do not change, and an open store stays open.
LEMMA ContainedSame ==
    ASSUME domains' = domains, NEW q PROVE Store!Contained(q)' = Store!Contained(q)
<1>1. Store!Named(q)' = Store!Named(q) BY DEF Store!Named
<1>2. Store!First(q)' = Store!First(q) BY <1>1 DEF Store!First
<1>3. QED BY <1>1, <1>2 DEF Store!Contained, Store!Failure, Store!ValueAt, ValueAt

LEMMA AnswersSame ==
    ASSUME domains' = domains, store' = store, NEW q PROVE Store!Answers(q)' = Store!Answers(q)
  BY ContainedSame DEF Store!Answers, Store!Failure

\* A step that leaves a client alone keeps its part of the invariant.
LookupSame(c) ==
    /\ at'[c] = at[c] /\ wanted'[c] = wanted[c] /\ enumerator'[c] = enumerator[c]
    /\ ret'[c] = ret[c] /\ buffer'[c] = buffer[c]
    /\ stage'[c] = stage[c] /\ held'[c] = held[c]

LEMMA LookupFrame ==
    ASSUME NEW c \in Clients, LookupInv, domains' = domains, LookupSame(c),
           store' = store \/ store = "closed"
    PROVE  SearchInv(c)' /\ FoundInv(c)' /\ ResultInv(c)' /\ CallerInv(c)'
<1> USE DEF LookupInv, LookupSame
<1>1. SearchInv(c)' BY DEF SearchInv, Matches
<1>2. FoundInv(c)' BY DEF FoundInv, Matches, Place, ValueAt
<1>3. ResultInv(c)' BY AnswersSame DEF ResultInv
<1>4. CallerInv(c)' BY DEF CallerInv
<1>5. QED BY <1>1, <1>2, <1>3, <1>4

\* The values read so far stay what they are.
LEMMA OwnValuesFrame ==
    ASSUME OwnValues, domains' = domains, UNCHANGED held, store' = store \/ store = "closed"
    PROVE  OwnValues'
  BY ContainedSame DEF OwnValues

-----------------------------------------------------------------------------
\* LogServer and ConfigServer

LEMMA LogServerInv == ASSUME BootInv, LogServer PROVE BootInv'
<1> USE DEF BootInv
<1>1. /\ UNCHANGED <<configServer, configVars, clientVars>>
      /\ logServer' \in {"init", "mount", "free", "chain", "serving"}
      /\ logFs' \in {"none", "initialized", "mounted"} /\ chain' \in BOOLEAN
  BY DEF LogServer, FileSystemInit, FileSystemMount, FileSystemFree, SetUpChain, BootTypeOK
<1> USE DEF configVars, accessVars, clientVars
<1>2. BootTypeOK' BY <1>1 DEF BootTypeOK, AccessTypeOK
<1>3. LookupInv' BY <1>1, LookupFrame DEF LookupInv, LookupSame
<1>4. StageInv' /\ ClosedInv' /\ OrderInv' /\ MessageFits'
  BY <1>1 DEF StageInv, ClosedInv, OrderInv, MessageFits, Terminated
<1>5. OwnValues' BY <1>1, OwnValuesFrame
<1>6. QED BY <1>2, <1>3, <1>4, <1>5

\* A step of the ConfigServer opens a closed store or leaves it alone.
LEMMA ConfigServerStep ==
    ASSUME BootInv, ConfigServer
    PROVE  /\ UNCHANGED <<domains, accessVars, logServer, logFs, chain, clientVars>>
           /\ configServer' \in {"init", "mount", "lib", "serving"} \union {Files[i] : i \in 1..4}
           /\ store = "closed"
           /\ \/ configServer' # "serving" /\ store' = store
              \/ configServer' = "serving" /\ store' \in {"open", "broken"}
<1> USE DEF BootInv, ClosedInv
<1>1. CASE ConfigServerStarts
  BY <1>1 DEF ConfigServerStarts
<1>2. CASE InitSystemConfigBackend
  <2>1. PICK from \in {"init", "mount", Files[1], Files[2], Files[3], Files[4]},
             to \in {"mount", Files[1], Files[2], Files[3], Files[4], "lib"} :
          from = configServer /\ \E operation \in Operations : BackendStep(from, operation, to)
    BY <1>2 DEF InitSystemConfigBackend, BackendStep, Operations
  <2>2. from # "serving" /\ to # "serving" BY <2>1 DEF Files
  <2>3. QED BY <2>1, <2>2 DEF BackendStep, Broken
<1>3. CASE LibInit
  BY <1>3 DEF LibInit, Broken
<1>4. QED BY <1>1, <1>2, <1>3 DEF ConfigServer

LEMMA ConfigServerInv == ASSUME BootInv, ConfigServer PROVE BootInv'
<1> USE DEF BootInv
<1>1. /\ UNCHANGED <<domains, accessVars, logServer, logFs, chain, clientVars>>
      /\ configServer' \in {"init", "mount", "lib", "serving"} \union {Files[i] : i \in 1..4}
      /\ store = "closed" /\ store' \in {"closed", "open", "broken"}
      /\ configServer' # "serving" => store' = store
  BY ConfigServerStep
<1> USE DEF accessVars, clientVars
<1>2. BootTypeOK' BY <1>1 DEF BootTypeOK, AccessTypeOK
<1>3. LookupInv' BY <1>1, LookupFrame DEF LookupInv, LookupSame
<1>4. StageInv' /\ ClosedInv' /\ OrderInv' /\ MessageFits'
  BY <1>1 DEF StageInv, ClosedInv, OrderInv, MessageFits, Terminated
<1>5. OwnValues' BY <1>1, OwnValuesFrame
<1>6. QED BY <1>2, <1>3, <1>4, <1>5

-----------------------------------------------------------------------------
\* The steps of a lookup, for the client that makes them.

LEMMA FindDomainInv ==
    ASSUME NEW c \in Clients, BootInv, FindDomain(c), UNCHANGED <<domains, store, stage, held>>
    PROVE  AccessTypeOK' /\ SearchInv(c)' /\ FoundInv(c)' /\ ResultInv(c)' /\ CallerInv(c)'
<1> USE DEF BootInv, LookupInv, FindDomain, Served
<1>1. AccessTypeOK BY DEF BootTypeOK
<1>2. /\ at[c] = "domain" /\ at'[c] \in {"element", "increment"}
      /\ at'[c] = "element" <=> Matches(c, enumerator[c])
      /\ UNCHANGED <<wanted, enumerator, ret, buffer, domains, store, stage, held>>
  BY <1>1 DEF AccessTypeOK, Matches
<1>3. AccessTypeOK' BY <1>1 DEF AccessTypeOK
<1>4. SearchInv(c)' BY <1>2 DEF SearchInv, Matches
<1>5. FoundInv(c)' BY <1>2 DEF FoundInv, SearchInv, Matches
<1>6. ResultInv(c)' BY <1>2 DEF ResultInv
<1>7. CallerInv(c)' BY <1>2 DEF CallerInv
<1>8. QED BY <1>3, <1>4, <1>5, <1>6, <1>7

LEMMA NextDomainInv ==
    ASSUME NEW c \in Clients, BootInv, NextDomain(c), UNCHANGED <<domains, store, stage, held>>
    PROVE  AccessTypeOK' /\ SearchInv(c)' /\ FoundInv(c)' /\ ResultInv(c)' /\ CallerInv(c)'
<1> USE DEF BootInv, LookupInv, NextDomain, Served
<1>1. AccessTypeOK BY DEF BootTypeOK
<1>2. /\ at[c] = "increment" /\ at'[c] = "domain" /\ enumerator'[c] = enumerator[c] + 1
      /\ enumerator[c] \in Nat
      /\ UNCHANGED <<wanted, ret, buffer, domains, store, stage, held>>
  BY <1>1 DEF AccessTypeOK
<1>3. AccessTypeOK'
  <2>1. enumerator' \in [Clients -> Nat] BY <1>1 DEF AccessTypeOK
  <2>2. QED BY <1>1, <2>1 DEF AccessTypeOK
<1>4. SearchInv(c)'
  <2>1. \A i \in DOMAIN domains : i < enumerator'[c] => i < enumerator[c] \/ i = enumerator[c]
    BY <1>1, <1>2, DomainsFacts
  <2>2. \A i \in DOMAIN domains : i < enumerator'[c] => ~Matches(c, i)
    BY <1>2, <2>1 DEF SearchInv
  <2>3. QED BY <1>2, <2>2 DEF SearchInv, Matches
<1>5. FoundInv(c)' BY <1>2 DEF FoundInv
<1>6. ResultInv(c)' BY <1>2 DEF ResultInv
<1>7. CallerInv(c)' BY <1>2 DEF CallerInv
<1>8. QED BY <1>3, <1>4, <1>5, <1>6, <1>7

\* A lookup that ends with an error of the storage.
LEMMA FailureIsAnswer ==
    ASSUME NEW q, NEW e \in Errors, store # "closed", AccessTypeOK,
           CallFails \/ Store!Contained(q) = Store!Failure(e)
    PROVE  Store!Failure(e) \in Store!Answers(q)
<1>1. store \in {"open", "broken"} BY DEF AccessTypeOK
<1>2. CASE CallFails BY <1>2 DEF CallFails, Store!Answers, Store!Errors, Errors
<1>3. CASE ~CallFails
  BY <1>1, <1>3 DEF CallFails, Store!Answers, Store!Failure
<1>4. QED BY <1>2, <1>3

\* What a lookup knows of the answer when it ends.
LEMMA AnswerOfSearch ==
    ASSUME NEW c \in Clients, AccessTypeOK, SearchInv(c), at[c] = "domain",
           enumerator[c] \notin DOMAIN domains
    PROVE  Store!Contained(wanted[c]) = Store!Failure("DOMAIN_NOT_FOUND")
<1>1. \A i \in DOMAIN domains : i < enumerator[c]
  BY DomainsFacts DEF SearchInv
<1>2. Store!Named(wanted[c]) = {}
  BY <1>1 DEF SearchInv, Matches, Store!Named, Store!initializeName, initializeName
<1>3. QED BY <1>2 DEF Store!Contained

LEMMA AnswerOfFound ==
    ASSUME NEW c \in Clients, AccessTypeOK, FoundInv(c), at[c] \in {"element", "value"}
    PROVE  Store!Contained(wanted[c]) =
             IF Place(c).size = Absent THEN Store!Failure("PARAMETER_NOT_FOUND")
             ELSE IF Place(c).size > wanted[c].room THEN Store!Failure("VALUE_ERROR")
             ELSE [ret |-> "SUCCESS", value |-> Place(c)]
<1>1. enumerator[c] \in Store!Named(wanted[c]) /\ Store!First(wanted[c]) = enumerator[c]
  BY FirstIsFirst DEF FoundInv, Matches
<1>2. Store!ValueAt(Store!First(wanted[c]), Store!initializeName(wanted[c].name)) = Place(c)
  BY <1>1 DEF Store!ValueAt, Store!initializeName, Place, ValueAt, initializeName
<1>3. QED BY <1>1, <1>2 DEF Store!Contained, Store!Absent, Absent

\* An error return keeps the types and hands over an answer of the store.
LEMMA ReturnErrorInv ==
    ASSUME NEW c \in Clients, BootInv, NEW e \in Errors, ReturnError(c, e),
           at[c] \notin {"idle", "returned"}, store # "closed",
           CallFails \/ Store!Contained(wanted[c]) = Store!Failure(e),
           UNCHANGED <<domains, store, wanted, enumerator, buffer, stage, held>>
    PROVE  AccessTypeOK' /\ SearchInv(c)' /\ FoundInv(c)' /\ ResultInv(c)' /\ CallerInv(c)'
<1> USE DEF BootInv, LookupInv
<1>1. AccessTypeOK BY DEF BootTypeOK
<1>2. at'[c] = "returned" /\ ret'[c] = e BY <1>1 DEF ReturnError, AccessTypeOK
<1>3. AccessTypeOK' BY <1>1 DEF ReturnError, AccessTypeOK
<1>4. SearchInv(c)' /\ FoundInv(c)' BY <1>2 DEF SearchInv, FoundInv
<1>5. ResultInv(c)'
  <2>1. Store!Failure(e) \in Store!Answers(wanted[c]) BY <1>1, FailureIsAnswer
  <2>2. [ret |-> ret'[c], value |-> buffer'[c]] = Store!Failure(e)
    BY <1>2 DEF ResultInv, Store!Failure, Store!NoValue, NoValue
  <2>3. Store!Answers(wanted[c])' = Store!Answers(wanted[c]) BY AnswersSame
  <2>4. QED BY <1>2, <2>1, <2>2, <2>3 DEF ResultInv
<1>6. CallerInv(c)' BY <1>2 DEF CallerInv
<1>7. QED BY <1>3, <1>4, <1>5, <1>6

LEMMA NoSuchDomainInv ==
    ASSUME NEW c \in Clients, BootInv, NoSuchDomain(c), UNCHANGED <<domains, store, stage, held>>
    PROVE  AccessTypeOK' /\ SearchInv(c)' /\ FoundInv(c)' /\ ResultInv(c)' /\ CallerInv(c)'
<1>1. /\ ReturnError(c, "DOMAIN_NOT_FOUND") /\ "DOMAIN_NOT_FOUND" \in Errors
      /\ at[c] \notin {"idle", "returned"} /\ store # "closed"
      /\ UNCHANGED <<wanted, enumerator, buffer>>
  BY DEF NoSuchDomain, Served, Errors
<1>2. CallFails \/ Store!Contained(wanted[c]) = Store!Failure("DOMAIN_NOT_FOUND")
  BY AnswerOfSearch DEF NoSuchDomain, BootInv, BootTypeOK, LookupInv
<1>3. QED BY <1>1, <1>2, ReturnErrorInv

LEMMA GetElementInv ==
    ASSUME NEW c \in Clients, BootInv, GetElement(c), UNCHANGED <<domains, store, stage, held>>
    PROVE  AccessTypeOK' /\ SearchInv(c)' /\ FoundInv(c)' /\ ResultInv(c)' /\ CallerInv(c)'
<1>1. /\ at[c] = "element" /\ store # "closed" /\ UNCHANGED <<wanted, enumerator, buffer>>
      /\ AccessTypeOK
  BY DEF GetElement, Served, BootInv, BootTypeOK
<1>2. CASE ReturnError(c, "PARAMETER_NOT_FOUND") /\ (CallFails \/ Place(c).size = Absent)
  <2>1. CallFails \/ Store!Contained(wanted[c]) = Store!Failure("PARAMETER_NOT_FOUND")
    BY <1>1, <1>2, AnswerOfFound DEF BootInv, LookupInv
  <2>2. QED BY <1>1, <1>2, <2>1, ReturnErrorInv DEF Errors
<1>3. CASE /\ Place(c).size # Absent /\ ret' = ret
           /\ at' = [at EXCEPT ![c] = "value"]
  <2>1. at'[c] = "value" BY <1>1, <1>3 DEF AccessTypeOK
  <2>2. AccessTypeOK' BY <1>1, <1>3 DEF AccessTypeOK
  <2> USE DEF BootInv, LookupInv
  <2>3. SearchInv(c)' BY <2>1 DEF SearchInv
  <2>4. FoundInv(c)' BY <1>1, <1>3, <2>1 DEF FoundInv, Matches, Place, ValueAt
  <2>5. ResultInv(c)' BY <1>1, <1>3, <2>1 DEF ResultInv
  <2>6. CallerInv(c)' BY <1>1, <2>1 DEF CallerInv
  <2>7. QED BY <2>2, <2>3, <2>4, <2>5, <2>6
<1>4. QED BY <1>2, <1>3 DEF GetElement

LEMMA GetValueInv ==
    ASSUME NEW c \in Clients, BootInv, GetValue(c), UNCHANGED <<domains, store, stage, held>>
    PROVE  AccessTypeOK' /\ SearchInv(c)' /\ FoundInv(c)' /\ ResultInv(c)' /\ CallerInv(c)'
<1> USE DEF BootInv, LookupInv
<1>1. /\ at[c] = "value" /\ store # "closed" /\ UNCHANGED <<wanted, enumerator>>
      /\ AccessTypeOK
  BY DEF GetValue, Served, BootTypeOK
<1>2. /\ Store!Contained(wanted[c]) =
           IF Place(c).size > wanted[c].room THEN Store!Failure("VALUE_ERROR")
           ELSE [ret |-> "SUCCESS", value |-> Place(c)]
      /\ store = "open"
  BY <1>1, AnswerOfFound DEF FoundInv
<1>3. wanted[c] \in Query
  <2>1. Len(held[c]) + 1 \in 1..Len(Queries(c))
    BY <1>1, NextQuery, SMTT(30) DEF CallerInv
  <2>2. QED BY <1>1, <2>1, QueryFacts DEF CallerInv
<1>4. Place(c) \in Value
  <2>1. initializeName(wanted[c].name) \in Names
    BY <1>3, NamesAssumption DEF initializeName, Query
  <2>2. QED BY <1>1, <2>1, ValueAtType DEF FoundInv, Place
<1>5. CASE /\ ReturnError(c, "VALUE_ERROR") /\ UNCHANGED buffer
           /\ CallFails \/ Place(c).size > wanted[c].room
  <2>1. CallFails \/ Store!Contained(wanted[c]) = Store!Failure("VALUE_ERROR")
    BY <1>2, <1>5
  <2>2. QED BY <1>1, <1>5, <2>1, ReturnErrorInv DEF Errors
<1>6. CASE /\ Place(c).size <= wanted[c].room
           /\ at' = [at EXCEPT ![c] = "returned"]
           /\ ret' = [ret EXCEPT ![c] = "SUCCESS"]
           /\ buffer' = [buffer EXCEPT ![c] = Place(c)]
  <2>1. at'[c] = "returned" /\ ret'[c] = "SUCCESS" /\ buffer'[c] = Place(c)
    BY <1>1, <1>6 DEF AccessTypeOK
  <2>2. AccessTypeOK' BY <1>1, <1>4, <1>6 DEF AccessTypeOK
  <2>3. SearchInv(c)' /\ FoundInv(c)' BY <2>1 DEF SearchInv, FoundInv
  <2>4. ResultInv(c)'
    <3>1. ~(Place(c).size > wanted[c].room)
      BY <1>3, <1>4, <1>6 DEF Query, Value
    <3>2. [ret |-> "SUCCESS", value |-> Place(c)] \in Store!Answers(wanted[c])
      BY <1>2, <3>1 DEF Store!Answers
    <3>3. Store!Answers(wanted[c])' = Store!Answers(wanted[c]) BY <1>1, AnswersSame
    <3>4. QED BY <1>1, <2>1, <3>2, <3>3 DEF ResultInv
  <2>5. CallerInv(c)' BY <1>1, <2>1 DEF CallerInv
  <2>6. QED BY <2>2, <2>3, <2>4, <2>5
<1>7. QED BY <1>5, <1>6 DEF GetValue

-----------------------------------------------------------------------------
\* The readers.

LEMMA ReadsInv == ASSUME NEW c \in Clients, BootInv, Reads(c) PROVE BootInv'
<1> USE DEF BootInv
<1>1. /\ LookupStep(c) /\ stage[c] = "reading"
      /\ UNCHANGED <<domains, store, serverVars, clientVars>>
  BY DEF Reads, LookupStep
<1>2. UNCHANGED <<stage, held>> BY <1>1 DEF clientVars
<1>3. AccessTypeOK' /\ SearchInv(c)' /\ FoundInv(c)' /\ ResultInv(c)' /\ CallerInv(c)'
  BY <1>1, <1>2, FindDomainInv, NextDomainInv, NoSuchDomainInv, GetElementInv, GetValueInv
     DEF LookupStep
<1>4. \A d \in Clients \ {c} : LookupSame(d)
  BY <1>1, <1>2 DEF LookupStep, FindDomain, NextDomain, NoSuchDomain, GetElement, GetValue,
                    ReturnError, LookupSame, BootTypeOK, AccessTypeOK
<1>5. LookupInv' BY <1>1, <1>3, <1>4, LookupFrame DEF LookupInv
<1> USE DEF serverVars, clientVars
<1>6. BootTypeOK' BY <1>1, <1>3 DEF BootTypeOK
<1>7. StageInv' /\ ClosedInv' /\ OrderInv' /\ MessageFits'
  BY <1>1 DEF StageInv, ClosedInv, OrderInv, MessageFits, Terminated
<1>8. OwnValues' BY <1>1, OwnValuesFrame
<1>9. QED BY <1>5, <1>6, <1>7, <1>8

LEMMA AsksNextInv == ASSUME NEW c \in Clients, BootInv, AsksNext(c) PROVE BootInv'
<1> USE DEF BootInv
<1> DEFINE q == Queries(c)[Len(held[c]) + 1]
<1>1. /\ stage[c] = "reading" /\ GetConfigParameter(c, q)
      /\ UNCHANGED <<domains, store, serverVars, clientVars>>
  BY DEF AsksNext
<1>2. UNCHANGED <<stage, held>> BY <1>1 DEF clientVars
<1>3. Len(held[c]) + 1 \in 1..Len(Queries(c))
  BY <1>1, QueryFacts DEF StageInv, BootTypeOK
<1>4. q \in Query BY <1>3, QueryFacts
<1>5. AccessTypeOK BY DEF BootTypeOK
<1> HIDE DEF q
<1>6. /\ at[c] = "idle" /\ at'[c] = "domain" /\ wanted'[c] = q /\ enumerator'[c] = 1
      /\ ret'[c] = ret[c] /\ buffer'[c] = buffer[c]
  BY <1>1, <1>5 DEF GetConfigParameter, AccessTypeOK
<1>7. AccessTypeOK' BY <1>1, <1>4, <1>5 DEF GetConfigParameter, AccessTypeOK
<1>8. SearchInv(c)'
  <2>1. \A i \in DOMAIN domains : ~(i < 1) BY <1>5, DomainsFacts
  <2>2. QED BY <1>1, <1>6, <2>1 DEF SearchInv
<1>9. FoundInv(c)' BY <1>6 DEF FoundInv
<1>10. ResultInv(c)' BY <1>6 DEF ResultInv, LookupInv
<1>11. CallerInv(c)' BY <1>1, <1>2, <1>6 DEF CallerInv, q
<1>12. \A d \in Clients \ {c} : LookupSame(d)
  BY <1>1, <1>2, <1>5 DEF GetConfigParameter, LookupSame, AccessTypeOK
<1>13. LookupInv' BY <1>1, <1>8, <1>9, <1>10, <1>11, <1>12, LookupFrame DEF LookupInv
<1> USE DEF serverVars, clientVars
<1>14. BootTypeOK' BY <1>1, <1>7 DEF BootTypeOK
<1>15. StageInv' /\ ClosedInv' /\ OrderInv' /\ MessageFits'
  BY <1>1 DEF StageInv, ClosedInv, OrderInv, MessageFits, Terminated
<1>16. OwnValues' BY <1>1, OwnValuesFrame
<1>17. QED BY <1>13, <1>14, <1>15, <1>16

\* The lookup is over: what is left is a client without one.
LEMMA TakeInv ==
    ASSUME NEW c \in Clients, LookupInv, AccessTypeOK, NEW result \in BOOLEAN, Take(c, result),
           UNCHANGED <<domains, store>>,
           \A d \in Clients \ {c} : stage'[d] = stage[d] /\ held'[d] = held[d]
    PROVE  AccessTypeOK' /\ LookupInv'
<1> USE DEF Take
<1>1. /\ at'[c] = "idle" /\ wanted'[c] = NoQuery /\ ret'[c] = "none" /\ buffer'[c] = NoValue
  BY DEF AccessTypeOK
<1>2. AccessTypeOK' BY DEF AccessTypeOK
<1>3. SearchInv(c)' /\ FoundInv(c)' /\ ResultInv(c)' /\ CallerInv(c)'
  BY <1>1 DEF SearchInv, FoundInv, ResultInv, CallerInv
<1>4. \A d \in Clients \ {c} : LookupSame(d) BY DEF LookupSame, AccessTypeOK
<1>5. LookupInv' BY <1>3, <1>4, LookupFrame DEF LookupInv
<1>6. QED BY <1>2, <1>5

\* A successful lookup fits the room it was given.
LEMMA SuccessFits ==
    ASSUME NEW q \in Query, NEW v, Store!Contained(q) = [ret |-> "SUCCESS", value |-> v]
    PROVE  v.name = initializeName(q.name) /\ ~(v.size > q.room)
<1> DEFINE value == Store!ValueAt(Store!First(q), Store!initializeName(q.name))
<1>1. /\ ~(value.size > q.room)
      /\ Store!Contained(q) = [ret |-> "SUCCESS", value |-> value]
  BY DEF Store!Contained, Store!Failure
<1>2. v = value BY <1>1
<1>3. value.name = initializeName(q.name)
  BY DEF Store!ValueAt, Store!initializeName, initializeName
<1>4. QED BY <1>1, <1>2, <1>3

LEMMA RetrievedInv == ASSUME NEW c \in Clients, BootInv, Retrieved(c) PROVE BootInv'
<1> USE DEF BootInv
<1> DEFINE n == Len(held[c]) + 1
           q == Queries(c)[n]
<1>1. /\ stage[c] = "reading" /\ Take(c, TRUE)
      /\ held' = [held EXCEPT ![c] = Append(@, buffer[c])]
      /\ Moves(c, IF Len(held'[c]) = Len(Queries(c)) THEN "configured" ELSE "reading")
      /\ UNCHANGED <<domains, store, serverVars, nwStack, stackAddr, sem, len>>
  BY DEF Retrieved
<1>2. n \in 1..Len(Queries(c)) /\ q \in Query
  BY <1>1, NextQuery
<1>3. AccessTypeOK /\ held \in [Clients -> Seq(Value)] BY DEF BootTypeOK
<1>4. Store!Contained(q) = [ret |-> "SUCCESS", value |-> buffer[c]] /\ store = "open"
  <2>1. at[c] = "returned" /\ ret[c] = "SUCCESS" BY <1>1 DEF Take
  <2>2. [ret |-> "SUCCESS", value |-> buffer[c]] \in Store!Answers(q)
    BY <2>1 DEF LookupInv, ResultInv, CallerInv
  <2>3. \A e \in Store!Errors : Store!Failure(e) # [ret |-> "SUCCESS", value |-> buffer[c]]
    BY DEF Store!Failure, Store!Errors
  <2>4. QED BY <2>2, <2>3 DEF Store!Answers
<1>5. buffer[c] \in Value
  <2>1. buffer[c].name \in Names
    BY <1>2, <1>4, SuccessFits, NamesAssumption, ZenonT(40) DEF initializeName, Query
  <2>2. NoValue.name = "" BY DEF NoValue
  <2>3. QED BY <1>3, <2>1, <2>2, NamesAssumption DEF AccessTypeOK
<1>6. /\ held'[c] = Append(held[c], buffer[c]) /\ held' \in [Clients -> Seq(Value)]
      /\ Len(held'[c]) = n
      /\ \A d \in Clients \ {c} : held'[d] = held[d]
  BY <1>1, <1>3, <1>5
<1>7. /\ stage' \in [Clients -> Stages]
      /\ stage'[c] = IF n = Len(Queries(c)) THEN "configured" ELSE "reading"
      /\ \A d \in Clients \ {c} : stage'[d] = stage[d]
  BY <1>1, <1>6 DEF Moves, BootTypeOK, Stages
<1>8. AccessTypeOK' /\ LookupInv' BY <1>1, <1>3, <1>6, <1>7, TakeInv
<1> USE DEF serverVars
<1> HIDE DEF q
<1>9. BootTypeOK'
  <2>1. \A d \in Clients : Len(held'[d]) <= Len(Queries(d))
    <3>1. Len(held'[c]) <= Len(Queries(c)) BY <1>2, <1>6, QueryFacts
    <3>2. \A d \in Clients \ {c} : Len(held'[d]) <= Len(Queries(d)) BY <1>6 DEF BootTypeOK
    <3>3. QED BY <3>1, <3>2
  <2>2. QED BY <1>1, <1>6, <1>7, <1>8, <2>1 DEF BootTypeOK
<1>10. StageInv'
  <2> DEFINE m == Len(Queries(c))
  <2>1. m \in Nat BY QueryFacts
  <2>2. stage'[c] = (IF n = m THEN "configured" ELSE "reading") /\ Len(held'[c]) = n
    BY <1>6, <1>7
  <2>3. n \in 1..m BY <1>2
  <2> HIDE DEF m, n
  <2>4. /\ stage'[c] \in {"start", "reading"} => Len(held'[c]) < m
        /\ stage'[c] \in {"configured", "calling", "done", "faulted"} => Len(held'[c]) = m
    BY <2>1, <2>2, <2>3
  <2>5. \A d \in Clients \ {c} : stage'[d] = stage[d] /\ held'[d] = held[d] BY <1>6, <1>7
  <2> USE DEF m
  <2>6. StageInv BY DEF BootInv
  <2>7. QED BY <2>4, <2>5, <2>6, Zenon DEF StageInv
<1>11. ClosedInv' /\ MessageFits'
  <2> DEFINE s == "sensorTemp"
  <2>1. s \in Clients BY ClientsAssumption
  <2>2. \A i \in 1..Len(held[s]) : i \in 1..Len(held'[s]) /\ held'[s][i] = held[s][i]
    <3>1. CASE s = c BY <1>3, <1>5, <1>6, <3>1
    <3>2. CASE s # c BY <1>6, <2>1, <3>2
    <3>3. QED BY <3>1, <3>2
  <2>3. Terminated' => Terminated BY <2>2 DEF Terminated
  <2>4. QED BY <1>1, <2>3 DEF ClosedInv, MessageFits
<1>12. OrderInv' BY <1>1, <1>6, <1>7, ClientsAssumption DEF OrderInv
<1>13. OwnValues'
  <2> SUFFICES ASSUME NEW d \in Clients, NEW i \in 1..Len(held'[d])
               PROVE  /\ store = "open"
                      /\ Store!Contained(Queries(d)[i]) = [ret |-> "SUCCESS", value |-> held'[d][i]]
    BY <1>1, ContainedSame DEF OwnValues
  <2>1. CASE d = c /\ i = n BY <1>3, <1>4, <1>5, <1>6, <2>1 DEF q
  <2>2. CASE ~(d = c /\ i = n)
    <3>1. i \in 1..Len(held[d]) /\ held'[d][i] = held[d][i]
      BY <1>3, <1>5, <1>6, <2>2
    <3>2. QED BY <3>1 DEF OwnValues
  <2>3. QED BY <2>1, <2>2
<1>14. QED BY <1>8, <1>9, <1>10, <1>11, <1>12, <1>13

LEMMA NotRetrievedInv == ASSUME NEW c \in Clients, BootInv, NotRetrieved(c) PROVE BootInv'
<1> USE DEF BootInv
<1>1. /\ stage[c] = "reading" /\ Take(c, FALSE) /\ Moves(c, "failed")
      /\ UNCHANGED <<domains, store, serverVars, held, nwStack, stackAddr, sem, len>>
  BY DEF NotRetrieved
<1>2. /\ stage' \in [Clients -> Stages]
      /\ stage'[c] = "failed"
      /\ \A d \in Clients \ {c} : stage'[d] = stage[d]
  BY <1>1 DEF Moves, BootTypeOK, Stages
<1>3. AccessTypeOK' /\ LookupInv' BY <1>1, <1>2, TakeInv DEF BootTypeOK
<1> USE DEF serverVars
<1>4. BootTypeOK' BY <1>1, <1>2, <1>3 DEF BootTypeOK
<1>5. StageInv' /\ ClosedInv' /\ MessageFits'
  BY <1>1, <1>2 DEF StageInv, ClosedInv, MessageFits, Terminated
<1>6. OrderInv' BY <1>1, <1>2, ClientsAssumption DEF OrderInv
<1>7. OwnValues' BY <1>1, OwnValuesFrame
<1>8. QED BY <1>3, <1>4, <1>5, <1>6, <1>7

\* Outside its lookups a component moves on without touching them.
LEMMA MovesInv ==
    ASSUME BootInv, NEW c \in Clients, stage[c] # "reading",
           NEW s \in {"reading", "calling", "done", "failed", "faulted"}, Moves(c, s),
           s = "reading" => stage[c] = "start",
           s \in {"calling", "done", "faulted"} => stage[c] \in {"configured", "calling"},
           UNCHANGED <<configVars, serverVars, held>>
    PROVE  /\ AccessTypeOK' /\ LookupInv' /\ StageInv' /\ ClosedInv' /\ OwnValues'
           /\ stage' \in [Clients -> Stages]
           /\ stage'[c] = s /\ \A d \in Clients \ {c} : stage'[d] = stage[d]
<1> USE DEF BootInv, configVars, accessVars, serverVars
<1>1. /\ stage' \in [Clients -> Stages]
      /\ stage'[c] = s /\ \A d \in Clients \ {c} : stage'[d] = stage[d]
  BY DEF Moves, BootTypeOK, Stages
<1>2. AccessTypeOK' BY DEF BootTypeOK, AccessTypeOK
<1>3. LookupInv'
  <2>1. at[c] = "idle" BY DEF LookupInv, CallerInv
  <2>2. SearchInv(c)' /\ FoundInv(c)' BY <2>1 DEF SearchInv, FoundInv
  <2>3. ResultInv(c)' /\ CallerInv(c)' BY <2>1 DEF LookupInv, ResultInv, CallerInv
  <2>4. \A d \in Clients \ {c} : LookupSame(d) BY <1>1 DEF LookupSame
  <2>5. QED BY <2>2, <2>3, <2>4, LookupFrame DEF LookupInv
<1>4. StageInv' BY <1>1 DEF StageInv
<1>5. ClosedInv' BY DEF ClosedInv
<1>6. OwnValues' BY OwnValuesFrame
<1>7. QED BY <1>1, <1>2, <1>3, <1>4, <1>5, <1>6

LEMMA StartsInv == ASSUME NEW c \in Clients, BootInv, Starts(c) PROVE BootInv'
<1>1. PICK s \in {"reading", "failed"} : Moves(c, s) BY DEF Starts
<1>2. /\ stage[c] = "start"
      /\ UNCHANGED <<configVars, serverVars, held, nwStack, stackAddr, sem, len>>
  BY DEF Starts
<1>3. /\ AccessTypeOK' /\ LookupInv' /\ StageInv' /\ ClosedInv' /\ OwnValues'
      /\ stage' \in [Clients -> Stages]
      /\ stage'[c] = s /\ \A d \in Clients \ {c} : stage'[d] = stage[d]
  BY <1>1, <1>2, MovesInv
<1> USE DEF BootInv, serverVars
<1>4. BootTypeOK' BY <1>2, <1>3 DEF BootTypeOK
<1>5. OrderInv' BY <1>2, <1>3, ClientsAssumption DEF OrderInv
<1>6. MessageFits' BY <1>2 DEF MessageFits, Terminated
<1>7. QED BY <1>3, <1>4, <1>5, <1>6

LEMMA ReaderInv == ASSUME NEW c \in Clients, BootInv, Reader(c) PROVE BootInv'
  BY StartsInv, AsksNextInv, ReadsInv, RetrievedInv, NotRetrievedInv DEF Reader

-----------------------------------------------------------------------------
\* What the components do with what they have read.

LEMMA ConfigIpAddrInv == ASSUME BootInv, ConfigIpAddr PROVE BootInv'
<1> DEFINE c == "nwStackConfigurator"
<1>1. c \in Clients BY ClientsAssumption
<1>2. /\ stage[c] = "configured"
      /\ UNCHANGED <<configVars, serverVars, held, sem, len>>
  BY DEF ConfigIpAddr
<1>3. PICK s \in {"done", "failed"} :
        /\ Moves(c, s)
        /\ s = "done" => nwStack' = "configured" /\ stackAddr' = held[c]
        /\ s = "failed" => UNCHANGED <<nwStack, stackAddr>>
  BY DEF ConfigIpAddr
<1>4. /\ AccessTypeOK' /\ LookupInv' /\ StageInv' /\ ClosedInv' /\ OwnValues'
      /\ stage' \in [Clients -> Stages]
      /\ stage'[c] = s /\ \A d \in Clients \ {c} : stage'[d] = stage[d]
  BY <1>1, <1>2, <1>3, MovesInv
<1> USE DEF BootInv, serverVars
<1>5. nwStack = "waiting" /\ stage["cloudConnector"] # "done" BY <1>2 DEF OrderInv, BootTypeOK
<1>6. BootTypeOK' BY <1>1, <1>2, <1>3, <1>4 DEF BootTypeOK
<1>7. OrderInv' BY <1>2, <1>3, <1>4, <1>5, ClientsAssumption DEF OrderInv
<1>8. MessageFits' BY <1>2 DEF MessageFits, Terminated
<1>9. QED BY <1>4, <1>6, <1>7, <1>8

LEMMA StackStartsInv == ASSUME BootInv, StackStarts PROVE BootInv'
<1> USE DEF BootInv
<1>1. /\ nwStack = "configured" /\ nwStack' = "running"
      /\ UNCHANGED <<configVars, serverVars, stage, held, stackAddr, sem, len>>
  BY DEF StackStarts
<1> USE DEF configVars, accessVars, serverVars
<1>2. BootTypeOK' BY <1>1 DEF BootTypeOK, AccessTypeOK
<1>3. LookupInv' BY <1>1, LookupFrame DEF LookupInv, LookupSame
<1>4. StageInv' /\ ClosedInv' /\ OrderInv' /\ MessageFits'
  BY <1>1 DEF StageInv, ClosedInv, OrderInv, MessageFits, Terminated
<1>5. OwnValues' BY <1>1, OwnValuesFrame
<1>6. QED BY <1>2, <1>3, <1>4, <1>5

LEMMA ConnectsInv == ASSUME BootInv, Connects PROVE BootInv'
<1> DEFINE c == "cloudConnector"
<1>1. c \in Clients BY ClientsAssumption
<1>2. /\ stage[c] = "configured" /\ nwStack = "running"
      /\ UNCHANGED <<configVars, serverVars, held, nwStack, stackAddr, len>>
  BY DEF Connects
<1>3. PICK s \in {"done", "failed"} :
        /\ Moves(c, s)
        /\ s = "done" => sem' = 1
        /\ s = "failed" => sem' = sem
  BY DEF Connects
<1>4. /\ AccessTypeOK' /\ LookupInv' /\ StageInv' /\ ClosedInv' /\ OwnValues'
      /\ stage' \in [Clients -> Stages]
      /\ stage'[c] = s /\ \A d \in Clients \ {c} : stage'[d] = stage[d]
  BY <1>1, <1>2, <1>3, MovesInv
<1> USE DEF BootInv, serverVars
<1>5. BootTypeOK' BY <1>2, <1>3, <1>4 DEF BootTypeOK
<1>6. OrderInv' BY <1>2, <1>3, <1>4, ClientsAssumption DEF OrderInv
<1>7. MessageFits' BY <1>2 DEF MessageFits, Terminated
<1>8. QED BY <1>4, <1>5, <1>6, <1>7

\* The two values of the sensor fit their buffers, so the message fits its own.
LEMMA SensorValues ==
    ASSUME BootTypeOK, OwnValues, Len(held["sensorTemp"]) = Len(Queries("sensorTemp"))
    PROVE  \A i \in 1..2 : held["sensorTemp"][i].size \in 0..128
<1> DEFINE c == "sensorTemp"
<1>1. Queries(c) = <<Ask("Domain-Sensor", "MQTT_Payload", 128),
                     Ask("Domain-Sensor", "MQTT_Topic", 128)>>
  BY DEF Queries
<1>2. Len(Queries(c)) = 2 BY <1>1
<1>3. Queries(c)[1].room = 128 /\ Queries(c)[2].room = 128 BY <1>1 DEF Ask
<1>4. c \in Clients BY ClientsAssumption
<1>5. TAKE i \in 1..2
<1>6. Queries(c)[i] \in Query BY <1>2, <1>4, QueryFacts
<1>7. Store!Contained(Queries(c)[i]) = [ret |-> "SUCCESS", value |-> held[c][i]]
  BY <1>2, <1>4 DEF OwnValues
<1>8. Queries(c)[i].room = 128 BY <1>3
<1>9. ~(held[c][i].size > 128)
  <2>1. ~(held[c][i].size > Queries(c)[i].room) BY <1>6, <1>7, SuccessFits
  <2>2. QED BY <1>8, <2>1
<1>10. held[c][i].size \in Nat
  <2>1. held[c][i] \in Value BY <1>2, <1>4 DEF BootTypeOK
  <2>2. QED BY <2>1 DEF Value
<1> DEFINE size == held[c][i].size
<1> HIDE DEF size
<1>11. size \in 0..128
  <2>1. size \in Nat /\ ~(size > 128) BY <1>9, <1>10 DEF size
  <2>2. QED BY <2>1
<1>12. QED BY <1>11 DEF size

\* Values that end before their buffers do make a message that fits.
LEMMA SerializedFits ==
    ASSUME NEW p \in 0..127, NEW t \in 0..127 PROVE Serialized(p, t) \in 0..320
  BY DEF Serialized, MessageLength, Digits

LEMMA SerializeInv == ASSUME BootInv, Serialize PROVE BootInv'
<1> DEFINE c == "sensorTemp"
           s == IF len' < 0 THEN "faulted" ELSE "calling"
<1>1. c \in Clients BY ClientsAssumption
<1>2. PICK p \in StrLen(held[c][1]), t \in StrLen(held[c][2]) : len' = Serialized(p, t)
  BY DEF Serialize
<1>3. /\ stage[c] = "configured" /\ Moves(c, s)
      /\ UNCHANGED <<configVars, serverVars, held, nwStack, stackAddr, sem>>
  BY DEF Serialize
<1>4. /\ AccessTypeOK' /\ LookupInv' /\ StageInv' /\ ClosedInv' /\ OwnValues'
      /\ stage' \in [Clients -> Stages]
      /\ stage'[c] = s /\ \A d \in Clients \ {c} : stage'[d] = stage[d]
  BY <1>1, <1>3, MovesInv, SMTT(40)
<1>5. p \in Nat /\ t \in Nat BY LengthsAssumption DEF StrLen
<1>6. len' \in Int
  <2>1. Serialized(p, t) \in Int
    BY <1>5 DEF Serialized, MessageLength, Digits, BufferTooShort
  <2>2. QED BY <1>2, <2>1
<1>7. MessageFits'
  <2> SUFFICES ASSUME \A i \in 1..2 : held[c][i].size # 128 PROVE len' \in 0..320
    <3>1. Len(held[c]) = 2
      <4>1. Len(Queries(c)) = 2 BY DEF Queries
      <4>2. QED BY <1>1, <1>3, <4>1 DEF BootInv, StageInv
    <3>2. held' = held BY <1>3
    <3>3. QED BY <3>1, <3>2 DEF MessageFits, Terminated
  <2>1. \A i \in 1..2 : held[c][i].size \in 0..127
    <3>1. \A i \in 1..2 : held[c][i].size \in 0..128
      BY <1>1, <1>3, SensorValues DEF BootInv, StageInv
    <3>2. \A n \in 0..128 : n # 128 => n \in 0..127 OBVIOUS
    <3>3. QED BY <3>1, <3>2
  <2>2. p \in 0..127 /\ t \in 0..127
    <3> DEFINE m == held[c][1].size
               n == held[c][2].size
    <3>1. m \in 0..127 /\ n \in 0..127 BY <2>1
    <3>2. (p <= m \/ m >= 128) /\ (t <= n \/ n >= 128) BY DEF StrLen
    <3> HIDE DEF m, n
    <3>3. QED BY <1>5, <3>1, <3>2
  <2>3. QED BY <1>2, <2>2, SerializedFits
<1> USE DEF BootInv, serverVars
<1>8. BootTypeOK' BY <1>3, <1>4, <1>6 DEF BootTypeOK
<1>9. OrderInv' BY <1>3, <1>4, ClientsAssumption DEF OrderInv
<1>10. QED BY <1>4, <1>7, <1>8, <1>9

LEMMA FirstMessageInv == ASSUME BootInv, FirstMessage PROVE BootInv'
<1> DEFINE c == "sensorTemp"
<1>1. c \in Clients BY ClientsAssumption
<1>2. /\ stage[c] = "calling" /\ sem = 1 /\ Moves(c, "done")
      /\ UNCHANGED <<configVars, serverVars, held, nwStack, stackAddr, sem, len>>
  BY DEF FirstMessage
<1>3. /\ AccessTypeOK' /\ LookupInv' /\ StageInv' /\ ClosedInv' /\ OwnValues'
      /\ stage' \in [Clients -> Stages]
      /\ stage'[c] = "done" /\ \A d \in Clients \ {c} : stage'[d] = stage[d]
  BY <1>1, <1>2, MovesInv
<1> USE DEF BootInv, serverVars
<1>4. BootTypeOK' BY <1>2, <1>3 DEF BootTypeOK
<1>5. OrderInv' BY <1>2, <1>3, ClientsAssumption DEF OrderInv
<1>6. MessageFits' BY <1>2 DEF MessageFits, Terminated
<1>7. QED BY <1>3, <1>4, <1>5, <1>6

-----------------------------------------------------------------------------
\* The theorems about the start.

LEMMA BootInitInv == BootInit => BootInv
<1> SUFFICES ASSUME BootInit PROVE BootInv OBVIOUS
<1> USE DEF BootInit, AccessInit
<1>1. AccessTypeOK BY DEF AccessTypeOK
<1>2. BootTypeOK
  <2>1. held \in [Clients -> Seq(Value)] /\ stackAddr \in Seq(Value) OBVIOUS
  <2>2. ASSUME NEW c \in Clients PROVE Len(held[c]) <= Len(Queries(c))
    <3>1. Len(held[c]) = 0 OBVIOUS
    <3>2. QED BY <3>1, QueryFacts
  <2>3. stage \in [Clients -> Stages]
    BY DEF Stages
  <2>4. /\ logServer = "init" /\ logFs = "none" /\ chain = FALSE /\ configServer = "start"
        /\ nwStack = "waiting" /\ sem \in 0..1 /\ len \in Int /\ len = 0
    OBVIOUS
  <2> HIDE DEF BootInit, AccessInit
  <2>5. QED BY <1>1, <2>1, <2>2, <2>3, <2>4 DEF BootTypeOK
<1>3. LookupInv BY DEF LookupInv, SearchInv, FoundInv, ResultInv, CallerInv
<1>4. StageInv BY QueryFacts DEF StageInv
<1>5. ClosedInv /\ OrderInv /\ MessageFits
  BY ClientsAssumption DEF ClosedInv, OrderInv, MessageFits
<1>6. OwnValues BY DEF OwnValues
<1>7. QED BY <1>2, <1>3, <1>4, <1>5, <1>6 DEF BootInv

LEMMA BootStutterInv == ASSUME BootInv, UNCHANGED bootVars PROVE BootInv'
<1> USE DEF BootInv, bootVars, configVars, accessVars, serverVars, clientVars
<1>1. BootTypeOK' BY DEF BootTypeOK, AccessTypeOK
<1>2. LookupInv' BY LookupFrame DEF LookupInv, LookupSame
<1>3. StageInv' /\ ClosedInv' /\ OrderInv' /\ MessageFits'
  BY DEF StageInv, ClosedInv, OrderInv, MessageFits, Terminated
<1>4. OwnValues' BY OwnValuesFrame
<1>5. QED BY <1>1, <1>2, <1>3, <1>4

LEMMA BootStepInv == ASSUME BootInv, [BootNext]_bootVars PROVE BootInv'
<1>1. CASE LogServer BY <1>1, LogServerInv
<1>2. CASE ConfigServer BY <1>2, ConfigServerInv
<1>3. CASE SensorTemp
  BY <1>3, ReaderInv, SerializeInv, FirstMessageInv, ClientsAssumption DEF SensorTemp
<1>4. CASE CloudConnector
  BY <1>4, ReaderInv, ConnectsInv, ClientsAssumption DEF CloudConnector
<1>5. CASE NwStackConfigurator
  BY <1>5, ReaderInv, ConfigIpAddrInv, ClientsAssumption DEF NwStackConfigurator
<1>6. CASE StackStarts BY <1>6, StackStartsInv
<1>7. CASE UNCHANGED bootVars BY <1>7, BootStutterInv
<1>8. QED BY <1>1, <1>2, <1>3, <1>4, <1>5, <1>6, <1>7 DEF BootNext

LEMMA BootInvariant == BootSpec => []BootInv
  BY BootInitInv, BootStepInv, PTL DEF BootSpec

(* The types of the start, for every stored configuration and whatever      *)
(* fails; a value that was read is a stored one.                            *)
THEOREM BootTypeCorrect == BootSpec => []BootTypeOK
<1>1. BootInv => BootTypeOK BY DEF BootInv
<1>2. QED BY <1>1, BootInvariant, PTL

(* Every component holds the values of its own queries, however the         *)
(* searches of the three interleave.                                        *)
THEOREM OwnValuesInvariant == BootSpec => []OwnValues
<1>1. BootInv => OwnValues BY DEF BootInv
<1>2. QED BY <1>1, BootInvariant, PTL

(* The serialised message fits the buffers of the sensor and of the         *)
(* CloudConnector, whatever the configuration stores.                       *)
THEOREM MessageFitsInvariant == BootSpec => []MessageFits
<1>1. BootInv => MessageFits BY DEF BootInv
<1>2. QED BY <1>1, BootInvariant, PTL

(* No message is handled before the network stack has its addresses.        *)
THEOREM MessageOnConfiguredStackInvariant == BootSpec => []MessageOnConfiguredStack
<1>1. BootInv => MessageOnConfiguredStack
  <2> DEFINE c == "nwStackConfigurator"
  <2> SUFFICES ASSUME BootInv, stage["sensorTemp"] = "done" \/ stage["cloudConnector"] = "done"
               PROVE  /\ stage[c] = "done" /\ store = "open"
                      /\ Len(stackAddr) = Len(Queries(c))
                      /\ \A i \in 1..Len(stackAddr) :
                            Store!Contained(Queries(c)[i]).value = stackAddr[i]
    BY DEF MessageOnConfiguredStack
  <2>1. c \in Clients BY ClientsAssumption
  <2>2. stage[c] = "done" /\ stackAddr = held[c] BY DEF BootInv, OrderInv
  <2>3. Len(held[c]) = Len(Queries(c)) BY <2>1, <2>2 DEF BootInv, StageInv
  <2>4. 1 \in 1..Len(held[c]) BY <2>1, <2>3, QueryFacts
  <2>5. /\ store = "open"
        /\ \A i \in 1..Len(held[c]) :
              Store!Contained(Queries(c)[i]) = [ret |-> "SUCCESS", value |-> held[c][i]]
    BY <2>1, <2>4 DEF BootInv, OwnValues
  <2>6. \A i \in 1..Len(held[c]) : Store!Contained(Queries(c)[i]).value = held[c][i]
    <3> TAKE i \in 1..Len(held[c])
    <3>1. Store!Contained(Queries(c)[i]) = [ret |-> "SUCCESS", value |-> held[c][i]] BY <2>5
    <3>2. QED BY <3>1
  <2>7. QED BY <2>2, <2>3, <2>5, <2>6
<1>2. QED BY <1>1, BootInvariant, PTL

-----------------------------------------------------------------------------
\* The lookups implement the abstract store.

\* The substitution of ConfigAccess.
Asked(c)    == IF at[c] \in {"idle", "returned"} THEN NoQuery ELSE wanted[c]
Answered(c) == [ret |-> ret[c], value |-> buffer[c]]

LEMMA StoreInitial == BootInit => Store!StoreInit
  BY DEF BootInit, AccessInit, Store!StoreInit, Store!NoQuery, Store!NoAnswer, Store!Failure,
         Store!NoValue, NoQuery, NoValue

\* Steps outside the lookups open the store or are not seen.
LEMMA OutsideRefines ==
    ASSUME UNCHANGED <<domains, accessVars>>,
           store' = store \/ (store = "closed" /\ store' \in {"open", "broken"})
    PROVE  [Store!StoreNext]_Store!storeVars
  BY DEF accessVars, Store!StoreNext, Store!Open, Store!storeVars

\* A step of one client that the store does not see.
LEMMA UnseenRefines ==
    ASSUME UNCHANGED <<domains, store>>,
           \A c \in Clients : Asked(c)' = Asked(c) /\ Answered(c)' = Answered(c)
    PROVE  UNCHANGED Store!storeVars
  BY DEF Asked, Answered, Store!storeVars

LEMMA AsksNextRefines ==
    ASSUME NEW c \in Clients, BootInv, AsksNext(c)
    PROVE  Store!Ask(c)
<1> DEFINE q == Queries(c)[Len(held[c]) + 1]
<1>1. /\ stage[c] = "reading" /\ GetConfigParameter(c, q)
      /\ UNCHANGED <<domains, store>>
  BY DEF AsksNext
<1>2. q \in Query BY <1>1, NextQuery DEF BootInv
<1> HIDE DEF q
<1>3. /\ at[c] = "idle" /\ at'[c] = "domain" /\ wanted'[c] = q
      /\ UNCHANGED <<ret, buffer>>
      /\ \A d \in Clients \ {c} : at'[d] = at[d] /\ wanted'[d] = wanted[d]
  BY <1>1 DEF GetConfigParameter, BootInv, BootTypeOK, AccessTypeOK
<1>4. ret[c] = "none" /\ buffer[c] = NoValue BY <1>3 DEF BootInv, LookupInv, ResultInv
<1>5. QED
  BY <1>1, <1>2, <1>3, <1>4
     DEF Store!Ask, Store!NoQuery, Store!NoAnswer, Store!Failure, Store!NoValue, Store!Query,
         NoQuery, NoValue, Query

LEMMA ReadsRefines ==
    ASSUME NEW c \in Clients, BootInv, BootInv', Reads(c)
    PROVE  [Store!StoreNext]_Store!storeVars
<1>1. LookupStep(c) /\ stage[c] = "reading" /\ UNCHANGED <<domains, store, stage, held>>
  BY DEF Reads, LookupStep, clientVars
<1>2. /\ at[c] \notin {"idle", "returned"} /\ wanted' = wanted /\ store # "closed"
      /\ \A d \in Clients \ {c} : at'[d] = at[d] /\ ret'[d] = ret[d] /\ buffer'[d] = buffer[d]
      /\ ret \in [Clients -> {"none", "SUCCESS"} \union Errors]
      /\ buffer \in [Clients -> Value \union {NoValue}]
      /\ ret' \in [Clients -> {"none", "SUCCESS"} \union Errors]
      /\ buffer' \in [Clients -> Value \union {NoValue}]
  BY <1>1, SMTT(40) DEF LookupStep, FindDomain, NextDomain, NoSuchDomain, GetElement, GetValue, Served,
              ReturnError, BootInv, BootTypeOK, AccessTypeOK
<1>3. ret[c] = "none" /\ buffer[c] = NoValue BY <1>2 DEF BootInv, LookupInv, ResultInv
<1>4. wanted[c] # NoQuery
  <2>1. Len(held[c]) + 1 \in 1..Len(Queries(c))
    BY <1>1, NextQuery DEF BootInv
  <2>2. QED BY <1>2, <2>1, QueryFacts DEF BootInv, LookupInv, CallerInv
<1>5. CASE at'[c] = "returned"
  <2>1. Answered(c)' \in Store!Answers(wanted[c])
    <3>1. [ret |-> ret'[c], value |-> buffer'[c]] \in Store!Answers(wanted[c])'
      BY <1>5 DEF BootInv, LookupInv, ResultInv
    <3>2. Store!Answers(wanted[c])' = Store!Answers(wanted[c]) BY <1>1, <1>2, AnswersSame
    <3>3. QED BY <3>1, <3>2 DEF Answered
  <2>2. Store!Reply(c)
    BY <1>1, <1>2, <1>4, <1>5, <2>1 DEF Store!Reply, Store!NoQuery, NoQuery, Answered
  <2>3. QED BY <2>2 DEF Store!StoreNext
<1>6. CASE at'[c] # "returned"
  <2>1. at'[c] # "idle"
    BY <1>1, <1>2 DEF LookupStep, FindDomain, NextDomain, NoSuchDomain, GetElement, GetValue,
                      ReturnError, BootInv, BootTypeOK, AccessTypeOK
  <2>2. ret'[c] = "none" /\ buffer'[c] = NoValue BY <1>6 DEF BootInv, LookupInv, ResultInv
  <2>3. \A d \in Clients : Asked(d)' = Asked(d) /\ Answered(d)' = Answered(d)
    BY <1>2, <1>3, <1>6, <2>1, <2>2 DEF Asked, Answered
  <2>4. QED BY <1>1, <2>3, UnseenRefines
<1>7. QED BY <1>5, <1>6

LEMMA TakeRefines ==
    ASSUME NEW c \in Clients, BootInv, NEW result \in BOOLEAN, Take(c, result),
           UNCHANGED <<domains, store>>
    PROVE  Store!TakeAnswer(c)
<1>1. /\ at[c] = "returned" /\ at'[c] = "idle" /\ ret'[c] = "none" /\ buffer'[c] = NoValue
      /\ \A d \in Clients \ {c} :
            /\ at'[d] = at[d] /\ wanted'[d] = wanted[d]
            /\ ret'[d] = ret[d] /\ buffer'[d] = buffer[d]
  BY DEF Take, BootInv, BootTypeOK, AccessTypeOK
<1>2. ret[c] # "none"
  <2>1. [ret |-> ret[c], value |-> buffer[c]] \in Store!Answers(wanted[c])
    BY <1>1 DEF BootInv, LookupInv, ResultInv
  <2>2. \A e \in Store!Errors : Store!Failure(e).ret # "none"
    BY DEF Store!Failure, Store!Errors
  <2>3. Store!Contained(wanted[c]).ret # "none"
    BY DEF Store!Contained, Store!Failure
  <2>4. QED BY <2>1, <2>2, <2>3 DEF Store!Answers
<1>3. QED
  BY <1>1, <1>2 DEF Store!TakeAnswer, Store!NoAnswer, Store!Failure, Store!NoValue, NoValue

LEMMA ReaderRefines ==
    ASSUME NEW c \in Clients, BootInv, BootInv', Reader(c)
    PROVE  [Store!StoreNext]_Store!storeVars
<1>1. CASE Starts(c) BY <1>1, OutsideRefines DEF Starts, configVars
<1>2. CASE AsksNext(c) BY <1>2, AsksNextRefines DEF Store!StoreNext
<1>3. CASE Reads(c) BY <1>3, ReadsRefines
<1>4. CASE Retrieved(c) BY <1>4, TakeRefines DEF Retrieved, Store!StoreNext
<1>5. CASE NotRetrieved(c) BY <1>5, TakeRefines DEF NotRetrieved, Store!StoreNext
<1>6. QED BY <1>1, <1>2, <1>3, <1>4, <1>5 DEF Reader

LEMMA BootStepRefines ==
    ASSUME BootInv, BootInv', [BootNext]_bootVars
    PROVE  [Store!StoreNext]_Store!storeVars
<1>1. CASE LogServer
  BY <1>1, OutsideRefines
     DEF LogServer, FileSystemInit, FileSystemMount, FileSystemFree, SetUpChain, configVars
<1>2. CASE ConfigServer BY <1>2, ConfigServerStep, OutsideRefines
<1>3. CASE \E c \in Clients : Reader(c) BY <1>3, ReaderRefines
<1>4. CASE ConfigIpAddr \/ StackStarts \/ Connects \/ Serialize \/ FirstMessage
  BY <1>4, OutsideRefines
     DEF ConfigIpAddr, StackStarts, Connects, Serialize, FirstMessage, configVars
<1>5. CASE UNCHANGED bootVars BY <1>5, OutsideRefines DEF bootVars, configVars
<1>6. QED
  BY <1>1, <1>2, <1>3, <1>4, <1>5, ClientsAssumption
     DEF BootNext, SensorTemp, CloudConnector, NwStackConfigurator

(* The interleaved lookups of all components implement ConfigStore: every   *)
(* query is answered as if the ConfigServer had looked it up in one step,   *)
(* for every stored configuration and whatever fails.                       *)
THEOREM BootImplementsStore == BootSpec => ConfigPromise
<1>1. BootInit => Store!StoreInit BY StoreInitial
<1>2. BootInv /\ BootInv' /\ [BootNext]_bootVars => [Store!StoreNext]_Store!storeVars
  BY BootStepRefines
<1>3. QED BY <1>1, <1>2, BootInvariant, PTL DEF BootSpec, ConfigPromise, Store!StoreSpec
=============================================================================
