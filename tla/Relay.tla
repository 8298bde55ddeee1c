------------------------------- MODULE Relay --------------------------------
(***************************************************************************)
(* What the demo promises about a message: the sensor offers messages one  *)
(* at a time; while the relay is up each is acknowledged by the broker     *)
(* before the next is offered; every message reaches the broker at most    *)
(* once and in order; once the relay has given up it stays down.           *)
(***************************************************************************)
EXTENDS Integers, Sequences

VARIABLES
    offered,    \* number of the last message offered
    busy,       \* the sensor waits for it to be handled
    log,        \* messages the broker accepted
    confirmed,  \* messages known to be accepted
    up

relayVars == <<offered, busy, log, confirmed, up>>

LastLogged == IF log = << >> THEN 0 ELSE log[Len(log)]

Offer ==
    /\ ~busy
    /\ offered' = offered + 1 /\ busy' = TRUE
    /\ UNCHANGED <<log, confirmed, up>>

\* A message may be accepted late, after the relay has given up on it.
Accept ==
    /\ \E n \in (LastLogged + 1)..offered : log' = Append(log, n)
    /\ UNCHANGED <<offered, busy, confirmed, up>>

Confirm ==
    /\ busy /\ up
    /\ \E i \in 1..Len(log) : log[i] = offered
    /\ confirmed' = confirmed \union {offered}
    /\ UNCHANGED <<offered, busy, log, up>>

GiveUp ==
    /\ up /\ up' = FALSE
    /\ UNCHANGED <<offered, busy, log, confirmed>>

\* As long as the relay is up a message is done with when it is confirmed.
Reply ==
    /\ busy
    /\ up => offered \in confirmed
    /\ busy' = FALSE
    /\ UNCHANGED <<offered, log, confirmed, up>>

RelayInit ==
    /\ offered = 0 /\ busy = FALSE
    /\ log = << >> /\ confirmed = {}
    /\ up = TRUE

RelayNext == Offer \/ Accept \/ Confirm \/ GiveUp \/ Reply

RelaySpec == RelayInit /\ [][RelayNext]_relayVars
=============================================================================
