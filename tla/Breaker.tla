------------------------------- MODULE Breaker -------------------------------
(***************************************************************************)
(* runtime/circuit-breaker.ts behind the BreakerRegistry of resilience.ts,   *)
(* as the columns of the arena runner use them: a column gets the breaker of *)
(* its endpoint when it starts, keeps the object, and reports every model    *)
(* call to it; the registry is a capped LRU map.                             *)
(***************************************************************************)
EXTENDS Integers, Sequences, FiniteSets, SequencesExt

CONSTANTS Columns,     \* how many columns start, numbered in that order
          Endpoints,   \* how many endpoints, numbered in the order they are asked for
          Threshold,   \* breakerThreshold
          Cooldown,    \* breakerCooldownMs, in ticks
          MaxSize,     \* the registry's cap
          MaxReports,  \* bound: reports of model calls
          MaxTime      \* bound: ticks of the clock

ASSUME BreakerAssumption ==
    /\ Columns \in Nat /\ Endpoints \in Nat \ {0} /\ Threshold \in Nat \ {0} /\ Cooldown \in Nat /\ MaxSize \in Nat \ {0}
    /\ MaxReports \in Nat /\ MaxTime \in Nat

VARIABLES
    registry,  \* the map in insertion order: endpoints and their breakers
    breakers,  \* every breaker ever made: its failures and when it opened
    column,    \* where each column stands, its endpoint and the breaker it holds
    now,       \* the injected clock
    requests,  \* history: the endpoints asked for, in order
    reports    \* history: what was reported to which breaker, and when

breakerVars == <<registry, breakers, column, now, requests, reports>>

\* A column that holds no breaker: it is new, was refused, or has ended.
HoldsNone(state) == [at |-> state, endpoint |-> 1, breaker |-> 0]
Fresh == [failures |-> 0, openedAt |-> 0]

IsOpen(b) == b.failures >= Threshold /\ now - b.openedAt < Cooldown

Success(b) == Fresh

\* Slip: only the failure that trips the breaker is timed.
Failure_FirstOnly(b) ==
    [failures |-> b.failures + 1,
     openedAt |-> IF b.failures + 1 = Threshold THEN now ELSE b.openedAt]

\* recordFailure: from the threshold on, every failure restarts the cooldown.
Failure(b) ==
    [failures |-> b.failures + 1,
     openedAt |-> IF b.failures + 1 >= Threshold THEN now ELSE b.openedAt]

\* The map has at most one entry for an endpoint, at some place.
Places(e) == {i \in DOMAIN registry : registry[i].endpoint = e}
Known(e) == Places(e) # {}
PlaceOf(e) == CHOOSE i \in Places(e) : TRUE
BreakerOf(e) == registry[PlaceOf(e)].id

\* A hit moves the entry at place i to the end.
Hit(i) == Append(RemoveAt(registry, i), registry[i])

\* The oldest entries go while the map is too large; it grows by one at a time.
Capped(map) == IF Len(map) > MaxSize THEN Tail(map) ELSE map

\* BreakerRegistry.get: the registry, the breaker and the breakers afterwards.
Lookup(e) ==
    IF Known(e)
    THEN [map |-> Hit(PlaceOf(e)), id |-> BreakerOf(e), all |-> breakers]
    ELSE LET id == Len(breakers) + 1 IN
         [map |-> Capped(Append(registry, [endpoint |-> e, id |-> id])), id |-> id,
          all |-> Append(breakers, Fresh)]

\* A column has its slot: it gets its breaker and starts unless that is open.
StartColumn(c, e) ==
    /\ column[c].at = "new" /\ \A earlier \in 1 .. c - 1 : column[earlier].at # "new"
    /\ \A earlier \in 1 .. e - 1 : earlier \in Range(requests)
    /\ LET found == Lookup(e) IN
       /\ registry' = found.map /\ breakers' = found.all
       /\ column' = [column EXCEPT ![c] =
            IF IsOpen(found.all[found.id]) THEN HoldsNone("ended")
            ELSE [at |-> "running", endpoint |-> e, breaker |-> found.id]]
    /\ requests' = Append(requests, e)
    /\ UNCHANGED <<now, reports>>

\* reportModelCall, of a column that is not stopping.
Report(c, ok) ==
    /\ column[c].at = "running" /\ Len(reports) < MaxReports
    /\ LET id == column[c].breaker IN
       /\ breakers' = [breakers EXCEPT ![id] = IF ok THEN Success(@) ELSE Failure(@)]
       /\ reports' = Append(reports, [id |-> id, endpoint |-> column[c].endpoint, ok |-> ok, at |-> now])
    /\ UNCHANGED <<registry, column, now, requests>>

\* The column is stopped or done; what it reports from now on is ignored.
EndColumn(c) ==
    /\ column[c].at = "running"
    /\ column' = [column EXCEPT ![c] = HoldsNone("ended")]
    /\ UNCHANGED <<registry, breakers, now, requests, reports>>

Tick ==
    /\ now < MaxTime
    /\ now' = now + 1
    /\ UNCHANGED <<registry, breakers, column, requests, reports>>

BreakerInit ==
    /\ registry = << >> /\ breakers = << >> /\ now = 0
    /\ column = [c \in 1 .. Columns |-> HoldsNone("new")]
    /\ requests = << >> /\ reports = << >>

BreakerNext ==
    \/ \E c \in 1 .. Columns :
         \/ \E e \in 1 .. Endpoints : StartColumn(c, e)
         \/ \E ok \in BOOLEAN : Report(c, ok)
         \/ EndColumn(c)
    \/ Tick

BreakerSpec == BreakerInit /\ [][BreakerNext]_breakerVars

-----------------------------------------------------------------------------
BreakerTypeOK ==
    /\ \A i \in DOMAIN registry :
         registry[i].endpoint \in 1 .. Endpoints /\ registry[i].id \in DOMAIN breakers
    /\ Len(registry) <= MaxSize
    /\ \A i \in DOMAIN breakers : breakers[i].failures \in Nat /\ breakers[i].openedAt \in 0 .. now
    /\ \A c \in 1 .. Columns : column[c].at \in {"new", "running", "ended"}

\* The reports at places p since the last success among them.
Failing(p) == {i \in p : \A j \in p : j >= i => ~reports[j].ok}

\* What "open" means, said of reports alone, those at places p: the last Threshold of
\* them were failures, and the last one is younger than the cooldown.
Tripped(p) ==
    /\ Cardinality(Failing(p)) >= Threshold
    /\ \E last \in p : (\A i \in p : i <= last) /\ now - reports[last].at < Cooldown

ReportsTo(id) == {i \in DOMAIN reports : reports[i].id = id}
ReportsOn(e) == {i \in DOMAIN reports : reports[i].endpoint = e}

\* "At threshold (including half-open probe failures) it refreshes the open timestamp,
\* so the cooldown counts from the last failure": through successes, probes after the
\* cooldown and slow failures of several columns.
OpenAfterFailures ==
    \A id \in DOMAIN breakers : IsOpen(breakers[id]) <=> Tripped(ReportsTo(id))

\* "The breaker reflects the shared dependency, not whichever column finished last":
\* every breaker ever made is open by its reports, and
\* while no more endpoints than the cap were ever asked for, the next column of an
\* endpoint is refused if and only if the reports of all its columns say so.
EndpointHealthShared ==
    /\ OpenAfterFailures
    /\ Cardinality(Range(requests)) <= MaxSize => \A e \in Range(requests) :
            /\ Known(e)
            /\ IsOpen(breakers[BreakerOf(e)]) <=> Tripped(ReportsOn(e))

\* "A capped per-key breaker registry with LRU eviction": it holds the endpoints asked
\* for last, in that order, so a running column's breaker is evicted, with its failures,
\* only after MaxSize other endpoints were asked for, and never for a staler one.
LastAsked(e) == CHOOSE i \in DOMAIN requests :
    requests[i] = e /\ \A j \in i + 1 .. Len(requests) : requests[j] # e
AskedSince(e) == {requests[j] : j \in LastAsked(e) + 1 .. Len(requests)}

RegistryKeepsRecent ==
    /\ \A e \in Range(requests) : Known(e) <=> Cardinality(AskedSince(e)) < MaxSize
    /\ \A i, j \in DOMAIN registry :
         i < j => LastAsked(registry[i].endpoint) < LastAsked(registry[j].endpoint)

\* A column is refused for what its endpoint's columns saw, and for nothing else.
BreakersTellHistory == EndpointHealthShared /\ RegistryKeepsRecent
=============================================================================
