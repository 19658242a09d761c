---------------------------- MODULE WorkspaceOps ----------------------------
(***************************************************************************)
(* The data of a WorkspaceRegistry (runtime/workspace.ts) as pure          *)
(* operators.  A registry is a record                                      *)
(*   resident : names in memory, least recently accessed first             *)
(*   dirs     : names with a directory under the runs root                 *)
(*   holds    : protection holds per name                                  *)
(*   pins     : names owned by a thread                                    *)
(* Access times only order the names, so their order stands for them: what *)
(* has outlived the TTL at some instant is a prefix of `resident`.         *)
(***************************************************************************)
EXTENDS Naturals, Sequences

CONSTANT MaxWorkspaces     \* the registry's quota

ASSUME RegistryAssumption == MaxWorkspaces \in Nat \ {0}

Registries(Names) ==
  [resident : Seq(Names), dirs : SUBSET Names,
   holds : [Names -> Nat], pins : SUBSET Names]

EmptyRegistry(Names) ==
  [resident |-> <<>>, dirs |-> {}, holds |-> [n \in Names |-> 0], pins |-> {}]

Resident(reg) == {reg.resident[i] : i \in DOMAIN reg.resident}

Protect(reg, n) == [reg EXCEPT !.holds[n] = @ + 1]

\* Slip: protection as a flag.
Unprotect_Clears(reg, n) == [reg EXCEPT !.holds[n] = 0]

\* Extra calls are no-ops, never a negative count.
Unprotect(reg, n) == [reg EXCEPT !.holds[n] = IF @ <= 1 THEN 0 ELSE @ - 1]

Pin(reg, n) == [reg EXCEPT !.pins = @ \cup {n}]
Unpin(reg, n) == [reg EXCEPT !.pins = @ \ {n}]

\* Slip: only protection counts.
Evictable_IgnoresPins(reg, n) == reg.holds[n] = 0

Evictable(reg, n) == reg.holds[n] = 0 /\ n \notin reg.pins

\* The names that are left of an order when some have gone.
Without(names, gone) ==
  LET upTo[i \in 0..Len(names)] ==
        IF i = 0 THEN <<>>
        ELSE IF names[i] \in gone THEN upTo[i - 1] ELSE Append(upTo[i - 1], names[i])
  IN  upTo[Len(names)]

\* remove() of every name of a set: memory, protection count and directory.
Drop(reg, gone) ==
  [reg EXCEPT !.resident = Without(@, gone),
              !.dirs = @ \ gone,
              !.holds = [n \in DOMAIN @ |-> IF n \in gone THEN 0 ELSE @[n]]]

\* evictExpired at an instant at which the first `old` names are past the TTL.
Sweep(reg, old) ==
  Drop(reg, {n \in {reg.resident[i] : i \in 1..old} : Evictable(reg, n)})

HasRoom(reg) == Len(reg.resident) < MaxWorkspaces

\* The least recently accessed name that may go, as a set of at most one.
Oldest(reg) ==
  LET candidates == {i \in DOMAIN reg.resident : Evictable(reg, reg.resident[i])}
  IN  {reg.resident[i] : i \in {k \in candidates : \A j \in candidates : k <= j}}

\* The quota check with its evictLru; the quota may still be full behind it.
MakeRoom(reg) == IF HasRoom(reg) THEN reg ELSE Drop(reg, Oldest(reg))

CanAdmit(reg) == HasRoom(MakeRoom(reg))

\* Registers a name, or refreshes its access time, and makes its directory.
Register(reg, n) ==
  [reg EXCEPT !.resident = Append(Without(@, {n}), n),
              !.dirs = @ \cup {n}]

\* get() behind its evictExpired: resident, or rehydrated from disk.
Found(reg, n) == n \in Resident(reg) \/ (n \in reg.dirs /\ CanAdmit(reg))

Fetch(reg, n) ==
  IF ~Found(reg, n) THEN reg
  ELSE IF n \in Resident(reg) THEN Register(reg, n) ELSE Register(MakeRoom(reg), n)

\* A new process: memory is gone, directories stay.
Reopen(reg) == [EmptyRegistry(DOMAIN reg.holds) EXCEPT !.dirs = reg.dirs]
=============================================================================
