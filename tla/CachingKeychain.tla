-------------------------- MODULE CachingKeychain --------------------------
(***************************************************************************)
(* The cache of provider (ECR) credentials that all requests share.        *)
(* Resolve reads the clock once, looks the registry up under the mutex,    *)
(* asks the provider without the mutex, and stores the answer under the    *)
(* mutex again, with an expiry computed from the clock it read first.      *)
(***************************************************************************)
EXTENDS Integers, FiniteSets

CONSTANTS
    Callers,     \* goroutines in Resolve
    Registries,
    None,        \* no entry; no credential (Anonymous, or an error)
    TTL,         \* providerCredentialsTTL
    MaxCached,   \* maxCachedRegistries
    MaxTime      \* bound on the clock

ASSUME NoneAssumption == None \notin Nat \cup [issued : Nat, expires : Nat]
ASSUME TTLAssumption == TTL \in Nat \ {0} /\ MaxTime \in Nat
ASSUME MaxCachedAssumption == MaxCached \in Nat \ {0}

VARIABLES
    clock,    \* time.Now
    entries,  \* per registry: when the provider issued the credential, its expiry
    pc, key,
    now,      \* the clock as the caller read it
    cred      \* when the credential that the caller holds was issued

vars == <<clock, entries, pc, key, now, cred>>

Entry == [issued : Nat, expires : Nat]
Cached == {r \in Registries : entries[r] # None}

TypeOK ==
    /\ clock \in Nat
    /\ entries \in [Registries -> Entry \cup {None}]
    /\ pc \in [Callers -> {"idle", "lookup", "inner", "store", "done"}]
    /\ key \in [Callers -> Registries \cup {None}]
    /\ now \in [Callers -> Nat]
    /\ cred \in [Callers -> Nat \cup {None}]

Init ==
    /\ clock = 0
    /\ entries = [r \in Registries |-> None]
    /\ pc = [c \in Callers |-> "idle"]
    /\ key = [c \in Callers |-> None]
    /\ now = [c \in Callers |-> 0]
    /\ cred = [c \in Callers |-> None]

Tick ==
    /\ clock < MaxTime
    /\ clock' = clock + 1
    /\ UNCHANGED <<entries, pc, key, now, cred>>

Resolve(c, r) ==
    /\ pc[c] = "idle"
    /\ pc' = [pc EXCEPT ![c] = "lookup"]
    /\ key' = [key EXCEPT ![c] = r]
    /\ now' = [now EXCEPT ![c] = clock]
    /\ UNCHANGED <<clock, entries, cred>>

\* An entry that has not expired at the time the caller read is returned.
Fresh(r, t) == r \in Cached /\ t < entries[r].expires

Lookup(c) ==
    /\ pc[c] = "lookup"
    /\ IF Fresh(key[c], now[c])
       THEN /\ pc' = [pc EXCEPT ![c] = "done"]
            /\ cred' = [cred EXCEPT ![c] = entries[key[c]].issued]
       ELSE /\ pc' = [pc EXCEPT ![c] = "inner"]
            /\ UNCHANGED cred
    /\ UNCHANGED <<clock, entries, key, now>>

\* The provider issues a credential.
InnerResolve(c) ==
    /\ pc[c] = "inner"
    /\ pc' = [pc EXCEPT ![c] = "store"]
    /\ cred' = [cred EXCEPT ![c] = clock]
    /\ UNCHANGED <<clock, entries, key, now>>

\* Mutant of InnerHasNone: Anonymous is stored like a credential.
InnerKeepsNone(c) ==
    /\ pc[c] = "inner"
    /\ pc' = [pc EXCEPT ![c] = "store"]
    /\ UNCHANGED <<clock, entries, key, now, cred>>

\* The provider fails, or has no credentials for the registry; neither is kept.
InnerHasNone(c) ==
    /\ pc[c] = "inner"
    /\ pc' = [pc EXCEPT ![c] = "done"]
    /\ UNCHANGED <<clock, entries, key, now, cred>>

\* Mutant of Kept: only expired entries are dropped.
KeptUnexpired(t) ==
    IF Cardinality(Cached) < MaxCached THEN Cached ELSE {r \in Cached : Fresh(r, t)}

\* The entries that make room for a new one: all if there is room, else those
\* that have not expired, else none.
Kept(t) ==
    LET unexpired == {r \in Cached : Fresh(r, t)} IN
    IF Cardinality(Cached) < MaxCached THEN Cached
    ELSE IF Cardinality(unexpired) < MaxCached THEN unexpired
    ELSE {}

\* Mutant of Store: the expiry counts from the time of storing.
StoreLate(c) ==
    /\ pc[c] = "store"
    /\ entries' = [r \in Registries |->
                     IF r = key[c]
                     THEN [issued |-> cred[c], expires |-> clock + TTL]
                     ELSE IF r \in Kept(now[c]) THEN entries[r] ELSE None]
    /\ pc' = [pc EXCEPT ![c] = "done"]
    /\ UNCHANGED <<clock, key, now, cred>>

Store(c) ==
    /\ pc[c] = "store"
    /\ entries' = [r \in Registries |->
                     IF r = key[c]
                     THEN [issued |-> cred[c], expires |-> now[c] + TTL]
                     ELSE IF r \in Kept(now[c]) THEN entries[r] ELSE None]
    /\ pc' = [pc EXCEPT ![c] = "done"]
    /\ UNCHANGED <<clock, key, now, cred>>

Return(c) ==
    /\ pc[c] = "done"
    /\ pc' = [pc EXCEPT ![c] = "idle"]
    /\ key' = [key EXCEPT ![c] = None]
    /\ now' = [now EXCEPT ![c] = 0]
    /\ cred' = [cred EXCEPT ![c] = None]
    /\ UNCHANGED <<clock, entries>>

Next ==
    \/ Tick
    \/ \E c \in Callers :
         \/ \E r \in Registries : Resolve(c, r)
         \/ Lookup(c)
         \/ InnerResolve(c)
         \/ InnerHasNone(c)
         \/ Store(c)
         \/ Return(c)

Spec == Init /\ [][Next]_vars

-----------------------------------------------------------------------------

\* The credential cache never holds more than maxCachedRegistries entries,
\* although callers decide to store long after they looked the table up.
Bounded == Cardinality(Cached) <= MaxCached

\* A caller never gets a credential that was issued TTL or more before its
\* call, however long the callers that filled the cache took and in whatever
\* order they stored.
NeverTooOld ==
    \A c \in Callers :
        pc[c] = "done" /\ cred[c] # None => now[c] - cred[c] < TTL
=============================================================================
