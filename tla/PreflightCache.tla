---------------------------- MODULE PreflightCache ----------------------------
(***************************************************************************)
(* The cache of pre_flight decisions (src/server-rs/src/preflight_cache.rs)*)
(* as iiif_access in routes.rs uses it: look the key up, on a miss run the *)
(* Lua hook, and record its decision.  One shard is modelled: a key's      *)
(* fingerprint picks its shard, so keys of different shards never meet.    *)
(* The hook and the permissions it reads are outside the code.             *)
(***************************************************************************)
EXTENDS Integers, FiniteSets, FiniteSetsExt

CONSTANTS
    Callers,        \* concurrent IIIF requests
    Keys,           \* (prefix, identifier, Cookie, Authorization)
    Fingerprint,    \* the 64-bit hash of a key, without the shard's bits
    Slots,          \* slots_per_shard
    Probe,          \* PROBE
    TTL,
    MaxTime,        \* bound on the clock
    MaxVersion      \* bound on the permission changes

ASSUME PreflightAssumption ==
    /\ Keys # {} /\ Fingerprint \in [Keys -> Nat]
    /\ Slots \in Nat \ {0} /\ Probe \in Nat \ {0} /\ TTL \in Nat \ {0}
    /\ MaxTime \in Nat /\ MaxVersion \in Nat

VARIABLES
    shard,          \* the slots: sets of at most one entry
    entries,        \* ENTRIES
    clock,          \* Instant::now()
    policy,         \* the version of the permissions in force
    place,          \* where in iiif_access a request is
    key,
    now,            \* the instant the request read for its get or insert
    decision,       \* the decision the request holds
    recorded        \* history: when each decision was last recorded for a key

preflightVars == <<shard, entries, clock, policy, place, key, now, decision, recorded>>

Window == 0 .. (Probe - 1)
Indices == 0 .. (Slots - 1)

\* A decision of the hook: for which key, and on which permissions.
Decision == [key : Keys, version : 0 .. MaxVersion]
Entry == [fingerprint : Nat, key : Keys, expiry : Nat, decision : Decision]
NoDecision == [version |-> -1]

MoveTo(r, label) == place' = [place EXCEPT ![r] = label]

PreflightInit ==
    /\ shard = [i \in Indices |-> {}]
    /\ entries = 0
    /\ clock = 0
    /\ policy = 0
    /\ place = [r \in Callers |-> "idle"]
    /\ key = [r \in Callers |-> CHOOSE k \in Keys : TRUE]
    /\ now = [r \in Callers |-> 0]
    /\ decision = [r \in Callers |-> NoDecision]
    /\ recorded = [k \in Keys |-> [v \in 0 .. MaxVersion |-> -TTL]]

BaseIndex(k) == Fingerprint[k] % Slots
Idx(k, i) == (BaseIndex(k) + i) % Slots

\* The fingerprint is a fast reject; the key's bytes decide.
SameFingerprint(e, k) == e.fingerprint = Fingerprint[k]
SameKey(e, k) == e.fingerprint = Fingerprint[k] /\ e.key = k

Holds(k) == {i \in Window : \E e \in shard[Idx(k, i)] : SameKey(e, k)}
Empty(k) == {i \in Window : shard[Idx(k, i)] = {}}
Expired(k, n) == {i \in Window : \E e \in shard[Idx(k, i)] : e.expiry <= n}
EarliestExpiry(k) ==
    {i \in Window : \E e \in shard[Idx(k, i)] :
        \A j \in Window : \A f \in shard[Idx(k, j)] : e.expiry <= f.expiry}

----------------------------------------------------------------------------
\* iiif_access reads the clock, then get() takes the shard's lock.
Arrive(r, k) ==
    /\ place[r] = "idle"
    /\ key' = [key EXCEPT ![r] = k]
    /\ now' = [now EXCEPT ![r] = clock]
    /\ MoveTo(r, "get")
    /\ UNCHANGED <<shard, entries, clock, policy, decision, recorded>>

\* get(): the first slot of the window that holds the key answers; when it has
\* expired it is emptied and the request misses.
Get(r) ==
    /\ place[r] = "get"
    /\ IF Holds(key[r]) = {}
       THEN MoveTo(r, "hook") /\ UNCHANGED <<shard, entries, decision>>
       ELSE LET at == Idx(key[r], Min(Holds(key[r])))
            IN  \E e \in shard[at] :
                IF e.expiry > now[r]
                THEN /\ decision' = [decision EXCEPT ![r] = e.decision]
                     /\ MoveTo(r, "hit")
                     /\ UNCHANGED <<shard, entries>>
                ELSE /\ shard' = [shard EXCEPT ![at] = {}]
                     /\ entries' = entries - 1
                     /\ MoveTo(r, "hook")
                     /\ UNCHANGED decision
    /\ UNCHANGED <<clock, policy, key, now, recorded>>

\* The hook decides on the permissions in force, or writes its own response,
\* fails or is killed; only a decision goes on to the cache.
RunHook(r) ==
    /\ place[r] = "hook"
    /\ \/ /\ decision' = [decision EXCEPT ![r] = [key |-> key[r], version |-> policy]]
          /\ MoveTo(r, "decided")
       \/ /\ MoveTo(r, "idle")
          /\ UNCHANGED decision
    /\ UNCHANGED <<shard, entries, clock, policy, key, now, recorded>>

ReadClock(r) ==
    /\ place[r] = "decided"
    /\ now' = [now EXCEPT ![r] = clock]
    /\ MoveTo(r, "insert")
    /\ UNCHANGED <<shard, entries, clock, policy, key, decision, recorded>>

\* Where insert() puts an entry: the scan stops at the first slot that holds
\* the key or is empty; else the first expired slot, else the earliest expiry.
TargetIgnoresExpired(k, n) ==
    IF Holds(k) \cup Empty(k) # {} THEN Min(Holds(k) \cup Empty(k))
    ELSE Max(Window)

Target(k, n) ==
    IF Holds(k) \cup Empty(k) # {} THEN Min(Holds(k) \cup Empty(k))
    ELSE IF Expired(k, n) # {} THEN Min(Expired(k, n))
    ELSE Min(EarliestExpiry(k))

Insert(r) ==
    LET k == key[r]
        at == Idx(k, Target(k, now[r]))
        e == [fingerprint |-> Fingerprint[k], key |-> k,
              expiry |-> now[r] + TTL, decision |-> decision[r]]
    IN  /\ place[r] = "insert"
        /\ shard' = [shard EXCEPT ![at] = {e}]
        /\ entries' = IF shard[at] = {} THEN entries + 1 ELSE entries
        /\ recorded' = [recorded EXCEPT ![k][decision[r].version] = Max({@, now[r]})]
        /\ MoveTo(r, "idle")
        /\ decision' = [decision EXCEPT ![r] = NoDecision]
        /\ UNCHANGED <<clock, policy, key, now>>

\* The request goes on with the cached decision.
Proceed(r) ==
    /\ place[r] = "hit"
    /\ MoveTo(r, "idle")
    /\ decision' = [decision EXCEPT ![r] = NoDecision]
    /\ UNCHANGED <<shard, entries, clock, policy, key, now, recorded>>

ChangePermissions ==
    /\ policy < MaxVersion
    /\ policy' = policy + 1
    /\ UNCHANGED <<shard, entries, clock, place, key, now, decision, recorded>>

Tick ==
    /\ clock < MaxTime
    /\ clock' = clock + 1
    /\ UNCHANGED <<shard, entries, policy, place, key, now, decision, recorded>>

PreflightNext ==
    \/ \E r \in Callers :
        \/ \E k \in Keys : Arrive(r, k)
        \/ Get(r)
        \/ RunHook(r)
        \/ ReadClock(r)
        \/ Insert(r)
        \/ Proceed(r)
    \/ ChangePermissions
    \/ Tick

PreflightSpec == PreflightInit /\ [][PreflightNext]_preflightVars

----------------------------------------------------------------------------
\* Properties.

CallerPlaces == {"idle", "get", "hook", "decided", "insert", "hit"}

\* Every variable holds a value of its type, a slot holds one entry at most, at
\* an index its key's probe window reaches, and the occupancy gauge counts the
\* filled slots through expiry, refresh in place, reuse and eviction.
PreflightTypeOK ==
    /\ shard \in [Indices -> SUBSET Entry]
    /\ \A s \in Indices : \A e \in shard[s] :
        shard[s] = {e} /\ \E i \in Window : s = Idx(e.key, i)
    /\ entries = Cardinality({s \in Indices : shard[s] # {}})
    /\ clock \in Nat
    /\ policy \in 0 .. MaxVersion
    /\ place \in [Callers -> CallerPlaces]
    /\ key \in [Callers -> Keys]
    /\ now \in [Callers -> Nat]
    /\ decision \in [Callers -> Decision \cup {NoDecision}]
    /\ recorded \in [Keys -> [0 .. MaxVersion -> Int]]

\* A hit never hands a request the decision made for another key, also when
\* the two fingerprints collide (the module's guardrail: "a hash collision can
\* never leak one user's `Allow` to another"), and what it repeats was recorded
\* less than a TTL before the instant of the lookup, whatever slots it has been
\* through.  Every variable keeps its type.
HitsAreOwnAndRecent ==
    /\ PreflightTypeOK
    /\ \A r \in Callers : place[r] = "hit" =>
          /\ decision[r].key = key[r]
          /\ now[r] < recorded[key[r]][decision[r].version] + TTL

\* insert() displaces another key's live entry only when its whole window is
\* filled with live entries, and then the one that would expire first.
LiveDisplacedOnlyWhenFull ==
    [][\A r \in Callers : place[r] = "insert" /\ place'[r] = "idle" =>
        \A s \in Indices : \A e \in shard[s] :
            e \notin shard'[s] /\ e.expiry > now[r] /\ e.key # key[r] =>
                \A i \in Window : \E f \in shard[Idx(key[r], i)] :
                    f.expiry > now[r] /\ e.expiry <= f.expiry]_preflightVars

=============================================================================
