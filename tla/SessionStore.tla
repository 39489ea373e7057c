------------------------------ MODULE SessionStore -----------------------------
(***************************************************************************)
(* The in-memory session store (memory_store/in_memory/stores), used for   *)
(* user sessions and for MFA sessions.  Every operation holds one mutex,   *)
(* so each is one action.  A key is <<login method, user, sub-key>>;       *)
(* values are left out, an entry is its expiry time.                       *)
(***************************************************************************)
EXTENDS Integers, FiniteSets, Functions, FiniteSetsExt

CONSTANTS
    Methods, Users, SubKeys,  \* the parts of a key
    maxCacheSize,             \* entries after which Set evicts
    Lifetimes,                \* lifetimes callers ask for, in seconds
    MaxTime                   \* bound on the clock

ASSUME SizeAssumption ==
    /\ maxCacheSize \in Nat \ {0}
    /\ MaxTime \in Nat
    /\ Lifetimes \subseteq Nat \ {0}
    /\ \E longest \in Lifetimes \cup {0} : \A life \in Lifetimes : life <= longest

VARIABLES
    store,     \* key -> ExpiresAt
    keyIndex,  \* expiry time -> the last key set with it
    now        \* time.Now().Unix()

vars == <<store, keyIndex, now>>

Keys == Methods \X Users \X SubKeys

Times == 0 .. MaxTime + Max(Lifetimes \cup {0})

TypeOK ==
    /\ DOMAIN store \subseteq Keys
    /\ DOMAIN keyIndex \subseteq Times
    /\ Range(store) \subseteq Times
    /\ Range(keyIndex) \subseteq Keys
    /\ now \in 0 .. MaxTime

Init ==
    /\ store = [k \in {} |-> 0]
    /\ keyIndex = [t \in {} |-> 0]
    /\ now = 0

Without(f, S) == Restrict(f, DOMAIN f \ S)

With(f, x, v) == [y \in DOMAIN f \cup {x} |-> IF y = x THEN v ELSE f[y]]

Size == Cardinality(DOMAIN store)

(* Entries that Get, GetAll and FindOwnerBySuffix no longer serve. *)
Stale(S) == {k \in S \cap DOMAIN store : store[k] <= now}

-----------------------------------------------------------------------------

(* A Set of a new key makes room only when the size is exactly the bound. *)
Full(k) == k \notin DOMAIN store /\ Size = maxCacheSize

(* Mutation of Set: the expiry time is taken for a lifetime. *)
SetRelative(k, life) ==
    /\ store' = With(store, k, now + now + life)
    /\ keyIndex' = With(keyIndex, now + now + life, k)
    /\ UNCHANGED now

(* Mutation of Set: eviction throws out everything. *)
SetClearing(k, life) ==
    /\ store' = With(IF Full(k) THEN [j \in {} |-> 0] ELSE store, k, now + life)
    /\ keyIndex' = With(keyIndex, now + life, k)
    /\ UNCHANGED now

(* Mutation of Set: the entry with the largest expiry is evicted. *)
SetEvictsNewest(k, life) ==
    LET newest == Max(DOMAIN keyIndex)
    IN  /\ IF Full(k) /\ DOMAIN keyIndex # {}
             THEN /\ store' = With(Without(store, {keyIndex[newest]}), k, now + life)
                  /\ keyIndex' = With(Without(keyIndex, {newest}), now + life, k)
             ELSE /\ store' = With(store, k, now + life)
                  /\ keyIndex' = With(keyIndex, now + life, k)
        /\ UNCHANGED now

(* Set: the index entry with the smallest expiry names the victim, whether *)
(* or not that key is still stored.  With an empty index a full store      *)
(* panics and nothing changes.                                             *)
Set(k, life) ==
    LET exp == now + life
        oldest == Min(DOMAIN keyIndex)
    IN  /\ \/ /\ ~Full(k)
              /\ store' = With(store, k, exp)
              /\ keyIndex' = With(keyIndex, exp, k)
           \/ /\ Full(k) /\ DOMAIN keyIndex # {}
              /\ store' = With(Without(store, {keyIndex[oldest]}), k, exp)
              /\ keyIndex' = With(Without(keyIndex, {oldest}), exp, k)
           \/ Full(k) /\ DOMAIN keyIndex = {} /\ UNCHANGED <<store, keyIndex>>
        /\ UNCHANGED now

(* Operations that only take entries out of the map; the index stays. *)
Delete(S) ==
    /\ store' = Without(store, S)
    /\ UNCHANGED <<keyIndex, now>>

Get(k) == Delete(Stale({k}))

GetAll(m, u) == Delete(Stale({<<m, u, s>> : s \in SubKeys}))

(* FindOwnerBySuffix stops at the first served entry; which stale entries  *)
(* the map iteration meets before it is arbitrary.                         *)
FindOwnerBySuffix(s) ==
    LET matching == {k \in DOMAIN store : k[3] = s}
    IN  \E met \in SUBSET Stale(matching) :
           /\ matching = Stale(matching) => met = matching
           /\ Delete(met)

Remove(k) == Delete({k})

(* Claim reports whether it removed the entry; only then does it act. *)
Claim(k) == k \in DOMAIN store /\ Delete({k})

RemoveAll(u) == Delete({k \in Keys : k[2] = u})

RemoveByNamespace(m) == Delete({k \in Keys : k[1] = m})

(* One round of the clean goroutine. *)
Clean ==
    LET gone == {k \in DOMAIN store : store[k] < now}
    IN  /\ store' = Without(store, gone)
        /\ keyIndex' = Without(keyIndex, {store[k] : k \in gone})
        /\ UNCHANGED now

Tick ==
    /\ now < MaxTime
    /\ now' = now + 1
    /\ UNCHANGED <<store, keyIndex>>

Next ==
    \/ \E k \in Keys, life \in Lifetimes : Set(k, life)
    \/ \E k \in Keys : Get(k) \/ Remove(k) \/ Claim(k)
    \/ \E m \in Methods, u \in Users : GetAll(m, u)
    \/ \E s \in SubKeys : FindOwnerBySuffix(s)
    \/ \E u \in Users : RemoveAll(u)
    \/ \E m \in Methods : RemoveByNamespace(m)
    \/ Clean
    \/ Tick

Spec == Init /\ [][Next]_vars

-----------------------------------------------------------------------------
(* Properties.                                                             *)

(* The store is what the handlers take it for: whatever the state of the   *)
(* index, entries appear only through Set, keep their expiry, and a Set    *)
(* that evicts costs at most one other entry.                              *)
Map == INSTANCE SessionMap WITH entries <- store

ImplementsSessionMap == Map!Spec

(* The index names exactly the stored entries. *)
IndexExact ==
    /\ DOMAIN keyIndex = Range(store)
    /\ \A k \in DOMAIN store : keyIndex[store[k]] = k

(* As long as the index names exactly the stored entries, no operation     *)
(* lets the store outgrow its bound, and a Set that evicts takes the entry *)
(* that expires first.                                                     *)
ExactIndexKeepsBound ==
    [][IndexExact /\ Size <= maxCacheSize =>
         /\ Size' <= maxCacheSize
         /\ \A k \in Keys :
              /\ Full(k) /\ k \in DOMAIN store'
              => \A gone \in DOMAIN store \ DOMAIN store' :
                    \A j \in DOMAIN store : store[gone] <= store[j]]_vars

(* "Maximum entries to keep in session storage": the store never holds     *)
(* more than maxCacheSize entries.                                         *)
SizeBounded == Size <= maxCacheSize

(* "check if there is enough space in cache else delete entries based on   *)
(* FIFO": a full store always has an entry to delete.                      *)
FullStoreHasVictim == Size = maxCacheSize => DOMAIN keyIndex # {}

=============================================================================
