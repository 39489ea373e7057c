--------------------------- MODULE SessionStoreProofs --------------------------
(***************************************************************************)
(* Proofs about SessionStore: it implements SessionMap whatever its index  *)
(* holds, and with an exact index it keeps its bound and evicts the entry  *)
(* that expires first.                                                     *)
(***************************************************************************)
EXTENDS SessionStore, TLAPS, FiniteSetTheorems

-----------------------------------------------------------------------------
(* The maps.                                                               *)

(* Taking keys out leaves the other entries as they are.                   *)
LEMMA WithoutKeeps ==
    ASSUME NEW f, NEW S
    PROVE  /\ DOMAIN Without(f, S) = DOMAIN f \ S
           /\ \A x \in DOMAIN f \ S : Without(f, S)[x] = f[x]
BY Zenon DEF Without, Restrict

(* The values of a map stay in a set that holds the new one.               *)
LEMMA WithoutRange ==
    ASSUME NEW f, NEW S, NEW T, Range(f) \subseteq T
    PROVE  Range(Without(f, S)) \subseteq T
<1> DEFINE g == Without(f, S)
<1>1. \A x \in DOMAIN f : f[x] \in T
  BY Zenon DEF Range
<1>2. DOMAIN g = DOMAIN f \ S /\ \A x \in DOMAIN f \ S : g[x] = f[x]
  BY WithoutKeeps, Zenon
<1> HIDE DEF g
<1>3. \A x \in DOMAIN g : g[x] \in T
  BY <1>1, <1>2, Zenon
<1>4. Range(g) \subseteq T
  BY <1>3, Zenon DEF Range
<1> QED
  BY <1>4, Zenon DEF g

(* The same when a key is set to one of them.                              *)
LEMMA WithRange ==
    ASSUME NEW f, NEW x, NEW v, NEW T, Range(f) \subseteq T, v \in T
    PROVE  Range(With(f, x, v)) \subseteq T
<1>1. \A y \in DOMAIN f : f[y] \in T
  BY Zenon DEF Range
<1> DEFINE g == With(f, x, v)
<1>2. /\ DOMAIN g = DOMAIN f \cup {x} /\ g[x] = v
      /\ \A y \in DOMAIN f \ {x} : g[y] = f[y]
  BY Zenon DEF With
<1> HIDE DEF g
<1>3. ASSUME NEW y \in DOMAIN g PROVE g[y] \in T
  <2>1. CASE y = x
    BY <1>2, <2>1, Zenon
  <2>2. CASE y # x
    BY <1>1, <1>2, <2>2, Zenon
  <2> QED
    BY <2>1, <2>2, Zenon
<1>4. Range(g) \subseteq T
  BY <1>3, Zenon DEF Range
<1> QED
  BY <1>4, Zenon DEF g

-----------------------------------------------------------------------------
(* The smallest expiry.                                                    *)

Below == {p \in Nat \X Nat : p[1] < p[2]}

(* A set of times has a smallest one, which Min returns.                   *)
LEMMA MinIsLeast ==
    ASSUME NEW T, T \subseteq Nat, T # {}
    PROVE  Min(T) \in T /\ \A t \in T : Min(T) <= t
<1>1. IsWellFoundedOn(Below, Nat)
  BY NatLessThanWellFounded, Zenon DEF OpToRel, Below
<1>2. PICK x \in T : \A y \in T : ~ (<<y, x>> \in Below)
  BY <1>1, WFMin, Zenon
<1>3. ASSUME NEW y \in T PROVE x <= y
  <2>1. x \in Nat /\ y \in Nat /\ <<y, x>> \notin Below
    BY <1>2, Zenon
  <2>2. <<y, x>> \in Nat \X Nat => ~ (<<y, x>>[1] < <<y, x>>[2])
    BY <2>1, Zenon DEF Below
  <2> QED
    BY <2>1, <2>2, SMT
<1> QED
  BY <1>2, <1>3, Zenon DEF Min

(* The longest lifetime is one of them.                                    *)
LEMMA LongestLifetime ==
    LET longest == Max(Lifetimes \cup {0})
    IN  longest \in Nat /\ \A life \in Lifetimes : life <= longest
<1>1. PICK x \in Lifetimes \cup {0} : \A life \in Lifetimes : life <= x
  BY SizeAssumption, Zenon
<1>2. x \in Nat /\ \A life \in Lifetimes \cup {0} : x >= life
  BY <1>1, SizeAssumption, SMT
<1>3. /\ Max(Lifetimes \cup {0}) \in Lifetimes \cup {0}
      /\ \A life \in Lifetimes \cup {0} : Max(Lifetimes \cup {0}) >= life
  BY <1>1, <1>2, Zenon DEF Max
<1> DEFINE m == Max(Lifetimes \cup {0})
<1>4. m \in Lifetimes \cup {0} /\ \A life \in Lifetimes \cup {0} : m >= life
  BY <1>3
<1> HIDE DEF m
<1>5. m \in Nat /\ \A life \in Lifetimes : life <= m
  BY <1>4, SizeAssumption, SMT
<1> QED
  BY <1>5 DEF m

-----------------------------------------------------------------------------
(* The types.                                                              *)

Typed == TypeOK /\ IsFiniteSet(DOMAIN store)

(* All steps but Set only take entries out of the two maps.                *)
Removes ==
    /\ store' = store \/ \E S : store' = Without(store, S)
    /\ keyIndex' = keyIndex \/ \E S : keyIndex' = Without(keyIndex, S)
    /\ now' = now \/ (now < MaxTime /\ now' = now + 1)

(* Every operation either removes or is a Set.                             *)
LEMMA Steps ==
    ASSUME [Next]_vars
    PROVE  Removes \/ \E k \in Keys, life \in Lifetimes : Set(k, life)
<1>1. ASSUME NEW S, Delete(S) PROVE Removes
  BY <1>1, Zenon DEF Delete, Removes
<1>2. ASSUME NEW k, Get(k) \/ Remove(k) \/ Claim(k) PROVE Removes
  BY <1>1, <1>2, Zenon DEF Get, Remove, Claim
<1>3. ASSUME NEW m, NEW u, GetAll(m, u) PROVE Removes
  BY <1>1, <1>3, Zenon DEF GetAll
<1>4. ASSUME NEW s, FindOwnerBySuffix(s) PROVE Removes
  BY <1>1, <1>4, Zenon DEF FindOwnerBySuffix
<1>5. ASSUME NEW x, RemoveAll(x) \/ RemoveByNamespace(x) PROVE Removes
  BY <1>1, <1>5, Zenon DEF RemoveAll, RemoveByNamespace
<1>6. CASE Clean
  BY <1>6, Zenon DEF Clean, Removes
<1>7. CASE Tick \/ UNCHANGED vars
  BY <1>7, Zenon DEF Tick, vars, Removes
<1> QED
  BY <1>2, <1>3, <1>4, <1>5, <1>6, <1>7, Zenon DEF Next

(* What a Set of k leaves in the store, with the keys it evicts.           *)
Wrote(k, life, victims) ==
    /\ DOMAIN store' = (DOMAIN store \ victims) \cup {k}
    /\ store'[k] = now + life
    /\ \A j \in DOMAIN store' \ {k} : store'[j] = store[j]

(* A Set panics, fits, or evicts the key under the smallest expiry.        *)
LEMMA SetShape ==
    ASSUME Typed, NEW k, NEW life, Set(k, life)
    PROVE  \/ store' = store
           \/ ~Full(k) /\ Wrote(k, life, {})
           \/ /\ Full(k)
              /\ \E t \in DOMAIN keyIndex :
                    /\ \A u \in DOMAIN keyIndex : t <= u
                    /\ Wrote(k, life, {keyIndex[t]})
<1> DEFINE exp == now + life
           oldest == Min(DOMAIN keyIndex)
           victim == keyIndex[oldest]
<1>1. CASE ~Full(k) /\ store' = With(store, k, exp)
  <2>1. Wrote(k, life, {})
    <3>1. /\ DOMAIN store' = DOMAIN store \cup {k} /\ store'[k] = exp
          /\ \A j \in DOMAIN store \ {k} : store'[j] = store[j]
      BY <1>1, Zenon DEF With
    <3> QED
      BY <3>1, Zenon DEF Wrote
  <2> QED
    BY <1>1, <2>1, Zenon
<1>2. CASE /\ Full(k) /\ DOMAIN keyIndex # {}
           /\ store' = With(Without(store, {victim}), k, exp)
  <2>1. DOMAIN keyIndex \subseteq Nat
    <3>1. DOMAIN keyIndex \subseteq Times
      BY Zenon DEF Typed, TypeOK
    <3> QED
      BY <3>1, SMT DEF Times
  <2>2. oldest \in DOMAIN keyIndex /\ \A u \in DOMAIN keyIndex : oldest <= u
    BY <1>2, <2>1, MinIsLeast, Zenon
  <2>3. Wrote(k, life, {victim})
    <3> DEFINE f == Without(store, {victim})
    <3>1. /\ DOMAIN f = DOMAIN store \ {victim}
          /\ \A x \in DOMAIN store \ {victim} : f[x] = store[x]
      BY WithoutKeeps, Zenon
    <3>2. store' = With(f, k, exp)
      BY <1>2
    <3> HIDE DEF f, victim
    <3>3. /\ DOMAIN store' = DOMAIN f \cup {k} /\ store'[k] = exp
          /\ \A j \in DOMAIN f \ {k} : store'[j] = f[j]
      BY <3>2, Zenon DEF With
    <3> QED
      BY <3>1, <3>3, Zenon DEF Wrote
  <2> QED
    BY <1>2, <2>2, <2>3, Zenon
<1> QED
  BY <1>1, <1>2, Zenon DEF Set

-----------------------------------------------------------------------------
(* The store implements the map of the handlers.                           *)

(* Removing entries is a loss the map allows,                              *)
LEMMA RemovesDrops ==
    ASSUME Removes
    PROVE  [Map!Next]_store
<1>1. ASSUME NEW S, store' = Without(store, S) PROVE Map!Drop
  BY <1>1, Zenon DEF Without, Restrict, Map!Drop, Map!Lose, Map!Restrict
<1> QED
  BY <1>1, Zenon DEF Removes, Map!Next

(* and writing one entry a Put,                                            *)
LEMMA WroteIsPut ==
    ASSUME NEW k, NEW life, NEW v, NEW victims, victims \in {{}, {v}},
           Wrote(k, life, victims)
    PROVE  Map!Put(k)
<1>2. DOMAIN store \ DOMAIN store' \subseteq {v}
  BY Zenon DEF Wrote
<1>3. /\ DOMAIN store' \subseteq DOMAIN store \cup {k}
      /\ k \in DOMAIN store'
      /\ \A j \in DOMAIN store' \ {k} : store'[j] = store[j]
  BY Zenon DEF Wrote
<1> QED
  BY <1>2, <1>3, Zenon DEF Map!Put

(* so a Set is a Put, or changes nothing.                                  *)
LEMMA SetIsPut ==
    ASSUME Typed, NEW k \in Keys, NEW life, Set(k, life)
    PROVE  [Map!Next]_store
<1>1. CASE store' = store
  BY <1>1, Zenon
<1>2. ASSUME NEW v, NEW victims \in {{}, {v}}, Wrote(k, life, victims)
      PROVE  [Map!Next]_store
  <2>1. Map!Put(k)
    BY <1>2, WroteIsPut, Zenon
  <2> QED
    BY <2>1, Zenon DEF Map!Next
<1> QED
  BY <1>1, <1>2, SetShape, Zenon

(* Every new state is typed: expiry times stay below the last one the      *)
(* clock and the longest lifetime allow, and the store stays finite.       *)
LEMMA SetTyped ==
    ASSUME Typed, NEW k \in Keys, NEW life \in Lifetimes, Set(k, life)
    PROVE  Typed'
<1> DEFINE exp == now + life
           oldest == Min(DOMAIN keyIndex)
           victim == keyIndex[oldest]
<1>1. exp \in Times
  <2> DEFINE m == Max(Lifetimes \cup {0})
  <2>1. m \in Nat /\ life <= m
    BY LongestLifetime
  <2>2. now \in 0..MaxTime
    BY Zenon DEF Typed, TypeOK
  <2>3. Times = 0..(MaxTime + m)
    BY Zenon DEF Times
  <2> HIDE DEF m
  <2> QED
    BY <2>1, <2>2, <2>3, SizeAssumption, SMT
<1>2. ASSUME NEW f, NEW g, DOMAIN f \subseteq DOMAIN store,
             Range(f) \subseteq Times,
             DOMAIN g \subseteq Times, Range(g) \subseteq Keys,
             store' = With(f, k, exp), keyIndex' = With(g, exp, k), now' = now
      PROVE  Typed'
  <2> HIDE DEF exp
  <2>1. DOMAIN store' = DOMAIN f \cup {k} /\ DOMAIN keyIndex' = DOMAIN g \cup {exp}
    BY <1>2, Zenon DEF With
  <2>2. Range(store') \subseteq Times
    BY <1>1, <1>2, WithRange, Zenon
  <2>3. Range(keyIndex') \subseteq Keys
    BY <1>2, WithRange, Zenon
  <2>4. IsFiniteSet(DOMAIN f)
    BY <1>2, FS_Subset, Zenon DEF Typed
  <2>9. IsFiniteSet(DOMAIN f \cup {k})
    BY <2>4, FS_AddElement, Zenon
  <2>5. IsFiniteSet(DOMAIN store')
    BY <2>1, <2>9, Zenon
  <2>6. DOMAIN store' \subseteq Keys /\ DOMAIN keyIndex' \subseteq Times
    BY <1>1, <1>2, <2>1, Zenon DEF Typed, TypeOK
  <2>7. Times' = Times /\ Keys' = Keys
    BY Zenon DEF Times, Keys
  <2>8. TypeOK'
    BY <1>2, <2>2, <2>3, <2>6, <2>7, Zenon DEF Typed, TypeOK
  <2> QED
    BY <2>5, <2>8, Zenon DEF Typed
<1>3. CASE store' = With(store, k, exp) /\ keyIndex' = With(keyIndex, exp, k)
  <2>1. now' = now
    BY Zenon DEF Set
  <2> QED
    BY <1>2, <1>3, <2>1, Zenon DEF Typed, TypeOK
<1>4. CASE /\ store' = With(Without(store, {victim}), k, exp)
           /\ keyIndex' = With(Without(keyIndex, {oldest}), exp, k)
  <2> DEFINE f == Without(store, {victim})
             g == Without(keyIndex, {oldest})
  <2>1. now' = now
    BY Zenon DEF Set
  <2>2. DOMAIN f \subseteq DOMAIN store /\ DOMAIN g \subseteq DOMAIN keyIndex
    BY Zenon DEF Without, Restrict
  <2>3. Range(f) \subseteq Times /\ Range(g) \subseteq Keys
    BY WithoutRange, Zenon DEF Typed, TypeOK
  <2>4. store' = With(f, k, exp) /\ keyIndex' = With(g, exp, k)
    BY <1>4
  <2> HIDE DEF f, g, exp
  <2>5. DOMAIN g \subseteq Times
    BY <2>2, Zenon DEF Typed, TypeOK
  <2> QED
    BY <1>2, <2>1, <2>2, <2>3, <2>4, <2>5, Zenon
<1>5. CASE UNCHANGED <<store, keyIndex, now>>
  BY <1>5, Zenon DEF Typed, TypeOK, Times, Keys
<1> QED
  BY <1>3, <1>4, <1>5, Zenon DEF Set

(* Removing entries keeps the types.                                       *)
LEMMA RemovesTyped ==
    ASSUME Typed, Removes
    PROVE  Typed'
<1>1. /\ DOMAIN store' \subseteq DOMAIN store
      /\ DOMAIN keyIndex' \subseteq DOMAIN keyIndex
  BY Zenon DEF Removes, Without, Restrict
<1>2. Range(store') \subseteq Times /\ Range(keyIndex') \subseteq Keys
  BY WithoutRange, Zenon DEF Removes, Typed, TypeOK
<1>3. now' \in 0..MaxTime
  <2>1. now \in 0..MaxTime /\ (now' = now \/ (now < MaxTime /\ now' = now + 1))
    BY Zenon DEF Removes, Typed, TypeOK
  <2> QED
    BY <2>1, SizeAssumption, SMT
<1>4. IsFiniteSet(DOMAIN store')
  BY <1>1, FS_Subset, Zenon DEF Typed
<1>5. Times' = Times /\ Keys' = Keys
  BY Zenon DEF Times, Keys
<1>6. DOMAIN store' \subseteq Keys /\ DOMAIN keyIndex' \subseteq Times
  BY <1>1, Zenon DEF Typed, TypeOK
<1>7. TypeOK'
  BY <1>2, <1>3, <1>5, <1>6, Zenon DEF TypeOK
<1> QED
  BY <1>4, <1>7, Zenon DEF Typed

(* The empty store is typed.                                               *)
LEMMA TypedInit == Init => Typed
<1> SUFFICES ASSUME Init PROVE Typed
  OBVIOUS
<1>1. DOMAIN store = {} /\ DOMAIN keyIndex = {}
  BY Zenon DEF Init
<1>2. Range(store) = {} /\ Range(keyIndex) = {}
  BY <1>1, Zenon DEF Range
<1>3. now \in 0..MaxTime
  BY SizeAssumption, SMT DEF Init
<1>4. IsFiniteSet(DOMAIN store)
  BY <1>1, FS_EmptySet, Zenon
<1> QED
  BY <1>1, <1>2, <1>3, <1>4, Zenon DEF Typed, TypeOK

(* Hence the types always hold.                                            *)
LEMMA AlwaysTyped == Spec => []Typed
<1>1. Typed /\ [Next]_vars => Typed'
  BY Steps, SetTyped, RemovesTyped, Zenon
<1> QED
  BY <1>1, TypedInit, PTL DEF Spec

(* Sessions and their index stay well formed: keys are keys, and no expiry *)
(* time is later than the clock and the longest lifetime allow.            *)
THEOREM TypeCorrect == Spec => []TypeOK
<1>1. Typed => TypeOK
  BY DEF Typed
<1> QED
  BY <1>1, AlwaysTyped, PTL

(* Whatever the index holds, entries come only through Set, keep their     *)
(* expiry, and a Set costs at most one entry of somebody else.             *)
THEOREM StoreIsSessionMap == Spec => ImplementsSessionMap
<1>1. Init => Map!Init
  BY Zenon DEF Init, Map!Init
<1>2. Typed /\ [Next]_vars => [Map!Next]_store
  BY Steps, RemovesDrops, SetIsPut, Zenon
<1> QED
  BY <1>1, <1>2, AlwaysTyped, PTL DEF Spec, ImplementsSessionMap, Map!Spec

-----------------------------------------------------------------------------
(* The bound, while the index is exact.                                    *)

KeepsBound ==
    /\ Size' <= maxCacheSize
    /\ \A k \in Keys :
         /\ Full(k) /\ k \in DOMAIN store'
         => \A gone \in DOMAIN store \ DOMAIN store' :
               \A j \in DOMAIN store : store[gone] <= store[j]

(* Taking entries out never evicts.                                        *)
LEMMA RemovesBound ==
    ASSUME Typed, Removes \/ store' = store, Size <= maxCacheSize
    PROVE  KeepsBound
<1>1. DOMAIN store' \subseteq DOMAIN store
  BY Zenon DEF Removes, Without, Restrict
<1>2. /\ IsFiniteSet(DOMAIN store) /\ IsFiniteSet(DOMAIN store')
      /\ Cardinality(DOMAIN store') <= Cardinality(DOMAIN store)
  BY <1>1, FS_Subset, Zenon DEF Typed
<1>3. Cardinality(DOMAIN store) \in Nat /\ Cardinality(DOMAIN store') \in Nat
  BY <1>2, FS_CardinalityType, Zenon
<1>4. Size' <= maxCacheSize
  BY <1>2, <1>3, SizeAssumption, SMT DEF Size
<1>5. \A k : Full(k) => k \notin DOMAIN store'
  BY <1>1, Zenon DEF Full
<1> QED
  BY <1>4, <1>5, Zenon DEF KeepsBound

(* A Set with room to spare adds at most one entry and loses none.         *)
LEMMA RoomBound ==
    ASSUME Typed, Size <= maxCacheSize, NEW k, NEW life, ~Full(k), Wrote(k, life, {})
    PROVE  KeepsBound
<1> DEFINE D == DOMAIN store
           n == Cardinality(D)
<1>1. DOMAIN store' = D \cup {k}
  BY Zenon DEF Wrote
<1>2. IsFiniteSet(D) /\ n \in Nat
  BY FS_CardinalityType, Zenon DEF Typed
<1>3. Cardinality(D \cup {k}) = IF k \in D THEN n ELSE n + 1
  BY <1>2, FS_AddElement, Zenon
<1>4. n <= maxCacheSize /\ (k \in D \/ n # maxCacheSize)
  BY Zenon DEF Full, Size
<1>5. Cardinality(DOMAIN store') <= maxCacheSize
  <2> HIDE DEF D, n
  <2>1. Cardinality(D \cup {k}) <= maxCacheSize
    BY <1>2, <1>3, <1>4, SizeAssumption, SMT
  <2> QED
    BY <1>1, <2>1, Zenon
<1>6. DOMAIN store \ DOMAIN store' = {}
  BY <1>1, Zenon
<1> QED
  BY <1>5, <1>6, Zenon DEF KeepsBound, Size

(* A Set that evicts replaces one entry, and with an exact index it is the *)
(* one that expires first.                                                 *)
LEMMA EvictionBound ==
    ASSUME Typed, IndexExact, NEW k, NEW life, Full(k), NEW t \in DOMAIN keyIndex,
           \A u \in DOMAIN keyIndex : t <= u, Wrote(k, life, {keyIndex[t]})
    PROVE  KeepsBound
<1> DEFINE D == DOMAIN store
           v == keyIndex[t]
           rest == D \ {v}
           n == Cardinality(D)
<1>1. v \in D /\ store[v] = t
  <2>1. PICK j \in DOMAIN store : store[j] = t
    BY Zenon DEF IndexExact, Range
  <2>2. keyIndex[store[j]] = j
    BY Zenon DEF IndexExact
  <2> QED
    BY <2>1, <2>2, Zenon
<1>2. DOMAIN store' = rest \cup {k}
  BY Zenon DEF Wrote
<1>3. IsFiniteSet(D) /\ n \in Nat
  BY FS_CardinalityType, Zenon DEF Typed
<1>4. k \notin D /\ n = maxCacheSize
  BY Zenon DEF Full, Size
<1>5. IsFiniteSet(rest) /\ Cardinality(rest) = n - 1
  BY <1>1, <1>3, FS_RemoveElement, Zenon
<1>6. Cardinality(rest \cup {k}) = Cardinality(rest) + 1
  BY <1>4, <1>5, FS_AddElement, Zenon
<1>7. Cardinality(DOMAIN store') <= maxCacheSize
  <2> HIDE DEF D, n, rest
  <2>1. Cardinality(rest \cup {k}) <= maxCacheSize
    BY <1>3, <1>4, <1>5, <1>6, SizeAssumption, SMT
  <2> QED
    BY <1>2, <2>1, Zenon
<1>8. ASSUME NEW gone \in DOMAIN store \ DOMAIN store', NEW j \in DOMAIN store
      PROVE  store[gone] <= store[j]
  <2>1. gone = v
    BY <1>2, Zenon
  <2>2. store[j] \in DOMAIN keyIndex
    BY Zenon DEF IndexExact, Range
  <2> QED
    BY <1>1, <2>1, <2>2, Zenon
<1> QED
  BY <1>7, <1>8, Zenon DEF KeepsBound, Size

(* As long as the index names exactly the stored entries, no operation     *)
(* lets the store outgrow its bound, and a Set that evicts takes the entry *)
(* that expires first.                                                     *)
THEOREM ExactIndexAlwaysKeepsBound == Spec => ExactIndexKeepsBound
<1>1. ASSUME Typed, [Next]_vars, IndexExact, Size <= maxCacheSize PROVE KeepsBound
  <2>1. CASE Removes
    BY <1>1, <2>1, RemovesBound, Zenon
  <2>2. ASSUME NEW k \in Keys, NEW life \in Lifetimes, Set(k, life) PROVE KeepsBound
    BY <1>1, <2>2, SetShape, RemovesBound, RoomBound, EvictionBound, Zenon
  <2> QED
    BY <1>1, <2>1, <2>2, Steps, Zenon
<1> DEFINE Keeps == IndexExact /\ Size <= maxCacheSize =>
         /\ Size' <= maxCacheSize
         /\ \A k \in Keys :
              /\ Full(k) /\ k \in DOMAIN store'
              => \A gone \in DOMAIN store \ DOMAIN store' :
                    \A j \in DOMAIN store : store[gone] <= store[j]
<1>2. Typed /\ [Next]_vars => [Keeps]_vars
  BY <1>1, Zenon DEF KeepsBound
<1> HIDE DEF Keeps
<1>3. Spec => [][Keeps]_vars
  BY <1>2, AlwaysTyped, PTL DEF Spec
<1> QED
  BY <1>3, Zenon DEF ExactIndexKeepsBound, Keeps

=============================================================================
