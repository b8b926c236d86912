----------------------- MODULE CachingKeychain_proofs -----------------------
(***************************************************************************)
(* Proofs that the credential cache stays within its bound and never hands *)
(* out a credential that is too old, for any number of callers and         *)
(* registries, any TTL and any bound.                                      *)
(***************************************************************************)
EXTENDS CachingKeychain, FiniteSetTheorems, TLAPS

\* The table is finite and within its bound. Finiteness is kept as part of the
\* invariant, so that the set of registries may be infinite.
BoundInv == IsFiniteSet(Cached) /\ Bounded

\* No entry outlives its credential by the TTL; a caller about to store holds a
\* credential that was issued after it read the clock, and before that none.
ExpiryInv ==
    /\ \A r \in Cached : entries[r].expires <= entries[r].issued + TTL
    /\ \A c \in Callers : now[c] <= clock
    /\ \A c \in Callers : pc[c] \in {"lookup", "inner", "store"} => key[c] \in Registries
    /\ \A c \in Callers : pc[c] \in {"idle", "lookup", "inner"} => cred[c] = None
    /\ \A c \in Callers : pc[c] = "store" => cred[c] # None /\ now[c] <= cred[c]
    /\ NeverTooOld

Inv == TypeOK /\ BoundInv /\ ExpiryInv

\* Whatever the caller's clock, what the table keeps is finite and leaves room
\* for one more entry.
LEMMA KeptLeavesRoom ==
    ASSUME NEW t, BoundInv
    PROVE  IsFiniteSet(Kept(t)) /\ Cardinality(Kept(t)) < MaxCached
<1> DEFINE unexpired == {r \in Cached : Fresh(r, t)}
<1>1. IsFiniteSet(unexpired)
  <2>1. unexpired \subseteq Cached
    OBVIOUS
  <2> QED
    BY <2>1, FS_Subset DEF BoundInv
<1>2. IsFiniteSet({}) /\ Cardinality({}) = 0
  BY FS_EmptySet
<1>3. 0 < MaxCached
  BY MaxCachedAssumption
<1> HIDE DEF unexpired
<1>4. Kept(t) = IF Cardinality(Cached) < MaxCached THEN Cached
                ELSE IF Cardinality(unexpired) < MaxCached THEN unexpired ELSE {}
  BY DEF Kept, unexpired
<1> QED
  BY <1>1, <1>2, <1>3, <1>4 DEF BoundInv

\* Storing a credential keeps the table finite and within its bound.
LEMMA StoreBounded ==
    ASSUME Inv, NEW c \in Callers, Store(c)
    PROVE  BoundInv'
<1> DEFINE K == Kept(now[c])
<1>1. IsFiniteSet(K) /\ Cardinality(K) < MaxCached
  BY KeptLeavesRoom DEF Inv
<1>2. K \subseteq Cached
  BY DEF Kept
<1>3. Cached' \subseteq K \cup {key[c]}
  BY <1>2 DEF Store, Cached
<1> HIDE DEF K
<1>4. IsFiniteSet(K \cup {key[c]})
  BY <1>1, FS_AddElement
<1>5. Cardinality(K \cup {key[c]}) <= Cardinality(K) + 1
  <2>1. Cardinality(K) \in Nat
    BY <1>1, FS_CardinalityType
  <2>2. Cardinality(K \cup {key[c]}) =
          IF key[c] \in K THEN Cardinality(K) ELSE Cardinality(K) + 1
    BY <1>1, FS_AddElement
  <2> QED
    BY <2>1, <2>2
<1>6. IsFiniteSet(Cached')
  BY <1>3, <1>4, FS_Subset
<1>7. Cardinality(Cached') <= Cardinality(K \cup {key[c]})
  BY <1>3, <1>4, FS_Subset
<1>8. /\ Cardinality(K) \in Nat /\ Cardinality(Cached') \in Nat
      /\ Cardinality(K \cup {key[c]}) \in Nat
  BY <1>1, <1>4, <1>6, FS_CardinalityType
<1>9. Cardinality(Cached') <= MaxCached
  BY <1>1, <1>5, <1>7, <1>8, MaxCachedAssumption
<1> QED
  BY <1>6, <1>9 DEF BoundInv, Bounded, Cached

\* Every step preserves the invariant.
LEMMA InvStep ==
    ASSUME Inv, [Next]_vars
    PROVE  Inv'
<1> USE TTLAssumption, NoneAssumption DEF Inv
<1>1. CASE Tick
  <2>1. TypeOK'
    BY <1>1 DEF TypeOK, Tick
  <2>2. BoundInv'
    BY <1>1 DEF BoundInv, Bounded, Cached, Tick
  <2>3. ExpiryInv'
    BY <1>1 DEF ExpiryInv, NeverTooOld, TypeOK, Cached, Tick
  <2> QED
    BY <2>1, <2>2, <2>3
<1>2. ASSUME NEW c \in Callers, NEW r \in Registries, Resolve(c, r)
      PROVE  Inv'
  <2>1. TypeOK'
    BY <1>2 DEF TypeOK, Resolve
  <2>2. BoundInv'
    BY <1>2 DEF BoundInv, Bounded, Cached, Resolve
  <2>3. ExpiryInv'
    BY <1>2 DEF ExpiryInv, NeverTooOld, TypeOK, Cached, Resolve
  <2> QED
    BY <2>1, <2>2, <2>3
<1>3. ASSUME NEW c \in Callers, Lookup(c)
      PROVE  Inv'
  <2>1. key[c] \in Registries
    BY <1>3 DEF ExpiryInv, Lookup
  <2>2. CASE Fresh(key[c], now[c])
    <3>1. entries[key[c]] \in Entry /\ key[c] \in Cached
      BY <2>1, <2>2 DEF TypeOK, Fresh, Cached
    <3>2. entries[key[c]].issued \in Nat /\ entries[key[c]].expires \in Nat
      BY <3>1 DEF Entry
    <3>3. TypeOK'
      BY <1>3, <2>2, <3>2 DEF TypeOK, Lookup
    <3>4. BoundInv'
      BY <1>3 DEF BoundInv, Bounded, Cached, Lookup
    <3>5. now[c] - entries[key[c]].issued < TTL
      BY <2>2, <3>1, <3>2 DEF ExpiryInv, Fresh, TypeOK
    <3>6. NeverTooOld'
      BY <1>3, <2>2, <3>2, <3>5 DEF ExpiryInv, NeverTooOld, TypeOK, Lookup
    <3>7. ExpiryInv'
      BY <1>3, <2>2, <3>6 DEF ExpiryInv, TypeOK, Lookup, Cached
    <3> QED
      BY <3>3, <3>4, <3>7
  <2>3. CASE ~Fresh(key[c], now[c])
    <3>1. TypeOK'
      BY <1>3, <2>3 DEF TypeOK, Lookup
    <3>2. BoundInv'
      BY <1>3 DEF BoundInv, Bounded, Cached, Lookup
    <3>3. ExpiryInv'
      BY <1>3, <2>3 DEF ExpiryInv, NeverTooOld, TypeOK, Cached, Lookup
    <3> QED
      BY <3>1, <3>2, <3>3
  <2> QED
    BY <2>2, <2>3
<1>4. ASSUME NEW c \in Callers, InnerResolve(c)
      PROVE  Inv'
  <2>1. TypeOK'
    BY <1>4 DEF TypeOK, InnerResolve
  <2>2. BoundInv'
    BY <1>4 DEF BoundInv, Bounded, Cached, InnerResolve
  <2>3. ExpiryInv'
    BY <1>4 DEF ExpiryInv, NeverTooOld, TypeOK, Cached, InnerResolve
  <2> QED
    BY <2>1, <2>2, <2>3
<1>5. ASSUME NEW c \in Callers, InnerHasNone(c)
      PROVE  Inv'
  <2>1. TypeOK'
    BY <1>5 DEF TypeOK, InnerHasNone
  <2>2. BoundInv'
    BY <1>5 DEF BoundInv, Bounded, Cached, InnerHasNone
  <2>3. ExpiryInv'
    BY <1>5 DEF ExpiryInv, NeverTooOld, TypeOK, Cached, InnerHasNone
  <2> QED
    BY <2>1, <2>2, <2>3
<1>6. ASSUME NEW c \in Callers, Store(c)
      PROVE  Inv'
  <2>1. cred[c] \in Nat /\ now[c] \in Nat /\ now[c] <= cred[c]
    BY <1>6 DEF ExpiryInv, TypeOK, Store
  <2> DEFINE new == [issued |-> cred[c], expires |-> now[c] + TTL]
  <2>2. new \in Entry
    BY <2>1 DEF Entry
  <2>3. TypeOK'
    BY <1>6, <2>2 DEF TypeOK, Store
  <2>4. BoundInv'
    BY <1>6, StoreBounded
  <2>5. ASSUME NEW r \in Cached'
        PROVE  entries'[r].expires <= entries'[r].issued + TTL
    <3>1. r \in Registries
      BY <2>5 DEF Cached
    <3>2. CASE r = key[c]
      BY <1>6, <2>1, <3>1, <3>2 DEF Store
    <3>3. CASE r # key[c]
      <4>1. entries'[r] = entries[r] /\ r \in Cached
        BY <1>6, <2>5, <3>1, <3>3 DEF Store, Cached
      <4> QED
        BY <4>1 DEF ExpiryInv
    <3> QED
      BY <3>2, <3>3
  <2>6. NeverTooOld'
    BY <1>6, <2>1 DEF ExpiryInv, NeverTooOld, TypeOK, Store
  <2>7. ExpiryInv'
    BY <1>6, <2>5, <2>6 DEF ExpiryInv, TypeOK, Store
  <2> QED
    BY <2>3, <2>4, <2>7
<1>7. ASSUME NEW c \in Callers, Return(c)
      PROVE  Inv'
  <2>1. TypeOK'
    BY <1>7 DEF TypeOK, Return
  <2>2. BoundInv'
    BY <1>7 DEF BoundInv, Bounded, Cached, Return
  <2>3. ExpiryInv'
    BY <1>7 DEF ExpiryInv, NeverTooOld, TypeOK, Cached, Return
  <2> QED
    BY <2>1, <2>2, <2>3
<1>8. CASE UNCHANGED vars
  <2>1. TypeOK'
    BY <1>8 DEF TypeOK, vars
  <2>2. BoundInv'
    BY <1>8 DEF BoundInv, Bounded, Cached, vars
  <2>3. ExpiryInv'
    BY <1>8 DEF ExpiryInv, NeverTooOld, Cached, vars
  <2> QED
    BY <2>1, <2>2, <2>3
<1> QED
  BY <1>1, <1>2, <1>3, <1>4, <1>5, <1>6, <1>7, <1>8 DEF Next

\* The invariant holds at the start, when nothing is cached.
LEMMA InvInit ==
    ASSUME Init
    PROVE  Inv
<1>1. Cached = {}
  BY DEF Init, Cached
<1>2. BoundInv
  BY <1>1, FS_EmptySet, MaxCachedAssumption DEF BoundInv, Bounded
<1>3. TypeOK
  BY DEF Init, TypeOK
<1>4. ExpiryInv
  BY <1>1 DEF Init, ExpiryInv, NeverTooOld
<1> QED
  BY <1>2, <1>3, <1>4 DEF Inv

\* Each variable keeps its type, however calls, expirations and failures interleave.
THEOREM TypeCorrect == Spec => []TypeOK
<1>1. Inv => TypeOK
  BY DEF Inv
<1> QED
  BY <1>1, InvInit, InvStep, PTL DEF Spec

\* Resolve never lets the credential cache outgrow maxCachedRegistries.
THEOREM BoundedHolds == Spec => []Bounded
<1>1. Inv => Bounded
  BY DEF Inv, BoundInv
<1> QED
  BY <1>1, InvInit, InvStep, PTL DEF Spec

\* Resolve never returns a credential issued a TTL or more before the call.
THEOREM NeverTooOldHolds == Spec => []NeverTooOld
<1>1. Inv => NeverTooOld
  BY DEF Inv, ExpiryInv
<1> QED
  BY <1>1, InvInit, InvStep, PTL DEF Spec
=============================================================================
