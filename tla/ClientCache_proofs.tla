------------------------- MODULE ClientCache_proofs -------------------------
(* Proofs about ClientCache for any threads, names and catalogue, and any    *)
(* number of clients built: typing, one client per key, right fingerprints,  *)
(* and that the cache implements ClientPool.                                 *)
EXTENDS ClientCache, TLAPS

USE DEF Clients, NoClient

\* Whatever name is asked for, it resolves to a profile with a key of the cache,
\* and the key determines the emulation.
LEMMA Resolved ==
  ASSUME NEW door, NEW n
  PROVE  /\ Resolve(door, n) \in Profiles
         /\ PoolKey(Resolve(door, n)) \in Keys
         /\ Emulation(Resolve(door, n)) = PoolKey(Resolve(door, n))
<1>1. Resolve(door, n) \in Profiles
  BY CacheAssumption DEF CacheAssumption, Resolve, Canonical, Profiles
<1> QED BY <1>1 DEF Keys, Emulation, PoolKey

\* The key a thread works for is a key of the cache.
LEMMA KeyOfType ==
  ASSUME NEW t
  PROVE  KeyOf(t) \in Keys /\ Emulation(Wanted(t)) = KeyOf(t) /\ Emulation(Wanted(t)) \in Emulations
  BY Resolved DEF KeyOf, Wanted, Emulations

\* A client of the canonical profile emulates what the name means: the fallback
\* and pass-through have the default emulation, as a name without a profile has.
LEMMA Meant ==
  ASSUME NEW n
  PROVE  Emulation(Canonical(n)) = Emulation(TlsProfile(n))
  BY CacheAssumption DEF CacheAssumption, Canonical, TlsProfile, Emulation

\* So the key a thread works for is the fingerprint its name means.
LEMMA Means ==
  ASSUME NEW t
  PROVE  Meaning(t) = KeyOf(t) /\ Emulation(Wanted(t)) = Meaning(t) /\ Meaning(t) \in Emulations
  BY Meant, KeyOfType DEF Meaning, Wanted, Resolve

\* A cached client was built, with the emulation its key stands for.
CacheInv ==
    \A k \in Keys : cache[k] # NoClient => cache[k] <= clients /\ emulates[cache[k]] = k

\* So was the client a thread is about to offer.
MadeInv ==
    \A t \in Threads : pc[t] = "insert" =>
        made[t] # NoClient /\ made[t] <= clients /\ emulates[made[t]] = KeyOf(t)

\* What was ever handed out is still what the cache holds.
HandedInv ==
    /\ \A h \in handed : h.client = cache[h.key]
    /\ \A t \in Threads : got[t] # NoClient => got[t] = cache[KeyOf(t)]

IInv == TypeOK /\ CacheInv /\ MadeInv /\ HandedInv

\* The initial state satisfies the invariant.
LEMMA InitInv == Init => IInv
<1> SUFFICES ASSUME Init PROVE IInv
  OBVIOUS
<1>1. clients \in 0..MaxBuilds
  BY CacheAssumption DEF CacheAssumption, Init
<1>2. TypeOK
  BY <1>1 DEF Init, TypeOK
<1>3. CacheInv /\ MadeInv /\ HandedInv
  BY KeyOfType DEF Init, CacheInv, MadeInv, HandedInv
<1> QED BY <1>2, <1>3 DEF IInv

\* A step preserves the invariant.
LEMMA StepInv == IInv /\ [Next]_vars => IInv'
<1> SUFFICES ASSUME IInv, [Next]_vars PROVE IInv'
  OBVIOUS
<1> USE DEF IInv, TypeOK
<1>k. ASSUME NEW t PROVE UNCHANGED asked => KeyOf(t)' = KeyOf(t)
  BY DEF KeyOf, Wanted
<1>1. ASSUME NEW t \in Threads, NEW q \in Requests, Ask(t, q) PROVE IInv'
  <2>1. TypeOK'
    BY <1>1 DEF Ask
  <2>2. \A u \in Threads : u # t => KeyOf(u)' = KeyOf(u)
    BY <1>1 DEF Ask, KeyOf, Wanted
  <2>3. CacheInv' /\ MadeInv' /\ HandedInv'
    BY <1>1, <2>2 DEF Ask, CacheInv, MadeInv, HandedInv
  <2> QED BY <2>1, <2>3
<1>2. ASSUME NEW t \in Threads, LookupHit(t) PROVE IInv'
  <2>1. KeyOf(t) \in Keys /\ cache[KeyOf(t)] \in Clients
    BY <1>2, KeyOfType DEF LookupHit
  <2>2. TypeOK'
    BY <1>2, <2>1 DEF LookupHit, Return
  <2>3. CacheInv' /\ MadeInv' /\ HandedInv'
    BY <1>2, <1>k DEF LookupHit, Return, CacheInv, MadeInv, HandedInv
  <2> QED BY <2>2, <2>3
<1>3. ASSUME NEW t \in Threads, LookupMiss(t) \/ BuildFails(t) PROVE IInv'
  <2>1. /\ pc' = [pc EXCEPT ![t] = "build"] \/ pc' = [pc EXCEPT ![t] = "idle"]
        /\ UNCHANGED <<cache, clients, emulates, asked, made, got, handed>>
    BY <1>3 DEF LookupMiss, BuildFails
  <2>2. TypeOK'
    BY <2>1
  <2>3. \A u \in Threads : pc'[u] = "insert" => pc[u] = "insert"
    BY <2>1
  <2>4. CacheInv' /\ MadeInv' /\ HandedInv'
    BY <2>1, <2>3, <1>k DEF CacheInv, MadeInv, HandedInv
  <2> QED BY <2>2, <2>4
<1>4. ASSUME NEW t \in Threads, Build(t) PROVE IInv'
  <2>1. clients + 1 \in Clients /\ clients \in Nat
    BY <1>4, CacheAssumption DEF Build, CacheAssumption
  <2>2. TypeOK'
    BY <1>4, <2>1, KeyOfType DEF Build
  <2>3. \A c \in Clients : c <= clients => emulates'[c] = emulates[c]
    BY <1>4, <2>1 DEF Build
  <2>4. CacheInv'
    BY <1>4, <2>1, <2>3 DEF Build, CacheInv
  <2>5. MadeInv'
    <3> SUFFICES ASSUME NEW u \in Threads, pc'[u] = "insert"
                 PROVE  made'[u] # NoClient /\ made'[u] <= clients' /\ emulates'[made'[u]] = KeyOf(u)'
      BY DEF MadeInv
    <3>1. CASE u = t
      BY <1>4, <1>k, <2>1, <3>1, KeyOfType DEF Build
    <3>2. CASE u # t
      BY <1>4, <1>k, <2>1, <2>3, <3>2 DEF Build, MadeInv
    <3> QED BY <3>1, <3>2
  <2>6. HandedInv'
    BY <1>4, <1>k DEF Build, HandedInv
  <2> QED BY <2>2, <2>4, <2>5, <2>6
<1>5. ASSUME NEW t \in Threads, Insert(t) PROVE IInv'
  <2> DEFINE k == KeyOf(t)
             winner == IF cache[k] = NoClient THEN made[t] ELSE cache[k]
  <2>1. /\ k \in Keys
        /\ winner \in Clients /\ winner <= clients /\ emulates[winner] = k
    BY <1>5, KeyOfType DEF Insert, CacheInv, MadeInv
  <2>2. /\ cache' = [cache EXCEPT ![k] = winner]
        /\ pc' = [pc EXCEPT ![t] = "idle"]
        /\ got' = [got EXCEPT ![t] = winner]
        /\ handed' = handed \cup {[key |-> k, client |-> winner]}
        /\ made' = [made EXCEPT ![t] = NoClient]
        /\ UNCHANGED <<clients, emulates, asked>>
    BY <1>5 DEF Insert, Return
  <2>3. TypeOK'
    BY <2>1, <2>2
  <2>4. CacheInv' /\ MadeInv'
    BY <1>k, <2>1, <2>2 DEF CacheInv, MadeInv
  <2>5. \A j \in Keys : cache[j] # NoClient => cache'[j] = cache[j]
    BY <2>1, <2>2
  <2>6. \A h \in handed' : h.client = cache'[h.key]
    BY <2>1, <2>2, <2>5 DEF HandedInv
  <2>7. \A u \in Threads : got'[u] # NoClient => got'[u] = cache'[KeyOf(u)']
    BY <1>k, <2>1, <2>2, <2>5, KeyOfType DEF HandedInv
  <2> QED BY <2>3, <2>4, <2>6, <2>7 DEF HandedInv
<1>6. CASE UNCHANGED vars
  BY <1>6, <1>k DEF vars, CacheInv, MadeInv, HandedInv
<1> QED BY <1>1, <1>2, <1>3, <1>4, <1>5, <1>6 DEF Next, Step

\* The invariant holds in every reachable state.
LEMMA Invariance == Spec => []IInv
  BY InitInv, StepInv, PTL DEF Spec

-----------------------------------------------------------------------------
\* Every variable keeps its type.
THEOREM TypeCorrect == Spec => []TypeOK
<1>1. IInv => TypeOK
  BY DEF IInv
<1> QED BY Invariance, <1>1, PTL

\* All callers of one fingerprint share one client.
THEOREM SharedClient == Spec => []OneClientPerKey
<1>1. IInv => OneClientPerKey
  BY DEF IInv, HandedInv, OneClientPerKey
<1> QED BY Invariance, <1>1, PTL

\* The client handed out has the fingerprint that was asked for.
THEOREM RightFingerprint == Spec => []FingerprintIsRight
<1>1. IInv => \A t \in Threads : got[t] # NoClient => emulates[got[t]] = Emulation(Wanted(t))
  BY KeyOfType DEF IInv, TypeOK, CacheInv, HandedInv
<1>2. IInv => FingerprintIsRight
  BY <1>1, Means DEF FingerprintIsRight
<1> QED BY Invariance, <1>2, PTL
-----------------------------------------------------------------------------
(* The cache implements the pool: the insertion that wins and the lookup     *)
(* that hits are its answers, everything in between is invisible.            *)

calling == {t \in Threads : pc[t] # "idle"}
want == [t \in Threads |-> Meaning(t)]
cached == {j \in Keys : cache[j] # NoClient}
pool == {Held(cache[k]) : k \in cached}
answer == [t \in Threads |-> IF got[t] = NoClient THEN {} ELSE {Held(got[t])}]

\* At the start nobody calls and the pool is empty.
LEMMA InitPool == Init => Pool!PlInit
<1> SUFFICES ASSUME Init PROVE Pool!PlInit
  OBVIOUS
<1>1. calling = {}
  BY DEF Init, calling
<1>2. pool = {}
  <2>1. cached = {}
    BY DEF Init, cached
  <2> QED BY <2>1 DEF pool
<1>3. want \in [Threads -> Emulations]
  BY Means DEF want
<1>4. answer = [t \in Threads |-> {}]
  BY DEF Init, answer
<1> QED BY <1>1, <1>2, <1>3, <1>4 DEF Pool!PlInit, calling, want, pool, cached, answer

\* A step in which no caller asks and no client in use changes leaves the pool
\* and the answers as they are, unless the cache or an answer changes.
LEMMA Unseen ==
  ASSUME IInv, asked' = asked, \A c \in Clients : c <= clients => emulates'[c] = emulates[c]
  PROVE  /\ want' = want
         /\ cache' = cache => pool' = pool
         /\ got' = got => answer' = answer
<1> USE DEF IInv, TypeOK
<1>1. want' = want
  <2>1. \A t \in Threads : Meaning(t)' = Meaning(t)
    BY DEF Meaning
  <2> QED BY <2>1 DEF want
<1>2. ASSUME cache' = cache PROVE pool' = pool
  <2>1. cached' = cached
    BY <1>2 DEF cached
  <2>2. \A k \in cached : Held(cache[k])' = Held(cache[k])
    BY <1>2 DEF cached, CacheInv, Held
  <2> QED BY <2>1, <2>2 DEF pool
<1>3. ASSUME got' = got PROVE answer' = answer
  <2>1. \A t \in Threads : got[t] # NoClient => got[t] \in Clients /\ got[t] <= clients
    BY KeyOfType DEF HandedInv, CacheInv
  <2>2. \A t \in Threads : got[t] # NoClient => Held(got[t])' = Held(got[t])
    BY <1>3, <2>1 DEF Held
  <2> QED BY <1>3, <2>2 DEF answer
<1> QED BY <1>1, <1>2, <1>3

\* A call that returns a client is an answer of the pool.
LEMMA Answered ==
  ASSUME IInv, NEW t \in Threads, NEW c \in Clients, pc[t] # "idle",
         pc' = [pc EXCEPT ![t] = "idle"], got' = [got EXCEPT ![t] = c],
         asked' = asked, emulates' = emulates
  PROVE  /\ t \in calling /\ calling' = calling \ {t}
         /\ answer' = [answer EXCEPT ![t] = {Held(c)}]
         /\ want' = want
<1> USE DEF IInv, TypeOK
<1>1. t \in calling /\ calling' = calling \ {t}
  BY DEF calling
<1>2. answer' = [answer EXCEPT ![t] = {Held(c)}]
  <2>1. \A u \in Threads : u # t => got'[u] = got[u] /\ Held(got[u])' = Held(got[u])
    BY DEF Held
  <2>2. got'[t] # NoClient /\ Held(got[t])' = Held(c)
    BY DEF Held
  <2> QED BY <2>1, <2>2 DEF answer
<1>3. want' = want
  BY Unseen
<1> QED BY <1>1, <1>2, <1>3

\* The two ways the pool answers, in the terms of the cache.
LEMMA Shared ==
  ASSUME NEW t \in Threads, t \in calling, calling' = calling \ {t}, want' = want, pool' = pool,
         \E m \in pool : m.print = want[t] /\ answer' = [answer EXCEPT ![t] = {m}]
  PROVE  Pool!PlNext
<1>1. Pool!PlShare(t)
  BY DEF Pool!PlShare, Pool!PlAnswer, calling, want, pool, cached, answer
<1> QED BY <1>1 DEF Pool!PlNext

LEMMA Opened ==
  ASSUME NEW t \in Threads, t \in calling, calling' = calling \ {t}, want' = want,
         \E h \in Clients :
            /\ \A m \in pool : m.print # want[t] /\ m.handle # h
            /\ pool' = pool \cup {[handle |-> h, print |-> want[t]]}
            /\ answer' = [answer EXCEPT ![t] = {[handle |-> h, print |-> want[t]]}]
  PROVE  Pool!PlNext
<1>1. Pool!PlOpen(t)
  BY DEF Pool!PlOpen, Pool!PlAnswer, calling, want, pool, cached, answer
<1> QED BY <1>1 DEF Pool!PlNext

\* A step of the cache is a step of the pool, or the pool sees nothing of it.
LEMMA StepPool == IInv /\ IInv' /\ [Next]_vars => [Pool!PlNext]_(Pool!pvars)
<1> SUFFICES ASSUME IInv, IInv', [Next]_vars PROVE [Pool!PlNext]_(Pool!pvars)
  OBVIOUS
<1> USE DEF IInv, TypeOK
<1>s. ASSUME UNCHANGED <<calling, want, pool, answer>> PROVE UNCHANGED Pool!pvars
  BY <1>s DEF Pool!pvars, calling, want, pool, cached, answer
<1>1. ASSUME NEW t \in Threads, NEW q \in Requests, Ask(t, q) PROVE Pool!PlNext
  <2> DEFINE n == IF q.door = "strict" THEN Trim(q.name) ELSE q.name
             p == Emulation(TlsProfile(n))
  <2>1. p \in Emulations
    BY Meant, Resolved DEF Emulations, Resolve
  <2>2. want' = [want EXCEPT ![t] = p]
    <3>1. \A u \in Threads : u # t => Meaning(u)' = Meaning(u)
      BY <1>1 DEF Ask, Meaning
    <3>2. Meaning(t)' = p
      BY <1>1 DEF Ask, Meaning
    <3> QED BY <3>1, <3>2 DEF want
  <2>3. t \notin calling /\ calling' \in {calling, calling \cup {t}}
    BY <1>1 DEF Ask, calling
  <2>4. answer' = [answer EXCEPT ![t] = {}]
    BY <1>1 DEF Ask, answer, Held
  <2>5. pool' = pool
    BY <1>1 DEF Ask, pool, cached, Held
  <2>6. Pool!PlAsk(t, p)
    BY <2>2, <2>3, <2>4, <2>5 DEF Pool!PlAsk, calling, want, pool, cached, answer
  <2> QED BY <2>1, <2>6 DEF Pool!PlNext
<1>2. ASSUME NEW t \in Threads, LookupHit(t) PROVE Pool!PlNext
  <2> DEFINE m == Held(cache[KeyOf(t)])
  <2>1. /\ KeyOf(t) \in cached /\ cache[KeyOf(t)] \in Clients
        /\ m \in pool /\ m.print = want[t]
    BY <1>2, KeyOfType, Means DEF LookupHit, CacheInv, cached, pool, want, Held
  <2>2. /\ t \in calling /\ calling' = calling \ {t} /\ want' = want
        /\ answer' = [answer EXCEPT ![t] = {m}]
    <3>1. pc[t] # "idle" /\ Return(t, cache[KeyOf(t)]) /\ UNCHANGED <<emulates, asked>>
      BY <1>2 DEF LookupHit
    <3> HIDE DEF IInv
    <3> QED BY <2>1, <3>1, Answered DEF Return
  <2>3. pool' = pool
    BY <1>2, Unseen DEF LookupHit
  <2> HIDE DEF IInv, m
  <2> QED BY <2>1, <2>2, <2>3, Shared
<1>3. ASSUME NEW t \in Threads, LookupMiss(t) PROVE UNCHANGED Pool!pvars
  <2>1. calling' = calling
    BY <1>3 DEF LookupMiss, calling
  <2>2. UNCHANGED <<want, pool, answer>>
    BY <1>3, Unseen DEF LookupMiss
  <2> QED BY <2>1, <2>2, <1>s
<1>4. ASSUME NEW t \in Threads, Build(t) PROVE UNCHANGED Pool!pvars
  <2>1. calling' = calling
    BY <1>4 DEF Build, calling
  <2>2. \A c \in Clients : c <= clients => emulates'[c] = emulates[c]
    BY <1>4 DEF Build
  <2>3. UNCHANGED <<want, pool, answer>>
    BY <1>4, <2>2, Unseen DEF Build
  <2> QED BY <2>1, <2>3, <1>s
<1>5. ASSUME NEW t \in Threads, BuildFails(t) PROVE Pool!PlNext
  <2>1. t \in calling /\ calling' = calling \ {t}
    BY <1>5 DEF BuildFails, calling
  <2>2. UNCHANGED <<want, pool, answer>>
    BY <1>5, Unseen DEF BuildFails
  <2>3. Pool!PlFail(t)
    BY <2>1, <2>2 DEF Pool!PlFail, calling, want, pool, cached, answer
  <2> QED BY <2>3 DEF Pool!PlNext
<1>6. ASSUME NEW t \in Threads, Insert(t) PROVE Pool!PlNext
  <2> DEFINE k == KeyOf(t)
  <2>1. k \in Keys /\ want[t] = k
    BY KeyOfType, Means DEF want
  <2>2. pc[t] # "idle"
    BY <1>6 DEF Insert
  <2>3. CASE cache[k] # NoClient
    <3> DEFINE m == Held(cache[k])
    <3>1. cache[k] \in Clients /\ m \in pool /\ m.print = want[t]
      BY <2>1, <2>3 DEF CacheInv, cached, pool, Held
    <3>2. cache' = cache /\ Return(t, cache[k]) /\ UNCHANGED <<emulates, asked>>
      BY <1>6, <2>1, <2>3 DEF Insert
    <3>3. /\ t \in calling /\ calling' = calling \ {t} /\ want' = want
          /\ answer' = [answer EXCEPT ![t] = {m}]
      <4> HIDE DEF IInv
      <4> QED BY <2>2, <3>1, <3>2, Answered DEF Return
    <3>4. pool' = pool
      BY <3>2, Unseen
    <3> HIDE DEF IInv, m
    <3> QED BY <3>1, <3>3, <3>4, Shared
  <2>4. CASE cache[k] = NoClient
    <3> DEFINE h == made[t]
               m == Held(h)
    <3>1. h \in Clients /\ m = [handle |-> h, print |-> want[t]]
      BY <1>6, <2>1 DEF Insert, MadeInv, Held
    <3>2. cache' = [cache EXCEPT ![k] = h] /\ Return(t, h) /\ UNCHANGED <<emulates, asked>>
      BY <1>6, <2>4 DEF Insert
    <3>3. /\ t \in calling /\ calling' = calling \ {t} /\ want' = want
          /\ answer' = [answer EXCEPT ![t] = {m}]
      <4> HIDE DEF IInv
      <4> QED BY <2>2, <3>1, <3>2, Answered DEF Return
    <3>4. \A n \in pool : n.print # want[t] /\ n.handle # h
      BY <2>1, <2>4, <3>1 DEF pool, cached, CacheInv, Held
    <3>5. pool' = pool \cup {m}
      <4>1. cached' = cached \cup {k}
        BY <2>1, <3>1, <3>2 DEF cached
      <4> DEFINE New(j) == [handle |-> cache'[j], print |-> emulates'[cache'[j]]]
      <4>2. \A j \in cached : New(j) = Held(cache[j])
        BY <2>4, <3>2 DEF cached, Held
      <4>3. New(k) = m
        BY <2>1, <3>2 DEF Held
      <4>4. pool' = {New(j) : j \in cached \cup {k}}
        BY <4>1 DEF pool, Held
      <4> HIDE DEF IInv, New, k, m, h
      <4> QED BY <4>2, <4>3, <4>4 DEF pool
    <3> HIDE DEF IInv, m, h
    <3>6. /\ pool' = pool \cup {[handle |-> h, print |-> want[t]]}
          /\ answer' = [answer EXCEPT ![t] = {[handle |-> h, print |-> want[t]]}]
      BY <3>1, <3>3, <3>5
    <3>7. \E j \in Clients :
            /\ \A n \in pool : n.print # want[t] /\ n.handle # j
            /\ pool' = pool \cup {[handle |-> j, print |-> want[t]]}
            /\ answer' = [answer EXCEPT ![t] = {[handle |-> j, print |-> want[t]]}]
      BY <3>1, <3>4, <3>6
    <3> QED BY <3>3, <3>7, Opened
  <2> QED BY <2>3, <2>4
<1>7. CASE UNCHANGED vars
  BY <1>7, <1>s, Unseen DEF vars, calling
<1> QED BY <1>1, <1>2, <1>3, <1>4, <1>5, <1>6, <1>7 DEF Next, Step

\* The cache implements the pool: callers that race for one fingerprint cannot
\* tell the two critical sections from one (transport.rs).
THEOREM Pooled == Spec => PoolSpec
<1>1. Init => Pool!PlInit
  BY InitPool
<1>2. IInv /\ IInv' /\ [Next]_vars => [Pool!PlNext]_(Pool!pvars)
  BY StepPool
<1> QED BY <1>1, <1>2, Invariance, PTL DEF Spec, PoolSpec, Pool!PlSpec
=============================================================================
