----------------------------- MODULE ClientCache -----------------------------
(* The cache of HTTP clients (transport.rs): threads of the FFI and handlers *)
(* of the proxy ask for the client of a TLS profile by a name the user       *)
(* spelled; clients are shared by fingerprint ("pool key"). The cache lock   *)
(* is released between the lookup and the insertion, and the client is built *)
(* in between. The Rust API of http_client.rs asks through a strict door:    *)
(* it trims the name and refuses an unknown one, where the proxy falls back. *)
EXTENDS Integers

CONSTANTS Threads,      \* concurrent callers
          Names,        \* spellings a caller may pass
          Trim(_),      \* Trim(n): n without surrounding blanks (str::trim)
          Fold(_),      \* Fold(n): n in lower case
          Catalogue,    \* the names of profiles::PROFILES, in lower case
          WreqProfile(_), Platform(_),  \* of a profile: Option<Profile>, Option<Platform>
          PassThrough, Fallback,        \* two names in lower case
          None,
          MaxBuilds     \* bound: clients built in a behaviour

ASSUME CacheAssumption ==
    /\ MaxBuilds \in Nat
    /\ Fallback \in Catalogue /\ WreqProfile(Fallback) = None
    /\ PassThrough \notin Catalogue /\ None \notin Catalogue

Doors == {"proxy", "strict"}
Clients == 1..MaxBuilds
NoClient == 0

-----------------------------------------------------------------------------
(* Names, profiles and pool keys (profiles.rs).                              *)

\* The emulation a profile asks wreq for; none means wreq's own defaults.
Emulation(p) ==
    IF p \notin Catalogue \/ WreqProfile(p) = None THEN <<"default", None>>
    ELSE <<WreqProfile(p), Platform(p)>>

\* Mutated: the platform is left out of the key.
PoolKey_noPlatform(p) ==
    IF p \notin Catalogue \/ WreqProfile(p) = None THEN <<"default", None>>
    ELSE <<WreqProfile(p), None>>

\* The text of the key names the profile and, when it has one, the platform.
PoolKey(p) ==
    IF p \notin Catalogue \/ WreqProfile(p) = None THEN <<"default", None>>
    ELSE <<WreqProfile(p), Platform(p)>>

\* The canonical profile of a name: pass-through, a profile, or the fallback.
Canonical(n) ==
    IF Fold(n) = PassThrough THEN PassThrough
    ELSE IF Fold(n) \in Catalogue THEN Fold(n)
    ELSE Fallback

\* Option<TlsProfile> of a name (by_name, get_tls_profile).
TlsProfile(n) == IF Fold(n) \in Catalogue THEN Fold(n) ELSE None

\* HttpClient::for_profile refuses what canonical_profile does not know.
Refused(door, n) ==
    door = "strict" /\ Fold(Trim(n)) # PassThrough /\ Fold(Trim(n)) \notin Catalogue

\* The profile whose client a caller gets.
Resolve(door, n) == Canonical(IF door = "strict" THEN Trim(n) ELSE n)

Profiles == Catalogue \cup {PassThrough}
Keys == {PoolKey(p) : p \in Profiles}

-----------------------------------------------------------------------------
VARIABLES
    cache,      \* CLIENT_CACHE: cache[k] is a client or NoClient
    clients,    \* clients built so far, numbered; emulates[c]: with which emulation
    emulates,
    pc,         \* pc[t]: "idle", "lookup", "build", "insert"
    asked,      \* asked[t]: [door, name] of the call
    made,       \* made[t]: the client t built and has not yet offered to the cache
    got,        \* got[t]: what the last call returned
    handed      \* history: [key, client] pairs returned to any caller

vars == <<cache, clients, emulates, pc, asked, made, got, handed>>

Emulations == {Emulation(p) : p \in Profiles}
Requests == [door : Doors, name : Names]
Unbuilt == <<"unbuilt", None>>
NoRequest == [door |-> "none", name |-> None]

TypeOK ==
    /\ cache \in [Keys -> Clients \cup {NoClient}]
    /\ clients \in 0..MaxBuilds
    /\ emulates \in [Clients -> Emulations \cup {Unbuilt}]
    /\ pc \in [Threads -> {"idle", "lookup", "build", "insert"}]
    /\ asked \in [Threads -> Requests \cup {NoRequest}]
    /\ made \in [Threads -> Clients \cup {NoClient}]
    /\ got \in [Threads -> Clients \cup {NoClient}]
    /\ handed \subseteq [key : Keys, client : Clients]

Init ==
    /\ cache = [k \in Keys |-> NoClient]
    /\ clients = 0
    /\ emulates = [c \in Clients |-> Unbuilt]
    /\ pc = [t \in Threads |-> "idle"]
    /\ asked = [t \in Threads |-> NoRequest]
    /\ made = [t \in Threads |-> NoClient]
    /\ got = [t \in Threads |-> NoClient]
    /\ handed = {}

Wanted(t) == Resolve(asked[t].door, asked[t].name)
KeyOf(t) == PoolKey(Wanted(t))

\* A call begins; the strict door may refuse it at once.
Ask(t, q) ==
    /\ pc[t] = "idle"
    /\ asked' = [asked EXCEPT ![t] = q]
    /\ got' = [got EXCEPT ![t] = NoClient]
    /\ pc' = [pc EXCEPT ![t] = IF Refused(q.door, q.name) THEN "idle" ELSE "lookup"]
    /\ UNCHANGED <<cache, clients, emulates, made, handed>>

Return(t, c) ==
    /\ pc' = [pc EXCEPT ![t] = "idle"]
    /\ got' = [got EXCEPT ![t] = c]
    /\ handed' = handed \cup {[key |-> KeyOf(t), client |-> c]}

\* Mutated: an entry that is missing is returned all the same.
LookupHit_unchecked(t) ==
    /\ pc[t] = "lookup"
    /\ Return(t, cache[KeyOf(t)])
    /\ UNCHANGED <<cache, clients, emulates, asked, made>>

\* The first critical section: look the key up.
LookupHit(t) ==
    /\ pc[t] = "lookup" /\ cache[KeyOf(t)] # NoClient
    /\ Return(t, cache[KeyOf(t)])
    /\ UNCHANGED <<cache, clients, emulates, asked, made>>

LookupMiss(t) ==
    /\ pc[t] = "lookup" /\ cache[KeyOf(t)] = NoClient
    /\ pc' = [pc EXCEPT ![t] = "build"]
    /\ UNCHANGED <<cache, clients, emulates, asked, made, got, handed>>

\* The client is built without the lock, for the canonical name.
Build(t) ==
    /\ pc[t] = "build" /\ clients < MaxBuilds
    /\ clients' = clients + 1
    /\ emulates' = [emulates EXCEPT ![clients + 1] = Emulation(Wanted(t))]
    /\ made' = [made EXCEPT ![t] = clients + 1]
    /\ pc' = [pc EXCEPT ![t] = "insert"]
    /\ UNCHANGED <<cache, asked, got, handed>>

\* The build fails: the error is returned and nothing is cached.
BuildFails(t) ==
    /\ pc[t] = "build"
    /\ pc' = [pc EXCEPT ![t] = "idle"]
    /\ UNCHANGED <<cache, clients, emulates, asked, made, got, handed>>

\* Mutated: HashMap::insert replaces the entry of a caller that was faster.
Insert_overwrites(t) ==
    /\ pc[t] = "insert"
    /\ cache' = [cache EXCEPT ![KeyOf(t)] = made[t]]
    /\ Return(t, made[t])
    /\ made' = [made EXCEPT ![t] = NoClient]
    /\ UNCHANGED <<clients, emulates, asked>>

\* The second critical section: entry(key).or_insert(client); a client that
\* lost the race is dropped.
Insert(t) ==
    LET winner == IF cache[KeyOf(t)] = NoClient THEN made[t] ELSE cache[KeyOf(t)] IN
    /\ pc[t] = "insert"
    /\ cache' = [cache EXCEPT ![KeyOf(t)] = winner]
    /\ Return(t, winner)
    /\ made' = [made EXCEPT ![t] = NoClient]
    /\ UNCHANGED <<clients, emulates, asked>>

Step(t) == LookupHit(t) \/ LookupMiss(t) \/ Build(t) \/ BuildFails(t) \/ Insert(t)
Next == \E t \in Threads : Step(t) \/ \E q \in Requests : Ask(t, q)
Spec == Init /\ [][Next]_vars

-----------------------------------------------------------------------------
(* Properties.                                                               *)

\* The fingerprint the name of t's call means to the profile list.
Meaning(t) ==
    LET n == IF asked[t].door = "strict" THEN Trim(asked[t].name) ELSE asked[t].name IN
    Emulation(TlsProfile(n))

\* However lookups, builds and insertions interleave, every caller that asks
\* for one fingerprint is given the same client, now and later: there is one
\* connection pool per fingerprint (the Arc::ptr_eq tests of transport.rs say
\* so for one thread).
OneClientPerKey ==
    \A x, y \in handed : x.key = y.key => x.client = y.client

\* The client a caller is given emulates the profile the name means to the
\* profile list (get_tls_profile), although it was found under another key, by
\* another thread, for another spelling or alias: sharing never hands out
\* another profile's fingerprint. A name without a profile, the JA4 labels that
\* available_profiles offers among them, gets the default transport.
FingerprintIsRight ==
    \A t \in Threads : got[t] # NoClient => emulates[got[t]] = Meaning(t)

-----------------------------------------------------------------------------
(* What the cache promises: lookup, build and insertion are one step.        *)

Held(c) == [handle |-> c, print |-> emulates[c]]

Pool == INSTANCE ClientPool WITH
    Callers <- Threads, Prints <- Emulations, Handles <- Clients,
    calling <- {t \in Threads : pc[t] # "idle"},
    want <- [t \in Threads |-> Meaning(t)],
    pool <- {Held(cache[k]) : k \in {j \in Keys : cache[j] # NoClient}},
    answer <- [t \in Threads |-> IF got[t] = NoClient THEN {} ELSE {Held(got[t])}]

\* To its callers the cache is a pool that answers in one step: clients built
\* at the same time for one fingerprint by several threads are never seen,
\* except the first that is stored (or_insert).
PoolSpec == Pool!PlSpec
=============================================================================
