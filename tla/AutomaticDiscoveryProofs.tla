------------------------ MODULE AutomaticDiscoveryProofs ------------------------
(***************************************************************************)
(* Theorems about the ownership of a URL by its automatic-discovery order, *)
(* for every set of URLs, lease identities and sessions and every number   *)
(* of orders.                                                              *)
(***************************************************************************)
EXTENDS AutomaticDiscovery, FiniteSetTheorems, WellFoundedInduction, TLAPS

-----------------------------------------------------------------------------
(* The invariant. Good speaks of the store alone, so that each transaction *)
(* can be shown to preserve it on its own; Held speaks of the operation    *)
(* that holds leaseMutation, between two of its transactions.              *)
Buckets == {"orders", "next", "leases", "keys", "active", "pending", "leased", "intents",
            "staged", "settlements"}

(* A lease record of any sequence: the proofs need no bound on the orders. *)
Lease ==
    [url : Urls, key : Urls \cup {NoUrl}, seq : Nat, session : Sessions, deferred : BOOLEAN]

(* Every sequence is older than the next one, and a lease owns its own URL *)
(* or, when it comes from an older release, none.                          *)
Shape(s) ==
    /\ DOMAIN s = Buckets
    /\ s.next \in Nat
    /\ \A n \in DOMAIN s.orders : n \in Nat /\ n < s.next /\ s.orders[n] \in Urls
    /\ \A l \in DOMAIN s.leases :
           /\ s.leases[l] \in Lease
           /\ s.leases[l].key \in {NoUrl, s.leases[l].url}
           /\ s.leases[l].seq < s.next
    /\ \A u \in DOMAIN s.active : u \in Urls /\ s.active[u] \in Nat /\ s.active[u] < s.next
    /\ \A u \in DOMAIN s.leased : u \in Urls
    /\ \A l \in DOMAIN s.staged :
           /\ s.staged[l].lease \in Lease
           /\ s.staged[l].lease.key = s.staged[l].lease.url
           /\ s.staged[l].lease.seq < s.next
           /\ ~s.staged[l].lease.deferred

(* An older release owned a URL by sequence 0, and nobody else has it.     *)
OldKeys(s) ==
    \A u \in DOMAIN s.keys :
        /\ u \in Urls /\ s.keys[u] = 0 /\ s.next > 0
        /\ 0 \in DOMAIN s.orders => s.orders[0] = u

(* At most one pending order or lease for a URL.                           *)
OneEach(s) ==
    /\ \A m, n \in DOMAIN s.orders : s.orders[m] = s.orders[n] => m = n
    /\ \A k, l \in DOMAIN s.leases : s.leases[k].url = s.leases[l].url => k = l
    /\ \A n \in DOMAIN s.orders, l \in DOMAIN s.leases : s.orders[n] # s.leases[l].url

(* The indexes name the pending order of a URL, and a sequence in them is  *)
(* never that of the order of another URL.                                 *)
OrdersTracked(s) ==
    /\ \A n \in DOMAIN s.orders :
           /\ s.orders[n] \in DOMAIN s.active \cup DOMAIN s.keys
           /\ s.orders[n] \in DOMAIN s.active =>
                  s.active[s.orders[n]] = n /\ n \in DOMAIN s.pending
    /\ \A n \in DOMAIN s.pending :
           /\ n \in DOMAIN s.orders
           /\ s.orders[n] \in DOMAIN s.active
           /\ s.active[s.orders[n]] = n
    /\ \A u \in DOMAIN s.active :
           s.active[u] \in DOMAIN s.orders => s.orders[s.active[u]] = u

(* A lease with a key is the one the index names, with the ownership its   *)
(* sequence says; one without a key is of an older release, and nothing    *)
(* owns its URL but the old key.                                           *)
LeasesTracked(s) ==
    /\ \A l \in DOMAIN s.leases :
           LET r == s.leases[l] IN
           IF r.key = NoUrl
           THEN r.url \notin DOMAIN s.active /\ r.url \in DOMAIN s.keys /\ r.seq = 0
           ELSE /\ r.key \in DOMAIN s.active /\ s.active[r.key] = r.seq
                /\ r.key \in DOMAIN s.leased /\ s.leased[r.key] = l
    /\ \A u \in DOMAIN s.leased :
           s.leased[u] \in DOMAIN s.leases /\ s.leases[s.leased[u]].key = u

(* Ownership without work is that of an acknowledgment that is staged and  *)
(* not completed yet, or left to the old key.                              *)
OwnersWork(s) ==
    \A u \in DOMAIN s.active :
        \/ Work(s, u)
        \/ u \in DOMAIN s.keys
        \/ \E l \in DOMAIN s.staged :
               s.staged[l].lease.key = u /\ s.staged[l].lease.seq = s.active[u]

(* A staged acknowledgment agrees with the lease and with the remembered   *)
(* outcome; once its lease is gone, an order or lease of the same URL is a *)
(* later one, so completing it cannot end the ownership of that one.       *)
StagedSound(s) ==
    /\ \A l \in DOMAIN s.staged :
           LET r == s.staged[l].lease IN
           /\ l \in DOMAIN s.leases => s.leases[l] = r
           /\ l \in DOMAIN s.settlements =>
                  s.settlements[l] = [outcome |-> "acknowledged", terminal |-> s.staged[l].terminal]
           /\ l \notin DOMAIN s.leases =>
                  /\ \A n \in DOMAIN s.orders :
                         s.orders[n] = r.key => n # r.seq /\ r.key \in DOMAIN s.active
                  /\ \A k \in DOMAIN s.leases :
                         s.leases[k].url = r.key =>
                             s.leases[k].key # NoUrl /\ s.leases[k].seq # r.seq
    /\ \A l \in DOMAIN s.leases \cap DOMAIN s.settlements : s.leases[l].deferred

Good(s) ==
    /\ Shape(s) /\ OldKeys(s) /\ OneEach(s) /\ OrdersTracked(s) /\ LeasesTracked(s)
    /\ OwnersWork(s) /\ StagedSound(s)

(* The ownership of a settled order has ended.                             *)
Released(s, l) ==
    LET r == s.staged[l].lease IN r.key \in DOMAIN s.active => s.active[r.key] # r.seq

(* What leaseMutation protects: the acknowledgment that is settled is the  *)
(* staged one, an adoption knows every staged acknowledgment, and the      *)
(* acknowledgment that is about to be deleted has been completed.          *)
Held(s, m) ==
    /\ DOMAIN m = DOMAIN Idle
    /\ m.stage = "settle" =>
           /\ m.adopts = NoSession
           /\ \A l \in m.leases \cap DOMAIN s.leases :
                  IF l \in DOMAIN s.staged THEN s.staged[l].terminal = m.terminal
                  ELSE s.leases[l].url \in DOMAIN s.keys
    /\ m.adopts # NoSession =>
           /\ m.stage \in {"resolve", "release"} /\ DOMAIN s.staged \subseteq m.leases
           /\ m.adopts \in Sessions
    /\ m.stage = "release" =>
           /\ m.lease \in DOMAIN s.staged /\ m.lease \notin DOMAIN s.leases
           /\ Released(s, m.lease)

(* Only a publication has a URL, and it keeps it to its end.               *)
Admitting(a) == DOMAIN a = DOMAIN Free /\ (a.op = "publish" => a.url \in Urls)

Inv ==
    /\ Good(store) /\ Held(store, mutation) /\ Admitting(admission)
    /\ session \in Sessions

-----------------------------------------------------------------------------
(* The oldest order is an order.                                           *)
LEMMA Least ==
    ASSUME NEW S, S \subseteq Nat, S # {}
    PROVE  Min(S) \in S
<1>1. PICK o \in S : \A x \in S : <<x, o>> \notin OpToRel(<, Nat)
    BY NatLessThanWellFounded, WFMin, Zenon
<1>2. \A x \in S : o <= x
    <2>1. OpToRel(<, Nat) = {ss \in Nat \X Nat : ss[1] < ss[2]}
        BY Zenon DEF OpToRel
    <2>2. \A x \in S : ~(x < o)
        BY <1>1, <2>1
    <2> QED
        BY <2>2
<1> QED
    BY <1>2 DEF Min

(* What a publication, a repair or a clear leaves alone for the settlement *)
(* that it interleaves with.                                               *)
Kept(s, t) ==
    /\ t.staged = s.staged /\ t.settlements = s.settlements
    /\ DOMAIN t.leases = DOMAIN s.leases
    /\ \A l \in DOMAIN s.leases :
           /\ t.leases[l].url = s.leases[l].url
           /\ s.leases[l].key # NoUrl => t.leases[l] = s.leases[l]
           /\ s.leases[l].url \in DOMAIN s.keys => s.leases[l].url \in DOMAIN t.keys
    /\ \A l \in DOMAIN s.staged \ DOMAIN s.leases : Released(s, l) => Released(t, l)

LEMMA KeptTwice ==
    ASSUME NEW s, NEW t, NEW v, Kept(s, t), Kept(t, v)
    PROVE  Kept(s, v)
BY DEF Kept

(* The index entries of a pending order.                                   *)
LEMMA TrackOrderGood ==
    ASSUME NEW s, Good(s), NEW n \in DOMAIN s.orders, NEW u, u = s.orders[n],
           NEW t, t = TrackOrder(s, u, n)
    PROVE  Good(t) /\ Kept(s, t)
<1>1. /\ DOMAIN t = Buckets
      /\ t.active = Put(s.active, u, n) /\ t.pending = Put(s.pending, n, u)
      /\ t.orders = s.orders /\ t.next = s.next /\ t.leases = s.leases /\ t.keys = s.keys
      /\ t.leased = s.leased /\ t.staged = s.staged /\ t.settlements = s.settlements
    BY DEF Good, Shape, TrackOrder, Buckets
<1>2. /\ DOMAIN t.active = DOMAIN s.active \cup {u}
      /\ t.active[u] = n
      /\ \A x \in DOMAIN s.active : x # u => t.active[x] = s.active[x]
    BY <1>1 DEF Put
<1>3. DOMAIN t.pending = DOMAIN s.pending \cup {n}
    BY <1>1 DEF Put
<1>4. u \in DOMAIN s.active => s.active[u] = n
    BY DEF Good, OrdersTracked
<1>5. Shape(t) /\ OldKeys(t) /\ OneEach(t)
    BY <1>1, <1>2, <1>3 DEF Good, Shape, OldKeys, OneEach
<1>6. OrdersTracked(t)
    BY <1>1, <1>2, <1>3 DEF Good, OneEach, OrdersTracked
<1>7. LeasesTracked(t)
    BY <1>1, <1>2 DEF Good, Shape, OneEach, LeasesTracked
<1>8. OwnersWork(t)
    BY <1>1, <1>2 DEF Good, OwnersWork, Work, OrdersOf, LeasesOf
<1>9. StagedSound(t)
    BY <1>1, <1>2 DEF Good, StagedSound
<1>10. Kept(s, t)
    <2>1. \A l \in DOMAIN s.staged \ DOMAIN s.leases :
              s.staged[l].lease.key = u => n # s.staged[l].lease.seq
        BY DEF Good, StagedSound
    <2>2. \A l \in DOMAIN s.staged \ DOMAIN s.leases : Released(s, l) => Released(t, l)
        BY <1>1, <1>2, <2>1 DEF Released
    <2> QED
        BY <1>1, <2>2 DEF Kept
<1> QED
    BY <1>5, <1>6, <1>7, <1>8, <1>9, <1>10 DEF Good

(* An old key goes once its order is tracked.                              *)
LEMMA ForgetKeyGood ==
    ASSUME NEW s, Good(s), NEW n \in DOMAIN s.orders, NEW u, u = s.orders[n],
           u \in DOMAIN s.active, NEW t, t = [s EXCEPT !.keys = Delete(@, u)]
    PROVE  Good(t) /\ Kept(s, t)
<1>1. /\ DOMAIN t = Buckets
      /\ t.keys = Delete(s.keys, u)
      /\ t.orders = s.orders /\ t.next = s.next /\ t.leases = s.leases /\ t.active = s.active
      /\ t.pending = s.pending /\ t.leased = s.leased /\ t.staged = s.staged
      /\ t.settlements = s.settlements
    BY DEF Good, Shape, Buckets
<1>2. /\ DOMAIN t.keys = DOMAIN s.keys \ {u}
      /\ \A x \in DOMAIN s.keys : x # u => t.keys[x] = s.keys[x]
    BY <1>1 DEF Delete
<1>3. Shape(t) /\ OldKeys(t) /\ OneEach(t)
    BY <1>1, <1>2 DEF Good, Shape, OldKeys, OneEach
<1>4. OrdersTracked(t) /\ StagedSound(t)
    BY <1>1, <1>2 DEF Good, OrdersTracked, StagedSound
<1>5. LeasesTracked(t)
    BY <1>1, <1>2 DEF Good, OneEach, LeasesTracked
<1>6. OwnersWork(t)
    BY <1>1, <1>2 DEF Good, OwnersWork, Work, OrdersOf, LeasesOf
<1>7. Kept(s, t)
    BY <1>1, <1>2 DEF Good, OneEach, Kept, Released
<1> QED
    BY <1>3, <1>4, <1>5, <1>6, <1>7 DEF Good

(* What tracking a lease changes.                                          *)
LeaseTracked(s, t, l, u, n) ==
    /\ DOMAIN t = Buckets
    /\ t.orders = s.orders /\ t.next = s.next /\ t.keys = s.keys
    /\ t.pending = s.pending /\ t.staged = s.staged /\ t.settlements = s.settlements
    /\ DOMAIN t.active = DOMAIN s.active \cup {u}
    /\ t.active[u] = n
    /\ \A x \in DOMAIN s.active : x # u => t.active[x] = s.active[x]
    /\ DOMAIN t.leased = DOMAIN s.leased \cup {u}
    /\ t.leased[u] = l
    /\ \A x \in DOMAIN s.leased : x # u => t.leased[x] = s.leased[x]
    /\ DOMAIN t.leases = DOMAIN s.leases
    /\ \A k \in DOMAIN s.leases :
           /\ t.leases[k] \in Lease
           /\ t.leases[k].url = s.leases[k].url /\ t.leases[k].seq = s.leases[k].seq
           /\ t.leases[k].deferred = s.leases[k].deferred
           /\ t.leases[k].key = IF k = l THEN u ELSE s.leases[k].key
    /\ \A k \in DOMAIN s.leases : s.leases[k].key # NoUrl => t.leases[k] = s.leases[k]

(* The index entries of a lease.                                           *)
LEMMA TrackLeaseFields ==
    ASSUME NEW s, Good(s), NEW l \in DOMAIN s.leases, NEW u, u = s.leases[l].url,
           NEW n, n = s.leases[l].seq, NEW t, t = TrackLease(s, u, l, n)
    PROVE  LeaseTracked(s, t, l, u, n)
<1>1. t.leases = [s.leases EXCEPT ![l].key = u, ![l].seq = n]
    BY DEF Good, Shape, TrackLease, Buckets
<1>2. /\ DOMAIN t = Buckets
      /\ t.active = Put(s.active, u, n) /\ t.leased = Put(s.leased, u, l)
      /\ t.orders = s.orders /\ t.next = s.next /\ t.keys = s.keys
      /\ t.pending = s.pending /\ t.staged = s.staged /\ t.settlements = s.settlements
    BY DEF Good, Shape, TrackLease, Buckets
<1>3. /\ DOMAIN t.active = DOMAIN s.active \cup {u}
      /\ t.active[u] = n
      /\ \A x \in DOMAIN s.active : x # u => t.active[x] = s.active[x]
    BY <1>2 DEF Put
<1>4. /\ DOMAIN t.leased = DOMAIN s.leased \cup {u}
      /\ t.leased[u] = l
      /\ \A x \in DOMAIN s.leased : x # u => t.leased[x] = s.leased[x]
    BY <1>2 DEF Put
<1>5. s.leases[l] \in Lease /\ u \in Urls /\ n \in Nat
    BY DEF Good, Shape, Lease
<1>6. DOMAIN t.leases = DOMAIN s.leases
    BY <1>1
<1>7. \A k \in DOMAIN s.leases :
           /\ t.leases[k] \in Lease
           /\ t.leases[k].url = s.leases[k].url /\ t.leases[k].seq = s.leases[k].seq
           /\ t.leases[k].deferred = s.leases[k].deferred
           /\ t.leases[k].key = IF k = l THEN u ELSE s.leases[k].key
    <2>1. \A k \in DOMAIN s.leases : k # l => t.leases[k] = s.leases[k]
        BY <1>1
    <2>2. /\ t.leases[l] \in Lease
          /\ t.leases[l].url = u /\ t.leases[l].key = u /\ t.leases[l].seq = n
          /\ t.leases[l].deferred = s.leases[l].deferred
        BY <1>1, <1>5 DEF Lease
    <2> QED
        BY <2>1, <2>2 DEF Good, Shape
<1>8. \A k \in DOMAIN s.leases : s.leases[k].key # NoUrl => t.leases[k] = s.leases[k]
    <2>1. s.leases[l].key # NoUrl => t.leases[l] = s.leases[l]
        BY <1>1, <1>5 DEF Good, Shape, Lease
    <2> QED
        BY <1>1, <2>1
<1> QED
    BY <1>2, <1>3, <1>4, <1>6, <1>7, <1>8 DEF LeaseTracked

(* How a staged acknowledgment stands to the leases and orders of its URL. *)
LEMMA StagedApart ==
    ASSUME NEW s, Good(s), NEW l \in DOMAIN s.leases, NEW k \in DOMAIN s.staged \ DOMAIN s.leases,
           s.staged[k].lease.key = s.leases[l].url
    PROVE  s.leases[l].key # NoUrl /\ s.leases[l].seq # s.staged[k].lease.seq
BY DEF Good, StagedSound

LEMMA StagedKeyed ==
    ASSUME NEW s, Good(s), NEW k \in DOMAIN s.staged \cap DOMAIN s.leases
    PROVE  s.leases[k].key # NoUrl
<1>1. s.leases[k] = s.staged[k].lease
    BY DEF Good, StagedSound
<1>2. s.staged[k].lease \in Lease /\ s.staged[k].lease.key = s.staged[k].lease.url
    BY DEF Good, Shape
<1>3. s.staged[k].lease.key \in Urls
    BY <1>2 DEF Lease
<1> QED
    BY <1>1, <1>3, DiscoveryAssumption

LEMMA StagedApartOrder ==
    ASSUME NEW s, Good(s), NEW n \in DOMAIN s.orders, NEW k \in DOMAIN s.staged \ DOMAIN s.leases,
           s.staged[k].lease.key = s.orders[n]
    PROVE  s.orders[n] \in DOMAIN s.active /\ n # s.staged[k].lease.seq
BY DEF Good, StagedSound

LEMMA StagedSoundIntro ==
    ASSUME NEW t,
           \A k \in DOMAIN t.staged \cap DOMAIN t.leases : t.leases[k] = t.staged[k].lease,
           \A k \in DOMAIN t.staged \cap DOMAIN t.settlements :
               t.settlements[k] = [outcome |-> "acknowledged", terminal |-> t.staged[k].terminal],
           \A k \in DOMAIN t.staged \ DOMAIN t.leases :
               \A x \in DOMAIN t.orders :
                   t.orders[x] = t.staged[k].lease.key =>
                       x # t.staged[k].lease.seq /\ t.staged[k].lease.key \in DOMAIN t.active,
           \A k \in DOMAIN t.staged \ DOMAIN t.leases :
               \A x \in DOMAIN t.leases :
                   t.leases[x].url = t.staged[k].lease.key =>
                       t.leases[x].key # NoUrl /\ t.leases[x].seq # t.staged[k].lease.seq,
           \A k \in DOMAIN t.leases \cap DOMAIN t.settlements : t.leases[k].deferred
    PROVE  StagedSound(t)
BY DEF StagedSound

LEMMA LeaseTrackedGood ==
    ASSUME NEW s, Good(s), NEW l \in DOMAIN s.leases, NEW u, NEW n, NEW t,
           s.leases[l].url = u, s.leases[l].seq = n, LeaseTracked(s, t, l, u, n)
    PROVE  Good(t) /\ Kept(s, t)
<1>0. /\ DOMAIN t = Buckets
      /\ t.orders = s.orders /\ t.next = s.next /\ t.keys = s.keys
      /\ t.pending = s.pending /\ t.staged = s.staged /\ t.settlements = s.settlements
      /\ DOMAIN t.active = DOMAIN s.active \cup {u}
      /\ t.active[u] = n
      /\ \A x \in DOMAIN s.active : x # u => t.active[x] = s.active[x]
      /\ DOMAIN t.leased = DOMAIN s.leased \cup {u}
      /\ t.leased[u] = l
      /\ \A x \in DOMAIN s.leased : x # u => t.leased[x] = s.leased[x]
      /\ DOMAIN t.leases = DOMAIN s.leases
      /\ \A k \in DOMAIN s.leases :
             /\ t.leases[k] \in Lease
             /\ t.leases[k].url = s.leases[k].url /\ t.leases[k].seq = s.leases[k].seq
             /\ t.leases[k].deferred = s.leases[k].deferred
             /\ t.leases[k].key = IF k = l THEN u ELSE s.leases[k].key
      /\ \A k \in DOMAIN s.leases : s.leases[k].key # NoUrl => t.leases[k] = s.leases[k]
    BY DEF LeaseTracked
<1>1. u \in Urls /\ u # NoUrl /\ n \in Nat /\ n < s.next
    BY DiscoveryAssumption DEF Good, Shape, Lease
<1>2. Shape(t)
    <2>1. \A k \in DOMAIN t.leases :
              /\ t.leases[k] \in Lease
              /\ t.leases[k].key \in {NoUrl, t.leases[k].url}
              /\ t.leases[k].seq < t.next
        BY <1>0 DEF Good, Shape
    <2>2. \A x \in DOMAIN t.active : x \in Urls /\ t.active[x] \in Nat /\ t.active[x] < t.next
        BY <1>0, <1>1 DEF Good, Shape
    <2> QED
        BY <1>0, <1>1, <2>1, <2>2 DEF Good, Shape
<1>3. OldKeys(t) /\ OneEach(t)
    BY <1>0 DEF Good, OldKeys, OneEach
<1>4. OrdersTracked(t)
    <2>1. \A m \in DOMAIN s.orders : s.orders[m] # u
        BY <1>0 DEF Good, OneEach
    <2>2. n \in DOMAIN s.orders => s.orders[n] = u
        BY <1>0, <1>1 DEF Good, OldKeys, OrdersTracked, LeasesTracked, Shape
    <2> QED
        BY <1>0, <2>1, <2>2 DEF Good, OrdersTracked
<1>5. LeasesTracked(t)
    <2>1. \A k \in DOMAIN s.leases : k # l => s.leases[k].url # u /\ s.leases[k].key # u
        BY <1>0, <1>1 DEF Good, OneEach, Shape
    <2>2. \A k \in DOMAIN t.leases :
              IF t.leases[k].key = NoUrl
              THEN /\ t.leases[k].url \notin DOMAIN t.active
                   /\ t.leases[k].url \in DOMAIN t.keys /\ t.leases[k].seq = 0
              ELSE /\ t.leases[k].key \in DOMAIN t.active
                   /\ t.active[t.leases[k].key] = t.leases[k].seq
                   /\ t.leases[k].key \in DOMAIN t.leased /\ t.leased[t.leases[k].key] = k
        <3> SUFFICES ASSUME NEW k \in DOMAIN s.leases
                     PROVE  IF t.leases[k].key = NoUrl
                            THEN /\ t.leases[k].url \notin DOMAIN t.active
                                 /\ t.leases[k].url \in DOMAIN t.keys /\ t.leases[k].seq = 0
                            ELSE /\ t.leases[k].key \in DOMAIN t.active
                                 /\ t.active[t.leases[k].key] = t.leases[k].seq
                                 /\ t.leases[k].key \in DOMAIN t.leased
                                 /\ t.leased[t.leases[k].key] = k
            BY <1>0
        <3>1. CASE k = l
            BY <1>0, <1>1, <3>1
        <3>2. CASE k # l
            BY <1>0, <2>1, <3>2 DEF Good, LeasesTracked
        <3> QED
            BY <1>0, <3>1, <3>2
    <2>3. \A x \in DOMAIN t.leased :
              t.leased[x] \in DOMAIN t.leases /\ t.leases[t.leased[x]].key = x
        <3>1. \A x \in DOMAIN s.leased :
                  s.leased[x] \in DOMAIN s.leases /\ s.leases[s.leased[x]].key = x
            BY <1>0 DEF Good, LeasesTracked
        <3>2. \A x \in DOMAIN s.leased : x # u => s.leased[x] # l
            BY <1>0, <1>1, <3>1, DiscoveryAssumption DEF Good, Shape
        <3> QED
            BY <1>0, <3>1, <3>2
    <2> QED
        BY <1>0, <2>2, <2>3 DEF LeasesTracked
<1>6. OwnersWork(t)
    BY <1>0 DEF Good, OwnersWork, Work, OrdersOf, LeasesOf
<1>7. StagedSound(t)
    <2>1. \A k \in DOMAIN t.staged \cap DOMAIN t.leases : t.leases[k] = s.leases[k]
        BY <1>0, StagedKeyed
    <2>2. \A k \in DOMAIN s.leases : s.leases[k].key # NoUrl => t.leases[k].key # NoUrl
        BY <1>0, <1>1
    <2> QED
        BY <1>0, <2>1, <2>2 DEF Good, StagedSound
<1>8. Kept(s, t)
    <2>1. \A k \in DOMAIN s.staged \ DOMAIN s.leases :
              s.staged[k].lease.key = u => n # s.staged[k].lease.seq
        BY <1>0, StagedApart
    <2>2. \A k \in DOMAIN s.staged \ DOMAIN s.leases : Released(s, k) => Released(t, k)
        BY <1>0, <2>1 DEF Released
    <2> QED
        BY <1>0, <2>2 DEF Kept
<1> QED
    BY <1>0, <1>2, <1>3, <1>4, <1>5, <1>6, <1>7, <1>8 DEF Good

LEMMA TrackLeaseGood ==
    ASSUME NEW s, Good(s), NEW l \in DOMAIN s.leases, NEW u, u = s.leases[l].url,
           NEW n, n = s.leases[l].seq
    PROVE  Good(TrackLease(s, u, l, n)) /\ Kept(s, TrackLease(s, u, l, n))
BY TrackLeaseFields, LeaseTrackedGood

(* Ownership without work may end at any time.                             *)
LEMMA ReleaseOrphanGood ==
    ASSUME NEW s, Good(s), NEW u \in DOMAIN s.active, ~Work(s, u),
           NEW t, t = ReleaseOrphan(s, u)
    PROVE  Good(t) /\ Kept(s, t) /\ ~Work(t, u) /\ t.next = s.next
<1>1. /\ DOMAIN t = Buckets
      /\ t.active = Delete(s.active, u) /\ t.leased = Delete(s.leased, u)
      /\ t.pending = Delete(s.pending, s.active[u])
      /\ t.orders = s.orders /\ t.next = s.next /\ t.keys = s.keys
      /\ t.leases = s.leases /\ t.staged = s.staged /\ t.settlements = s.settlements
    BY DEF Good, Shape, ReleaseOrphan, Buckets
<1>2. /\ DOMAIN t.active = DOMAIN s.active \ {u}
      /\ \A x \in DOMAIN s.active : x # u => t.active[x] = s.active[x]
    BY <1>1 DEF Delete
<1>3. /\ DOMAIN t.leased = DOMAIN s.leased \ {u}
      /\ \A x \in DOMAIN s.leased : x # u => t.leased[x] = s.leased[x]
    BY <1>1 DEF Delete
<1>4. DOMAIN t.pending = DOMAIN s.pending \ {s.active[u]}
    BY <1>1 DEF Delete
<1>5. /\ \A n \in DOMAIN s.orders : s.orders[n] # u
      /\ \A l \in DOMAIN s.leases : s.leases[l].url # u /\ s.leases[l].key # u
    <2>1. u # NoUrl
        BY DiscoveryAssumption DEF Good, Shape
    <2> QED
        BY <2>1 DEF Work, OrdersOf, LeasesOf, Good, Shape
<1>6. Shape(t) /\ OldKeys(t) /\ OneEach(t)
    BY <1>1, <1>2, <1>3 DEF Good, Shape, OldKeys, OneEach
<1>7. OrdersTracked(t)
    <2>1. s.active[u] \notin DOMAIN s.orders
        BY <1>5 DEF Good, OrdersTracked
    <2> QED
        BY <1>1, <1>2, <1>4, <1>5, <2>1 DEF Good, OrdersTracked
<1>8. LeasesTracked(t)
    BY <1>1, <1>2, <1>3, <1>5 DEF Good, LeasesTracked
<1>9. OwnersWork(t)
    BY <1>1, <1>2 DEF Good, OwnersWork, Work, OrdersOf, LeasesOf
<1>10. StagedSound(t)
    BY <1>1, <1>2, <1>5 DEF Good, StagedSound
<1>11. Kept(s, t)
    <2>1. \A k \in DOMAIN s.staged \ DOMAIN s.leases : Released(s, k) => Released(t, k)
        BY <1>1, <1>2 DEF Released
    <2> QED
        BY <1>1, <2>1 DEF Kept
<1>12. ~Work(t, u)
    BY <1>1 DEF Work, OrdersOf, LeasesOf
<1> QED
    BY <1>1, <1>6, <1>7, <1>8, <1>9, <1>10, <1>11, <1>12 DEF Good

(* A new order for a URL that has no work.                                 *)
LEMMA EnqueueGood ==
    ASSUME NEW s, Good(s), NEW u \in Urls, ~Work(s, u),
           NEW t, t = TrackOrder(Enqueue(s, u), u, s.next)
    PROVE  Good(t) /\ Kept(s, t)
<1>1. /\ DOMAIN t = Buckets
      /\ t.orders = Put(s.orders, s.next, u) /\ t.next = s.next + 1
      /\ t.active = Put(s.active, u, s.next) /\ t.pending = Put(s.pending, s.next, u)
      /\ t.leased = s.leased /\ t.keys = s.keys
      /\ t.leases = s.leases /\ t.staged = s.staged /\ t.settlements = s.settlements
    BY DEF Good, Shape, Enqueue, TrackOrder, Buckets
<1>2. /\ DOMAIN t.active = DOMAIN s.active \cup {u}
      /\ t.active[u] = s.next
      /\ \A x \in DOMAIN s.active : x # u => t.active[x] = s.active[x]
    BY <1>1 DEF Put
<1>3. DOMAIN t.pending = DOMAIN s.pending \cup {s.next}
    BY <1>1 DEF Put
<1>4. /\ DOMAIN t.orders = DOMAIN s.orders \cup {s.next}
      /\ t.orders[s.next] = u
      /\ \A n \in DOMAIN s.orders : n # s.next => t.orders[n] = s.orders[n]
    BY <1>1 DEF Put
<1>5. s.next \in Nat /\ s.next \notin DOMAIN s.orders /\ s.next \notin DOMAIN s.pending
    BY DEF Good, Shape, OrdersTracked
<1>6. /\ \A n \in DOMAIN s.orders : s.orders[n] # u
      /\ \A l \in DOMAIN s.leases : s.leases[l].url # u /\ s.leases[l].key # u
    BY DiscoveryAssumption DEF Work, OrdersOf, LeasesOf, Good, Shape
<1>7. Shape(t) /\ OldKeys(t) /\ OneEach(t)
    <2>1. Shape(t)
        <3>1. \A n \in DOMAIN t.orders : n \in Nat /\ n < t.next /\ t.orders[n] \in Urls
            BY <1>1, <1>4, <1>5 DEF Good, Shape
        <3>2. \A x \in DOMAIN t.active : x \in Urls /\ t.active[x] \in Nat /\ t.active[x] < t.next
            BY <1>1, <1>2, <1>5 DEF Good, Shape
        <3>3. \A l \in DOMAIN t.leases : t.leases[l].seq < t.next
            BY <1>1, <1>5 DEF Good, Shape, Lease
        <3>4. \A l \in DOMAIN t.staged : t.staged[l].lease.seq < t.next
            BY <1>1, <1>5 DEF Good, Shape, Lease
        <3> QED
            BY <1>1, <1>5, <3>1, <3>2, <3>3, <3>4 DEF Good, Shape
    <2>2. OldKeys(t)
        BY <1>1, <1>4, <1>5 DEF Good, OldKeys
    <2>3. OneEach(t)
        BY <1>1, <1>4, <1>5, <1>6 DEF Good, OneEach
    <2> QED
        BY <2>1, <2>2, <2>3
<1>8. OrdersTracked(t)
    <2>1. \A x \in DOMAIN s.active : s.active[x] # s.next
        BY <1>5 DEF Good, Shape
    <2> QED
        BY <1>1, <1>2, <1>3, <1>4, <1>5, <1>6, <2>1 DEF Good, OrdersTracked
<1>9. LeasesTracked(t)
    BY <1>1, <1>2, <1>6 DEF Good, LeasesTracked
<1>10. OwnersWork(t)
    <2>1. Work(t, u)
        BY <1>4 DEF Work, OrdersOf
    <2>2. \A x : Work(s, x) => Work(t, x)
        BY <1>1, <1>4, <1>5 DEF Work, OrdersOf, LeasesOf
    <2> QED
        BY <1>1, <1>2, <2>1, <2>2 DEF Good, OwnersWork
<1>11. \A k \in DOMAIN s.staged : s.staged[k].lease.seq # s.next
    BY <1>5 DEF Good, Shape, Lease
<1>12. StagedSound(t)
    BY <1>1, <1>2, <1>4, <1>5, <1>6, <1>11 DEF Good, StagedSound
<1>13. Kept(s, t)
    <2>1. \A k \in DOMAIN s.staged \ DOMAIN s.leases : Released(s, k) => Released(t, k)
        BY <1>1, <1>2, <1>11 DEF Released
    <2> QED
        BY <1>1, <2>1 DEF Kept
<1> QED
    BY <1>7, <1>8, <1>9, <1>10, <1>12, <1>13 DEF Good

-----------------------------------------------------------------------------
(* Repairs.                                                                *)
Repairs(s, t) == Kept(s, t) /\ t.orders = s.orders /\ t.next = s.next /\ t.intents = s.intents

LEMMA RepairsNothing ==
    ASSUME NEW s
    PROVE  Repairs(s, s)
BY DEF Repairs, Kept

LEMMA RepairsTwice ==
    ASSUME NEW s, NEW t, NEW v, Repairs(s, t), Repairs(t, v)
    PROVE  Repairs(s, v)
BY KeptTwice DEF Repairs

LEMMA QueueAlone ==
    ASSUME NEW s, DOMAIN s = Buckets, NEW u, NEW n, NEW l
    PROVE  /\ TrackOrder(s, u, n).orders = s.orders
           /\ TrackOrder(s, u, n).next = s.next
           /\ TrackOrder(s, u, n).intents = s.intents
           /\ TrackLease(s, u, l, n).orders = s.orders
           /\ TrackLease(s, u, l, n).next = s.next
           /\ TrackLease(s, u, l, n).intents = s.intents
           /\ ReleaseOrphan(s, u).orders = s.orders
           /\ ReleaseOrphan(s, u).next = s.next
           /\ ReleaseOrphan(s, u).intents = s.intents
<1>1. /\ TrackOrder(s, u, n).orders = s.orders
      /\ TrackOrder(s, u, n).next = s.next
      /\ TrackOrder(s, u, n).intents = s.intents
    BY DEF TrackOrder, Buckets
<1>2. /\ TrackLease(s, u, l, n).orders = s.orders
      /\ TrackLease(s, u, l, n).next = s.next
      /\ TrackLease(s, u, l, n).intents = s.intents
    BY DEF TrackLease, Buckets
<1>3. /\ ReleaseOrphan(s, u).orders = s.orders
      /\ ReleaseOrphan(s, u).next = s.next
      /\ ReleaseOrphan(s, u).intents = s.intents
    BY DEF ReleaseOrphan, Buckets
<1> QED
    BY <1>1, <1>2, <1>3

LEMMA OrderRepaired ==
    ASSUME NEW s, Good(s), NEW u, NEW n \in OrdersOf(s, u)
    PROVE  Good(TrackOrder(s, u, n)) /\ Repairs(s, TrackOrder(s, u, n))
<1>1. n \in DOMAIN s.orders /\ s.orders[n] = u
    BY DEF OrdersOf
<1>2. DOMAIN s = Buckets
    BY DEF Good, Shape
<1> QED
    BY <1>1, <1>2, TrackOrderGood, QueueAlone DEF Repairs

LEMMA LeaseFound ==
    ASSUME NEW s, NEW u, LeasesOf(s, u) # {}
    PROVE  LeaseOf(s, u) \in DOMAIN s.leases /\ s.leases[LeaseOf(s, u)].url = u
BY DEF LeaseOf, LeasesOf

LEMMA LeaseRepaired ==
    ASSUME NEW s, Good(s), NEW u, LeasesOf(s, u) # {}, NEW n, n = s.leases[LeaseOf(s, u)].seq
    PROVE  /\ Good(TrackLease(s, u, LeaseOf(s, u), n))
           /\ Repairs(s, TrackLease(s, u, LeaseOf(s, u), n))
<1>1. DOMAIN s = Buckets
    BY DEF Good, Shape
<1> QED
    BY <1>1, LeaseFound, TrackLeaseGood, QueueAlone DEF Repairs

LEMMA UntrackedGood ==
    ASSUME NEW s, Good(s), NEW u
    PROVE  Good(Untracked(s, u)) /\ Repairs(s, Untracked(s, u))
<1>1. CASE OrdersOf(s, u) # {}
    <2>1. OrdersOf(s, u) \subseteq Nat
        BY DEF OrdersOf, Good, Shape
    <2>2. Min(OrdersOf(s, u)) \in OrdersOf(s, u)
        BY <1>1, <2>1, Least
    <2>3. Untracked(s, u) = TrackOrder(s, u, Min(OrdersOf(s, u)))
        BY <1>1 DEF Untracked
    <2> QED
        BY <2>2, <2>3, OrderRepaired
<1>2. CASE OrdersOf(s, u) = {} /\ LeasesOf(s, u) # {}
    <2>1. Untracked(s, u) = TrackLease(s, u, LeaseOf(s, u), s.leases[LeaseOf(s, u)].seq)
        BY <1>2 DEF Untracked
    <2> QED
        BY <1>2, <2>1, LeaseRepaired
<1>3. CASE OrdersOf(s, u) = {} /\ LeasesOf(s, u) = {}
    <2>1. Untracked(s, u) = s
        BY <1>3 DEF Untracked
    <2> QED
        BY <2>1, RepairsNothing
<1> QED
    BY <1>1, <1>2, <1>3

LEMMA LegacyGood ==
    ASSUME NEW s, Good(s), NEW u \in DOMAIN s.keys, u \notin DOMAIN s.active
    PROVE  Good(Legacy(s, u)) /\ Repairs(s, Legacy(s, u))
<1>1. CASE s.keys[u] \in OrdersOf(s, u)
    <2> DEFINE t == TrackOrder(s, u, s.keys[u])
    <2>1. Legacy(s, u) = [t EXCEPT !.keys = Delete(@, u)]
        <3>1. s.keys[u] \in DOMAIN s.orders
            BY <1>1 DEF OrdersOf
        <3> QED
            BY <1>1, <3>1 DEF Legacy
    <2>2. Good(t) /\ Repairs(s, t)
        BY <1>1, OrderRepaired
    <2>3. /\ s.keys[u] \in DOMAIN t.orders /\ u = t.orders[s.keys[u]]
          /\ u \in DOMAIN t.active
        <3>1. s.keys[u] \in DOMAIN s.orders /\ u = s.orders[s.keys[u]]
            BY <1>1 DEF OrdersOf
        <3>2. t.active = Put(s.active, u, s.keys[u])
            BY DEF Good, Shape, Buckets, TrackOrder
        <3>3. DOMAIN t.active = DOMAIN s.active \cup {u}
            BY <3>2 DEF Put
        <3>4. t.orders = s.orders
            BY <2>2 DEF Repairs
        <3> HIDE DEF t
        <3> QED
            BY <3>1, <3>3, <3>4
    <2> HIDE DEF t
    <2>4. PICK v : v = [t EXCEPT !.keys = Delete(@, u)]
        OBVIOUS
    <2>5. Good(v) /\ Kept(t, v)
        BY <2>2, <2>3, <2>4, ForgetKeyGood
    <2>6. v.orders = t.orders /\ v.next = t.next /\ v.intents = t.intents
        BY <2>2, <2>4 DEF Good, Shape, Buckets
    <2>7. Repairs(t, v)
        BY <2>5, <2>6 DEF Repairs
    <2> QED
        BY <2>1, <2>2, <2>4, <2>5, <2>7, RepairsTwice
<1>2. CASE s.keys[u] \in DOMAIN s.orders \ OrdersOf(s, u)
    <2>1. Legacy(s, u) = s
        BY <1>2 DEF Legacy
    <2> QED
        BY <2>1, RepairsNothing
<1>3. CASE s.keys[u] \notin DOMAIN s.orders /\ LeasesOf(s, u) # {}
    <2>1. s.keys[u] \notin OrdersOf(s, u)
        BY <1>3 DEF OrdersOf
    <2>2. Legacy(s, u) = TrackLease(s, u, LeaseOf(s, u), s.leases[LeaseOf(s, u)].seq)
        BY <1>3, <2>1 DEF Legacy
    <2> QED
        BY <1>3, <2>2, LeaseRepaired
<1>4. CASE s.keys[u] \notin DOMAIN s.orders /\ LeasesOf(s, u) = {}
    <2>1. s.keys[u] \notin OrdersOf(s, u)
        BY <1>4 DEF OrdersOf
    <2>2. Legacy(s, u) = Untracked(s, u)
        BY <1>4, <2>1 DEF Legacy
    <2> QED
        BY <2>2, UntrackedGood
<1> QED
    BY <1>1, <1>2, <1>3, <1>4

LEMMA RepairedGood ==
    ASSUME NEW s, Good(s), NEW u
    PROVE  Good(Repaired(s, u)) /\ Repairs(s, Repaired(s, u))
<1>1. CASE ActivePending(s, u)
    <2>1. Repaired(s, u) = TrackOrder(s, u, s.active[u])
        BY <1>1 DEF Repaired, ActivePending
    <2>2. s.active[u] \in OrdersOf(s, u)
        BY <1>1 DEF ActivePending
    <2> QED
        BY <2>1, <2>2, OrderRepaired
<1>2. CASE u \in DOMAIN s.active /\ ~ActivePending(s, u) /\ LeasesOf(s, u) # {}
    <2>1. Repaired(s, u) = TrackLease(s, u, LeaseOf(s, u), s.active[u])
        BY <1>2 DEF Repaired
    <2>2. s.active[u] = s.leases[LeaseOf(s, u)].seq
        <3>1. s.leases[LeaseOf(s, u)].key # NoUrl
            BY <1>2, LeaseFound DEF Good, LeasesTracked
        <3>2. s.leases[LeaseOf(s, u)].key = u
            BY <1>2, <3>1, LeaseFound DEF Good, Shape
        <3> QED
            BY <1>2, <3>1, <3>2, LeaseFound DEF Good, LeasesTracked
    <2> QED
        BY <1>2, <2>1, <2>2, LeaseRepaired
<1>3. CASE u \in DOMAIN s.active /\ ~ActivePending(s, u) /\ LeasesOf(s, u) = {}
    <2>1. PICK t : t = ReleaseOrphan(s, u)
        OBVIOUS
    <2>2. Repaired(s, u) = Untracked(t, u)
        BY <1>3, <2>1 DEF Repaired
    <2>3. OrdersOf(s, u) = {}
        BY <1>3 DEF ActivePending, OrdersOf, Good, OrdersTracked
    <2>4. ~Work(s, u)
        BY <1>3, <2>3 DEF Work
    <2>5. Good(t) /\ Kept(s, t)
        BY <1>3, <2>1, <2>4, ReleaseOrphanGood
    <2>6. DOMAIN s = Buckets
        BY DEF Good, Shape
    <2>7. Repairs(s, t)
        BY <2>1, <2>5, <2>6, QueueAlone DEF Repairs
    <2> QED
        BY <2>2, <2>5, <2>7, UntrackedGood, RepairsTwice
<1>4. CASE u \notin DOMAIN s.active /\ u \in DOMAIN s.keys
    <2>1. Repaired(s, u) = Legacy(s, u)
        BY <1>4 DEF Repaired, ActivePending
    <2> QED
        BY <1>4, <2>1, LegacyGood
<1>5. CASE u \notin DOMAIN s.active /\ u \notin DOMAIN s.keys
    <2>1. Repaired(s, u) = s
        BY <1>5 DEF Repaired, ActivePending
    <2> QED
        BY <2>1, RepairsNothing
<1> QED
    BY <1>1, <1>2, <1>3, <1>4, <1>5 DEF ActivePending

(* Work is never overlooked: its URL is answered "duplicate".              *)
LEMMA WorkOutstanding ==
    ASSUME NEW s, Good(s), NEW u \in Urls, Work(s, u)
    PROVE  Outstanding(s, u)
<1>1. CASE u \in DOMAIN s.active
    BY <1>1 DEF Outstanding
<1>2. CASE u \notin DOMAIN s.active
    <2>1. u \in DOMAIN s.keys
        <3>1. CASE OrdersOf(s, u) # {}
            BY <1>2, <3>1 DEF OrdersOf, Good, OrdersTracked
        <3>2. CASE LeasesOf(s, u) # {}
            BY <1>2, <3>2, LeaseFound DEF Good, LeasesTracked, Shape
        <3> QED
            BY <3>1, <3>2 DEF Work
    <2> QED
        BY <1>2, <2>1 DEF Outstanding, Good, OldKeys
<1> QED
    BY <1>1, <1>2

(* An intent is completed once, whoever completes it.                      *)
LEMMA CompleteIntentGood ==
    ASSUME NEW s, Good(s), NEW u \in Urls, NEW recovering \in BOOLEAN,
           NEW t, t = CompleteIntent(s, u, recovering)
    PROVE  Good(t) /\ Kept(s, t) /\ t.next \in Nat
<1>1. PICK r : r = Repaired(s, u)
    OBVIOUS
<1>2. Good(r) /\ Repairs(s, r)
    BY <1>1, RepairedGood
<1>3. CASE Outstanding(s, u)
    <2>1. t = r
        BY <1>1, <1>3 DEF CompleteIntent
    <2> QED
        BY <1>2, <2>1 DEF Repairs, Good, Shape
<1>4. CASE ~Outstanding(s, u)
    <2>1. ~Work(s, u)
        BY <1>4, WorkOutstanding
    <2>2. ~Work(r, u)
        BY <1>2, <2>1 DEF Work, OrdersOf, LeasesOf, Repairs, Kept
    <2>3. t = TrackOrder(Enqueue(r, u), u, r.next)
        BY <1>1, <1>4, <2>2 DEF CompleteIntent
    <2>4. Good(t) /\ Kept(r, t)
        BY <1>2, <2>2, <2>3, EnqueueGood
    <2> QED
        BY <1>2, <2>4, KeptTwice DEF Repairs, Good, Shape
<1> QED
    BY <1>3, <1>4

-----------------------------------------------------------------------------
(* The step that AcknowledgedStaysDone allows.                             *)
Done(s, t) ==
    \A l \in DOMAIN s.staged \cap DOMAIN s.leases :
        \/ l \in DOMAIN t.leases /\ t.leases[l] = s.leases[l]
        \/ /\ l \notin DOMAIN t.leases
           /\ t.settlements[l].outcome = "acknowledged"
           /\ t.orders = s.orders

LEMMA KeptDone ==
    ASSUME NEW s, Good(s), NEW t, Kept(s, t)
    PROVE  Done(s, t)
BY StagedKeyed DEF Kept, Done

LEMMA HeldKept ==
    ASSUME NEW s, NEW t, NEW m, Kept(s, t), Held(s, m)
    PROVE  Held(t, m)
<1>1. /\ t.staged = s.staged
      /\ DOMAIN t.leases = DOMAIN s.leases
      /\ \A l \in DOMAIN s.leases :
             /\ t.leases[l].url = s.leases[l].url
             /\ s.leases[l].url \in DOMAIN s.keys => s.leases[l].url \in DOMAIN t.keys
      /\ \A l \in DOMAIN s.staged \ DOMAIN s.leases : Released(s, l) => Released(t, l)
    BY DEF Kept
<1> QED
    BY <1>1 DEF Held

LEMMA HeldIdle ==
    ASSUME NEW s
    PROVE  Held(s, Idle)
BY DEF Held, Idle

(* Writing and deleting an intent.                                         *)
LEMMA IntentsGood ==
    ASSUME NEW s, Good(s), NEW i, NEW t, t = [s EXCEPT !.intents = i]
    PROVE  Good(t) /\ Kept(s, t)
<1>1. /\ DOMAIN t = Buckets
      /\ t.orders = s.orders /\ t.next = s.next /\ t.leases = s.leases /\ t.keys = s.keys
      /\ t.active = s.active /\ t.pending = s.pending /\ t.leased = s.leased
      /\ t.staged = s.staged /\ t.settlements = s.settlements
    BY DEF Good, Shape, Buckets
<1>2. Shape(t) /\ OldKeys(t) /\ OneEach(t)
    BY <1>1 DEF Good, Shape, OldKeys, OneEach
<1>3. OrdersTracked(t) /\ LeasesTracked(t)
    BY <1>1 DEF Good, OrdersTracked, LeasesTracked
<1>4. OwnersWork(t) /\ StagedSound(t)
    BY <1>1 DEF Good, OwnersWork, StagedSound, Work, OrdersOf, LeasesOf
<1>5. Kept(s, t)
    BY <1>1 DEF Kept, Released
<1> QED
    BY <1>2, <1>3, <1>4, <1>5 DEF Good

(* Clearing a pending order with its ownership.                            *)
LEMMA ClearedGood ==
    ASSUME NEW s, Good(s), NEW n \in DOMAIN s.orders, NEW t, t = Cleared(s, n)
    PROVE  Good(t) /\ Kept(s, t)
<1>1. PICK u : u = s.orders[n]
    OBVIOUS
<1>2. u \in Urls /\ u \notin DOMAIN s.leased
    BY <1>1, DiscoveryAssumption DEF Good, Shape, LeasesTracked, OneEach
<1>3. /\ DOMAIN t = Buckets
      /\ t.orders = Delete(s.orders, n) /\ t.pending = Delete(s.pending, n)
      /\ t.active = IF u \in DOMAIN s.active /\ s.active[u] = n THEN Delete(s.active, u) ELSE s.active
      /\ t.keys = IF u \in DOMAIN s.keys /\ s.keys[u] = n THEN Delete(s.keys, u) ELSE s.keys
      /\ t.next = s.next /\ t.leases = s.leases /\ t.leased = s.leased
      /\ t.staged = s.staged /\ t.settlements = s.settlements
    BY <1>1, <1>2 DEF Good, Shape, Buckets, Cleared
<1>4. /\ DOMAIN t.orders = DOMAIN s.orders \ {n}
      /\ \A m \in DOMAIN s.orders : m # n => t.orders[m] = s.orders[m]
    BY <1>3 DEF Delete
<1>5. DOMAIN t.pending = DOMAIN s.pending \ {n}
    BY <1>3 DEF Delete
<1>6. /\ DOMAIN t.active = DOMAIN s.active \ {u}
      /\ \A x \in DOMAIN s.active : x # u => t.active[x] = s.active[x]
    <2>1. u \in DOMAIN s.active => s.active[u] = n
        BY <1>1 DEF Good, OrdersTracked
    <2> QED
        BY <1>3, <2>1 DEF Delete
<1>7. /\ DOMAIN t.keys \subseteq DOMAIN s.keys
      /\ DOMAIN s.keys \subseteq DOMAIN t.keys \cup {u}
      /\ \A x \in DOMAIN t.keys : t.keys[x] = s.keys[x]
    BY <1>3 DEF Delete
<1>8. /\ DOMAIN t = Buckets
      /\ t.next = s.next /\ t.leases = s.leases /\ t.leased = s.leased
      /\ t.staged = s.staged /\ t.settlements = s.settlements
    BY <1>3
<1>9. /\ \A m \in DOMAIN s.orders : m # n => s.orders[m] # u
      /\ \A l \in DOMAIN s.leases : s.leases[l].url # u /\ s.leases[l].key # u
    BY <1>1, <1>2, DiscoveryAssumption DEF Good, OneEach, Shape
<1>10. Shape(t) /\ OldKeys(t) /\ OneEach(t)
    BY <1>4, <1>6, <1>7, <1>8 DEF Good, Shape, OldKeys, OneEach
<1>11. OrdersTracked(t)
    BY <1>1, <1>4, <1>5, <1>6, <1>7, <1>9 DEF Good, OrdersTracked
<1>12. LeasesTracked(t)
    BY <1>6, <1>7, <1>8, <1>9 DEF Good, LeasesTracked
<1>13. OwnersWork(t)
    <2>1. \A x : x # u /\ Work(s, x) => Work(t, x)
        BY <1>1, <1>4, <1>8 DEF Work, OrdersOf, LeasesOf
    <2> QED
        BY <1>6, <1>7, <1>8, <2>1 DEF Good, OwnersWork
<1>14. StagedSound(t)
    <2>1. \A m \in DOMAIN t.orders : t.orders[m] # u
        BY <1>4, <1>9
    <2> QED
        BY <1>4, <1>6, <1>8, <2>1 DEF Good, StagedSound
<1>15. Kept(s, t)
    BY <1>6, <1>7, <1>8, <1>9 DEF Kept, Released
<1> QED
    BY <1>10, <1>11, <1>12, <1>13, <1>14, <1>15 DEF Good

-----------------------------------------------------------------------------
(* Claims.                                                                 *)
LEMMA ClaimTrackedGood ==
    ASSUME NEW s, Good(s), NEW n \in DOMAIN s.orders, NEW u \in DOMAIN s.active, s.orders[n] = u,
           NEW l, l \notin DOMAIN s.leases, l \notin DOMAIN s.staged,
           l \notin DOMAIN s.settlements, NEW r \in Lease,
           r.url = u, r.key = u, r.seq = n, NEW t, DOMAIN t = Buckets,
           t.orders = Delete(s.orders, n), t.pending = Delete(s.pending, n),
           t.leases = Put(s.leases, l, r), t.leased = Put(s.leased, u, l),
           t.next = s.next, t.keys = s.keys, t.active = s.active,
           t.staged = s.staged, t.settlements = s.settlements
    PROVE  Good(t) /\ Done(s, t)
<1>1. /\ DOMAIN t.orders = DOMAIN s.orders \ {n}
      /\ \A m \in DOMAIN s.orders : m # n => t.orders[m] = s.orders[m]
    BY DEF Delete
<1>2. DOMAIN t.pending = DOMAIN s.pending \ {n}
    BY DEF Delete
<1>3. /\ DOMAIN t.leases = DOMAIN s.leases \cup {l}
      /\ t.leases[l] = r
      /\ \A k \in DOMAIN s.leases : t.leases[k] = s.leases[k]
    BY DEF Put
<1>4. /\ DOMAIN t.leased = DOMAIN s.leased \cup {u}
      /\ t.leased[u] = l
      /\ \A x \in DOMAIN s.leased : x # u => t.leased[x] = s.leased[x]
    BY DEF Put
<1>5. u \in Urls /\ u # NoUrl /\ n \in Nat /\ n < s.next /\ s.active[u] = n
    BY DiscoveryAssumption DEF Good, Shape, OrdersTracked
<1>6. /\ \A m \in DOMAIN s.orders : m # n => s.orders[m] # u
      /\ \A k \in DOMAIN s.leases : s.leases[k].url # u /\ s.leases[k].key # u
    BY <1>5, DiscoveryAssumption DEF Good, OneEach, Shape
<1>7. Shape(t)
    <2>1. \A k \in DOMAIN t.leases :
              /\ t.leases[k] \in Lease
              /\ t.leases[k].key \in {NoUrl, t.leases[k].url}
              /\ t.leases[k].seq < t.next
        BY <1>3, <1>5 DEF Good, Shape
    <2> QED
        BY <1>1, <1>4, <1>5, <2>1 DEF Good, Shape
<1>8. OldKeys(t) /\ OneEach(t)
    BY <1>1, <1>3, <1>6 DEF Good, OldKeys, OneEach
<1>9. OrdersTracked(t)
    BY <1>1, <1>2, <1>5, <1>6 DEF Good, OrdersTracked
<1>10. LeasesTracked(t)
    BY <1>3, <1>4, <1>5, <1>6 DEF Good, LeasesTracked
<1>11. OwnersWork(t)
    <2>1. Work(t, u)
        BY <1>3 DEF Work, LeasesOf
    <2>2. \A x : x # u /\ Work(s, x) => Work(t, x)
        BY <1>1, <1>3 DEF Work, OrdersOf, LeasesOf
    <2> QED
        BY <2>1, <2>2 DEF Good, OwnersWork
<1>12. StagedSound(t)
    <2>1. \A k \in DOMAIN s.staged : s.staged[k].lease.key = u /\ k \notin DOMAIN s.leases =>
              n # s.staged[k].lease.seq
        BY StagedApartOrder
    <2>2. \A k \in DOMAIN s.staged : k # l
        OBVIOUS
    <2>3. \A k \in DOMAIN t.staged \ DOMAIN t.leases :
              \A x \in DOMAIN t.leases :
                  t.leases[x].url = t.staged[k].lease.key =>
                      t.leases[x].key # NoUrl /\ t.leases[x].seq # t.staged[k].lease.seq
        BY <1>3, <1>5, <2>1, StagedApart
    <2>4. \A k \in DOMAIN t.staged \ DOMAIN t.leases :
              \A x \in DOMAIN t.orders :
                  t.orders[x] = t.staged[k].lease.key =>
                      x # t.staged[k].lease.seq /\ t.staged[k].lease.key \in DOMAIN t.active
        BY <1>1, <1>3, StagedApartOrder
    <2>5. \A k \in DOMAIN t.staged \cap DOMAIN t.leases : t.leases[k] = t.staged[k].lease
        BY <1>3, <2>2 DEF Good, StagedSound
    <2>6. \A k \in DOMAIN t.staged \cap DOMAIN t.settlements :
              t.settlements[k] = [outcome |-> "acknowledged", terminal |-> t.staged[k].terminal]
        BY DEF Good, StagedSound
    <2>7. \A k \in DOMAIN t.leases \cap DOMAIN t.settlements : t.leases[k].deferred
        BY <1>3 DEF Good, StagedSound
    <2> QED
        BY <2>3, <2>4, <2>5, <2>6, <2>7, StagedSoundIntro
<1>13. Done(s, t)
    BY <1>3 DEF Done
<1> QED
    BY <1>7, <1>8, <1>9, <1>10, <1>11, <1>12, <1>13 DEF Good

LEMMA ClaimUntrackedGood ==
    ASSUME NEW s, Good(s), NEW n \in DOMAIN s.orders, NEW u, s.orders[n] = u,
           u \notin DOMAIN s.active,
           NEW l, l \notin DOMAIN s.leases, l \notin DOMAIN s.staged,
           l \notin DOMAIN s.settlements, NEW r \in Lease,
           r.url = u, r.key = NoUrl, r.seq = 0, NEW t, DOMAIN t = Buckets,
           t.orders = Delete(s.orders, n), t.pending = Delete(s.pending, n),
           t.leases = Put(s.leases, l, r), t.leased = s.leased,
           t.next = s.next, t.keys = s.keys, t.active = s.active,
           t.staged = s.staged, t.settlements = s.settlements
    PROVE  Good(t) /\ Done(s, t)
<1>1. /\ DOMAIN t.orders = DOMAIN s.orders \ {n}
      /\ \A m \in DOMAIN s.orders : m # n => t.orders[m] = s.orders[m]
    BY DEF Delete
<1>2. DOMAIN t.pending = DOMAIN s.pending \ {n}
    BY DEF Delete
<1>3. /\ DOMAIN t.leases = DOMAIN s.leases \cup {l}
      /\ t.leases[l] = r
      /\ \A k \in DOMAIN s.leases : t.leases[k] = s.leases[k]
    BY DEF Put
<1>4. u \in DOMAIN s.keys
    BY DEF Good, OrdersTracked
<1>5. u \in Urls /\ u # NoUrl /\ s.next \in Nat /\ 0 < s.next
    BY <1>4, DiscoveryAssumption DEF Good, Shape, OldKeys
<1>6. /\ \A m \in DOMAIN s.orders : m # n => s.orders[m] # u
      /\ \A k \in DOMAIN s.leases : s.leases[k].url # u /\ s.leases[k].key # u
    BY <1>5, DiscoveryAssumption DEF Good, OneEach, Shape
<1>7. Shape(t)
    <2>1. \A k \in DOMAIN t.leases :
              /\ t.leases[k] \in Lease
              /\ t.leases[k].key \in {NoUrl, t.leases[k].url}
              /\ t.leases[k].seq < t.next
        BY <1>3, <1>5 DEF Good, Shape
    <2> QED
        BY <1>1, <1>5, <2>1 DEF Good, Shape
<1>8. OldKeys(t) /\ OneEach(t)
    BY <1>1, <1>3, <1>6 DEF Good, OldKeys, OneEach
<1>9. OrdersTracked(t)
    BY <1>1, <1>2, <1>6 DEF Good, OrdersTracked
<1>10. LeasesTracked(t)
    BY <1>3, <1>4, <1>5, <1>6 DEF Good, LeasesTracked
<1>11. OwnersWork(t)
    <2>1. \A x : x # u /\ Work(s, x) => Work(t, x)
        BY <1>1, <1>3 DEF Work, OrdersOf, LeasesOf
    <2> QED
        BY <2>1 DEF Good, OwnersWork
<1>12. StagedSound(t)
    <2>1. \A k \in DOMAIN s.staged \ DOMAIN s.leases : s.staged[k].lease.key # u
        BY StagedApartOrder
    <2> QED
        BY <1>1, <1>3, <2>1 DEF Good, StagedSound
<1>13. Done(s, t)
    BY <1>3 DEF Done
<1> QED
    BY <1>7, <1>8, <1>9, <1>10, <1>11, <1>12, <1>13 DEF Good

LEMMA ClaimedGood ==
    ASSUME NEW s, Good(s), DOMAIN s.orders # {}, NEW l, l \notin DOMAIN s.leases,
           l \notin DOMAIN s.staged, l \notin DOMAIN s.settlements, NEW w \in Sessions
    PROVE  Good(Claimed(s, l, w)) /\ Done(s, Claimed(s, l, w))
<1>1. PICK n \in DOMAIN s.orders : n = Min(DOMAIN s.orders)
    <2>1. DOMAIN s.orders \subseteq Nat
        BY DEF Good, Shape
    <2> QED
        BY <2>1, Least
<1>2. PICK u \in Urls : u = s.orders[n]
    BY DEF Good, Shape
<1>3. LeasesOf(s, u) = {}
    BY <1>2 DEF Good, OneEach, LeasesOf
<1>4. n \in Nat /\ DOMAIN s = Buckets
    BY DEF Good, Shape
<1>5. CASE u \in DOMAIN s.active
    <2>1. Tracked(s, n)
        BY <1>2, <1>5 DEF Tracked, Good, OrdersTracked
    <2>2. PICK r : r = [url |-> u, key |-> u, seq |-> n, session |-> w, deferred |-> FALSE]
        OBVIOUS
    <2>3. PICK t : t = [s EXCEPT !.orders = Delete(@, n), !.pending = Delete(@, n),
                                 !.leases = Put(@, l, r), !.leased = Put(@, u, l)]
        OBVIOUS
    <2>4. Claimed(s, l, w) = t
        BY <1>1, <1>2, <1>3, <2>1, <2>2, <2>3 DEF Claimed
    <2>5. /\ DOMAIN t = Buckets
          /\ t.orders = Delete(s.orders, n) /\ t.pending = Delete(s.pending, n)
          /\ t.leases = Put(s.leases, l, r) /\ t.leased = Put(s.leased, u, l)
          /\ t.next = s.next /\ t.keys = s.keys /\ t.active = s.active
          /\ t.staged = s.staged /\ t.settlements = s.settlements
        BY <1>4, <2>3 DEF Buckets
    <2>6. r \in Lease /\ r.url = u /\ r.key = u /\ r.seq = n
        BY <1>4, <2>2 DEF Lease
    <2> QED
        BY <1>2, <1>5, <2>4, <2>5, <2>6, ClaimTrackedGood
<1>6. CASE u \notin DOMAIN s.active
    <2>1. ~Tracked(s, n)
        BY <1>2, <1>6 DEF Tracked, Good, OrdersTracked
    <2>2. PICK r : r = [url |-> u, key |-> NoUrl, seq |-> 0, session |-> w, deferred |-> FALSE]
        OBVIOUS
    <2>3. PICK t : t = [s EXCEPT !.orders = Delete(@, n), !.pending = Delete(@, n),
                                 !.leases = Put(@, l, r)]
        OBVIOUS
    <2>4. Claimed(s, l, w) = t
        BY <1>1, <1>2, <2>1, <2>2, <2>3 DEF Claimed
    <2>5. /\ DOMAIN t = Buckets
          /\ t.orders = Delete(s.orders, n) /\ t.pending = Delete(s.pending, n)
          /\ t.leases = Put(s.leases, l, r) /\ t.leased = s.leased
          /\ t.next = s.next /\ t.keys = s.keys /\ t.active = s.active
          /\ t.staged = s.staged /\ t.settlements = s.settlements
        BY <1>4, <2>3 DEF Buckets
    <2>6. r \in Lease /\ r.url = u /\ r.key = NoUrl /\ r.seq = 0
        BY <1>4, <2>2 DEF Lease
    <2> QED
        BY <1>2, <1>6, <2>4, <2>5, <2>6, ClaimUntrackedGood
<1> QED
    BY <1>5, <1>6

-----------------------------------------------------------------------------
(* Settlements.                                                            *)
Dropped(s, t, l) ==
    /\ DOMAIN t = Buckets
    /\ DOMAIN t.leases = DOMAIN s.leases \ {l}
    /\ \A k \in DOMAIN t.leases : t.leases[k] = s.leases[k]
    /\ \A x \in DOMAIN t.leased :
           x \in DOMAIN s.leased /\ t.leased[x] = s.leased[x] /\ s.leased[x] # l
    /\ \A x \in DOMAIN s.leased : s.leased[x] # l => x \in DOMAIN t.leased
    /\ t.keys = s.keys /\ t.staged = s.staged

LEMMA LeaseDropped ==
    ASSUME NEW s, Good(s), NEW l, NEW r, l \in DOMAIN s.leases => r = s.leases[l],
           NEW t, t = ReleaseLeased([s EXCEPT !.leases = Delete(@, l)], l, r)
    PROVE  /\ Dropped(s, t, l)
           /\ t.orders = s.orders /\ t.next = s.next /\ t.active = s.active
           /\ t.pending = s.pending /\ t.settlements = s.settlements
<1>1. PICK v : v = [s EXCEPT !.leases = Delete(@, l)]
    OBVIOUS
<1>2. /\ DOMAIN v = Buckets /\ v.leases = Delete(s.leases, l)
      /\ v.orders = s.orders /\ v.next = s.next /\ v.active = s.active /\ v.pending = s.pending
      /\ v.settlements = s.settlements /\ v.leased = s.leased /\ v.keys = s.keys
      /\ v.staged = s.staged
    BY <1>1 DEF Good, Shape, Buckets
<1>3. /\ DOMAIN v.leases = DOMAIN s.leases \ {l}
      /\ \A k \in DOMAIN v.leases : v.leases[k] = s.leases[k]
    BY <1>2 DEF Delete
<1>4. \A x \in DOMAIN s.leased : s.leased[x] = l => r.key = x
    BY DEF Good, LeasesTracked
<1>5. CASE r.key \in DOMAIN s.leased /\ s.leased[r.key] = l
    <2>1. t = [v EXCEPT !.leased = Delete(@, r.key)]
        BY <1>1, <1>2, <1>5 DEF ReleaseLeased
    <2>2. /\ DOMAIN t = Buckets /\ t.leased = Delete(s.leased, r.key)
          /\ t.orders = v.orders /\ t.next = v.next /\ t.active = v.active
          /\ t.pending = v.pending /\ t.settlements = v.settlements
          /\ t.keys = v.keys /\ t.staged = v.staged /\ t.leases = v.leases
        BY <1>2, <2>1 DEF Buckets
    <2>3. /\ DOMAIN t.leased = DOMAIN s.leased \ {r.key}
          /\ \A x \in DOMAIN t.leased : t.leased[x] = s.leased[x]
        BY <2>2 DEF Delete
    <2> QED
        BY <1>2, <1>3, <1>4, <1>5, <2>2, <2>3 DEF Dropped
<1>6. CASE ~(r.key \in DOMAIN s.leased /\ s.leased[r.key] = l)
    <2>1. t = v
        BY <1>1, <1>2, <1>6 DEF ReleaseLeased
    <2>2. \A x \in DOMAIN s.leased : s.leased[x] # l
        BY <1>4, <1>6
    <2> QED
        BY <1>2, <1>3, <2>1, <2>2 DEF Dropped
<1> QED
    BY <1>5, <1>6

LEMMA RememberFields ==
    ASSUME NEW s, DOMAIN s = Buckets, NEW l, NEW outcome, NEW terminal,
           NEW t, t = Remember(s, l, outcome, terminal)
    PROVE  /\ DOMAIN t = Buckets
           /\ t.orders = s.orders /\ t.next = s.next /\ t.active = s.active
           /\ t.pending = s.pending /\ t.leased = s.leased /\ t.leases = s.leases
           /\ t.keys = s.keys /\ t.staged = s.staged
           /\ DOMAIN t.settlements = DOMAIN s.settlements \cup {l}
           /\ \A k \in DOMAIN s.settlements : t.settlements[k] = s.settlements[k]
           /\ l \notin DOMAIN s.settlements =>
                  t.settlements[l] = [outcome |-> outcome, terminal |-> terminal]
<1>1. CASE l \in DOMAIN s.settlements
    BY <1>1 DEF Remember
<1>2. CASE l \notin DOMAIN s.settlements
    <2>1. t = [s EXCEPT !.settlements = Put(@, l, [outcome |-> outcome, terminal |-> terminal])]
        BY <1>2 DEF Remember
    <2>2. /\ DOMAIN t = Buckets
          /\ t.orders = s.orders /\ t.next = s.next /\ t.active = s.active
          /\ t.pending = s.pending /\ t.leased = s.leased /\ t.leases = s.leases
          /\ t.keys = s.keys /\ t.staged = s.staged
          /\ t.settlements = Put(s.settlements, l, [outcome |-> outcome, terminal |-> terminal])
        BY <2>1 DEF Buckets
    <2>3. /\ DOMAIN t.settlements = DOMAIN s.settlements \cup {l}
          /\ t.settlements[l] = [outcome |-> outcome, terminal |-> terminal]
          /\ \A k \in DOMAIN s.settlements : k # l => t.settlements[k] = s.settlements[k]
        BY <2>2 DEF Put
    <2> QED
        BY <1>2, <2>2, <2>3
<1> QED
    BY <1>1, <1>2

LEMMA DroppedShape ==
    ASSUME NEW s, Good(s), NEW l, NEW t, Dropped(s, t, l), t.orders = s.orders, t.next = s.next,
           DOMAIN t.active \subseteq DOMAIN s.active,
           \A x \in DOMAIN t.active : t.active[x] = s.active[x]
    PROVE  Shape(t) /\ OldKeys(t) /\ OneEach(t)
<1>1. Shape(t)
    BY DEF Good, Shape, Dropped
<1>2. OldKeys(t) /\ OneEach(t)
    BY DEF Good, OldKeys, OneEach, Dropped
<1> QED
    BY <1>1, <1>2

LEMMA DroppedTracked ==
    ASSUME NEW s, Good(s), NEW l, NEW t, Dropped(s, t, l),
           \A k \in DOMAIN t.leases : s.leases[k].key = NoUrl => s.leases[k].url \notin DOMAIN t.active,
           \A k \in DOMAIN t.leases : s.leases[k].key # NoUrl =>
               /\ s.leases[k].key \in DOMAIN t.active
               /\ t.active[s.leases[k].key] = s.active[s.leases[k].key]
    PROVE  LeasesTracked(t)
<1>1. \A k \in DOMAIN t.leases : t.leases[k].key = NoUrl =>
          /\ t.leases[k].url \notin DOMAIN t.active /\ t.leases[k].url \in DOMAIN t.keys
          /\ t.leases[k].seq = 0
    BY DEF Good, LeasesTracked, Dropped
<1>2. \A k \in DOMAIN t.leases : t.leases[k].key # NoUrl =>
          /\ t.leases[k].key \in DOMAIN t.active
          /\ t.active[t.leases[k].key] = t.leases[k].seq
          /\ t.leases[k].key \in DOMAIN t.leased /\ t.leased[t.leases[k].key] = k
    BY DEF Good, LeasesTracked, Dropped
<1>3. \A x \in DOMAIN t.leased :
          t.leased[x] \in DOMAIN t.leases /\ t.leases[t.leased[x]].key = x
    BY DEF Good, LeasesTracked, Dropped
<1> QED
    BY <1>1, <1>2, <1>3 DEF LeasesTracked

(* The only work of a URL is one lease or one order.                       *)
LEMMA OnlyLease ==
    ASSUME NEW s, Good(s), NEW l \in DOMAIN s.leases
    PROVE  /\ \A n \in DOMAIN s.orders : s.orders[n] # s.leases[l].url
           /\ \A k \in DOMAIN s.leases : s.leases[k].url = s.leases[l].url => k = l
BY DEF Good, OneEach

(* A settlement that removes the lease; ownership outlives it.             *)
LEMMA AcknowledgedGood ==
    ASSUME NEW s, Good(s), NEW l \in DOMAIN s.leases, ~s.leases[l].deferred, NEW terminal,
           IF l \in DOMAIN s.staged THEN s.staged[l].terminal = terminal
           ELSE s.leases[l].url \in DOMAIN s.keys,
           NEW t, Dropped(s, t, l),
           t.orders = s.orders, t.next = s.next, t.active = s.active, t.pending = s.pending,
           DOMAIN t.settlements = DOMAIN s.settlements \cup {l},
           \A k \in DOMAIN s.settlements : t.settlements[k] = s.settlements[k],
           l \notin DOMAIN s.settlements =>
               t.settlements[l] = [outcome |-> "acknowledged", terminal |-> terminal]
    PROVE  Good(t) /\ Done(s, t)
<1>1. l \notin DOMAIN s.settlements
    BY DEF Good, StagedSound
<1>2. /\ DOMAIN t.leases = DOMAIN s.leases \ {l}
      /\ \A k \in DOMAIN t.leases : t.leases[k] = s.leases[k]
      /\ t.keys = s.keys /\ t.staged = s.staged
    BY DEF Dropped
<1>3. Shape(t) /\ OldKeys(t) /\ OneEach(t)
    BY DroppedShape
<1>4. OrdersTracked(t)
    BY <1>2 DEF Good, OrdersTracked
<1>5. LeasesTracked(t)
    <2>1. \A k \in DOMAIN t.leases :
              s.leases[k].key = NoUrl => s.leases[k].url \notin DOMAIN t.active
        BY <1>2 DEF Good, LeasesTracked
    <2>2. \A k \in DOMAIN t.leases : s.leases[k].key # NoUrl => s.leases[k].key \in DOMAIN t.active
        BY <1>2 DEF Good, LeasesTracked
    <2> QED
        BY <2>1, <2>2, DroppedTracked
<1>6. OwnersWork(t)
    <2>1. \A x : x # s.leases[l].url /\ Work(s, x) => Work(t, x)
        BY <1>2 DEF Work, OrdersOf, LeasesOf
    <2>2. CASE l \in DOMAIN s.staged
        <3>1. s.staged[l].lease = s.leases[l] /\ s.leases[l].key # NoUrl
            BY <2>2, StagedKeyed DEF Good, StagedSound
        <3>2. s.leases[l].key = s.leases[l].url
            BY <3>1 DEF Good, Shape
        <3>3. s.leases[l].seq = s.active[s.leases[l].url]
            BY <3>1, <3>2 DEF Good, LeasesTracked
        <3>4. s.staged[l].lease.key = s.leases[l].url
            BY <3>1, <3>2
        <3>5. s.staged[l].lease.seq = t.active[s.leases[l].url]
            BY <3>1, <3>3
        <3> QED
            BY <1>2, <2>1, <2>2, <3>4, <3>5 DEF Good, OwnersWork
    <2>3. CASE l \notin DOMAIN s.staged
        BY <1>2, <2>1, <2>3 DEF Good, OwnersWork
    <2> QED
        BY <2>2, <2>3
<1>7. StagedSound(t)
    <2>1. \A k \in DOMAIN t.staged \cap DOMAIN t.leases : t.leases[k] = t.staged[k].lease
        BY <1>2 DEF Good, StagedSound
    <2>2. \A k \in DOMAIN t.staged \cap DOMAIN t.settlements :
              t.settlements[k] = [outcome |-> "acknowledged", terminal |-> t.staged[k].terminal]
        BY <1>1, <1>2 DEF Good, StagedSound
    <2>3. l \in DOMAIN s.staged => s.staged[l].lease.key = s.leases[l].url
        BY StagedKeyed DEF Good, StagedSound, Shape
    <2>4. \A k \in DOMAIN t.staged \ DOMAIN t.leases :
              \A x \in DOMAIN t.orders :
                  t.orders[x] = t.staged[k].lease.key =>
                      x # t.staged[k].lease.seq /\ t.staged[k].lease.key \in DOMAIN t.active
        BY <1>2, <2>3, OnlyLease, StagedApartOrder
    <2>5. \A k \in DOMAIN t.staged \ DOMAIN t.leases :
              \A x \in DOMAIN t.leases :
                  t.leases[x].url = t.staged[k].lease.key =>
                      t.leases[x].key # NoUrl /\ t.leases[x].seq # t.staged[k].lease.seq
        BY <1>2, <2>3, OnlyLease, StagedApart
    <2>6. \A k \in DOMAIN t.leases \cap DOMAIN t.settlements : t.leases[k].deferred
        BY <1>2 DEF Good, StagedSound
    <2> QED
        BY <2>1, <2>2, <2>4, <2>5, <2>6, StagedSoundIntro
<1>8. Done(s, t)
    BY <1>1, <1>2 DEF Done
<1> QED
    BY <1>3, <1>4, <1>5, <1>6, <1>7, <1>8 DEF Good

LEMMA AcknowledgeGood ==
    ASSUME NEW s, Good(s), NEW l \in DOMAIN s.leases, ~s.leases[l].deferred, NEW terminal,
           IF l \in DOMAIN s.staged THEN s.staged[l].terminal = terminal
           ELSE s.leases[l].url \in DOMAIN s.keys
    PROVE  Good(Acknowledge(s, l, terminal)) /\ Done(s, Acknowledge(s, l, terminal))
<1>1. PICK v : v = ReleaseLeased([s EXCEPT !.leases = Delete(@, l)], l, s.leases[l])
    OBVIOUS
<1>2. /\ Dropped(s, v, l)
      /\ v.orders = s.orders /\ v.next = s.next /\ v.active = s.active
      /\ v.pending = s.pending /\ v.settlements = s.settlements
    BY <1>1, LeaseDropped
<1>3. PICK t : t = Remember(v, l, "acknowledged", terminal)
    OBVIOUS
<1>4. DOMAIN v = Buckets
    BY <1>2 DEF Dropped
<1>5. /\ DOMAIN t = Buckets
      /\ t.orders = v.orders /\ t.next = v.next /\ t.active = v.active
      /\ t.pending = v.pending /\ t.leased = v.leased /\ t.leases = v.leases
      /\ t.keys = v.keys /\ t.staged = v.staged
      /\ DOMAIN t.settlements = DOMAIN v.settlements \cup {l}
      /\ \A k \in DOMAIN v.settlements : t.settlements[k] = v.settlements[k]
      /\ l \notin DOMAIN v.settlements =>
             t.settlements[l] = [outcome |-> "acknowledged", terminal |-> terminal]
    BY <1>3, <1>4, RememberFields
<1>6. Dropped(s, t, l)
    BY <1>2, <1>5 DEF Dropped
<1>7. Acknowledge(s, l, terminal) = t
    BY <1>1, <1>3 DEF Acknowledge
<1>8. Good(t) /\ Done(s, t)
    BY <1>2, <1>5, <1>6, AcknowledgedGood
<1> QED
    BY <1>7, <1>8

LEMMA OrdersStillTracked ==
    ASSUME NEW s, OrdersTracked(s), NEW t,
           t.orders = s.orders, t.pending = s.pending, t.keys = s.keys,
           DOMAIN t.active \subseteq DOMAIN s.active,
           \A x \in DOMAIN t.active : t.active[x] = s.active[x],
           \A n \in DOMAIN s.orders : s.orders[n] \in DOMAIN s.active => s.orders[n] \in DOMAIN t.active
    PROVE  OrdersTracked(t)
BY DEF OrdersTracked

(* The first transaction that completes a staged acknowledgment.           *)
LEMMA CompletedGood ==
    ASSUME NEW s, Good(s), NEW l \in DOMAIN s.staged, NEW r, r = s.staged[l].lease,
           NEW t, Dropped(s, t, l),
           t.orders = s.orders, t.next = s.next, t.pending = s.pending,
           r.key \in DOMAIN s.active /\ s.active[r.key] = r.seq =>
               DOMAIN t.active = DOMAIN s.active \ {r.key},
           ~(r.key \in DOMAIN s.active /\ s.active[r.key] = r.seq) =>
               DOMAIN t.active = DOMAIN s.active,
           \A x \in DOMAIN t.active : t.active[x] = s.active[x],
           DOMAIN t.settlements = DOMAIN s.settlements \cup {l},
           \A k \in DOMAIN s.settlements : t.settlements[k] = s.settlements[k],
           l \notin DOMAIN s.settlements =>
               t.settlements[l] = [outcome |-> "acknowledged", terminal |-> s.staged[l].terminal]
    PROVE  Good(t) /\ Done(s, t) /\ Released(t, l)
<1>1. /\ DOMAIN t.leases = DOMAIN s.leases \ {l}
      /\ \A k \in DOMAIN t.leases : t.leases[k] = s.leases[k]
      /\ t.keys = s.keys /\ t.staged = s.staged
    BY DEF Dropped
<1>2. r.key \in Urls /\ r.key = r.url /\ r.key # NoUrl
    BY DiscoveryAssumption DEF Good, Shape, Lease
<1>3. l \in DOMAIN s.leases =>
          /\ s.leases[l].url = r.key /\ r.key \in DOMAIN s.active /\ s.active[r.key] = r.seq
    <2>1. l \in DOMAIN s.leases => s.leases[l] = r
        BY DEF Good, StagedSound
    <2> QED
        BY <1>2, <2>1 DEF Good, LeasesTracked
<1>4. ASSUME r.key \notin DOMAIN t.active \/ r.key \notin DOMAIN s.active
      PROVE  /\ \A n \in DOMAIN s.orders : s.orders[n] = r.key => r.key \notin DOMAIN s.active
             /\ \A k \in DOMAIN t.leases : s.leases[k].url = r.key => r.key \notin DOMAIN s.active
    <2>1. CASE l \in DOMAIN s.leases
        BY <1>1, <1>3, <2>1, OnlyLease
    <2>2. CASE l \notin DOMAIN s.leases
        <3>1. \A n \in DOMAIN s.orders : s.orders[n] = r.key =>
                  r.key \in DOMAIN s.active /\ s.active[r.key] = n /\ n # r.seq
            <4>1. \A n \in DOMAIN s.orders : s.orders[n] = r.key => r.key \in DOMAIN s.active /\ n # r.seq
                BY <2>2, StagedApartOrder
            <4> QED
                BY <4>1 DEF Good, OrdersTracked
        <3>2. \A k \in DOMAIN s.leases : s.leases[k].url = r.key =>
                  r.key \in DOMAIN s.active /\ s.active[r.key] # r.seq
            <4>1. \A k \in DOMAIN s.leases : s.leases[k].url = r.key =>
                      s.leases[k].key # NoUrl /\ s.leases[k].seq # r.seq
                BY <2>2, StagedApart
            <4>2. \A k \in DOMAIN s.leases : s.leases[k].url = r.key => s.leases[k].key = r.key
                BY <4>1 DEF Good, Shape
            <4> QED
                BY <4>1, <4>2 DEF Good, LeasesTracked
        <3> QED
            BY <1>1, <1>4, <3>1, <3>2
    <2> QED
        BY <2>1, <2>2
<1>5. Shape(t) /\ OldKeys(t) /\ OneEach(t)
    BY DroppedShape
<1>6. OrdersTracked(t)
    <2>1. \A n \in DOMAIN s.orders : s.orders[n] \in DOMAIN s.active => s.orders[n] \in DOMAIN t.active
        BY <1>4
    <2>2. DOMAIN t.active \subseteq DOMAIN s.active
        OBVIOUS
    <2> QED
        BY <1>1, <2>1, <2>2, OrdersStillTracked DEF Good
<1>7. LeasesTracked(t)
    <2>1. DOMAIN t.active \subseteq DOMAIN s.active
        OBVIOUS
    <2>2. \A k \in DOMAIN t.leases :
              s.leases[k].key = NoUrl => s.leases[k].url \notin DOMAIN t.active
        BY <1>1, <2>1 DEF Good, LeasesTracked
    <2>3. \A k \in DOMAIN t.leases : s.leases[k].key # NoUrl => s.leases[k].key \in DOMAIN t.active
        <3>1. \A k \in DOMAIN t.leases : s.leases[k].key # NoUrl =>
                  s.leases[k].key = s.leases[k].url /\ s.leases[k].key \in DOMAIN s.active
            BY <1>1 DEF Good, LeasesTracked, Shape
        <3> QED
            BY <1>4, <3>1
    <2> QED
        BY <2>2, <2>3, DroppedTracked
<1>8. OwnersWork(t)
    <2>1. \A x : x # r.key /\ Work(s, x) => Work(t, x)
        BY <1>1, <1>3 DEF Work, OrdersOf, LeasesOf
    <2>2. r.key \in DOMAIN t.active => l \notin DOMAIN s.leases
        BY <1>3
    <2>3. l \notin DOMAIN s.leases => \A x : Work(s, x) => Work(t, x)
        BY <1>1 DEF Work, OrdersOf, LeasesOf
    <2>4. DOMAIN t.active \subseteq DOMAIN s.active
        OBVIOUS
    <2> QED
        BY <1>1, <2>1, <2>2, <2>3, <2>4 DEF Good, OwnersWork
<1>9. StagedSound(t)
    <2>1. \A k \in DOMAIN t.staged \cap DOMAIN t.leases : t.leases[k] = t.staged[k].lease
        BY <1>1 DEF Good, StagedSound
    <2>2. \A k \in DOMAIN t.staged \cap DOMAIN t.settlements :
              t.settlements[k] = [outcome |-> "acknowledged", terminal |-> t.staged[k].terminal]
        BY <1>1 DEF Good, StagedSound
    <2>3. \A k \in DOMAIN t.staged \ DOMAIN t.leases :
              \A x \in DOMAIN t.orders :
                  t.orders[x] = t.staged[k].lease.key =>
                      x # t.staged[k].lease.seq /\ t.staged[k].lease.key \in DOMAIN t.active
        <3>1. \A k \in DOMAIN s.staged \ DOMAIN s.leases :
                  \A x \in DOMAIN s.orders : s.orders[x] = s.staged[k].lease.key =>
                      x # s.staged[k].lease.seq /\ s.orders[x] \in DOMAIN s.active
            BY StagedApartOrder
        <3>2. \A x \in DOMAIN s.orders : s.orders[x] \in DOMAIN s.active => s.orders[x] \in DOMAIN t.active
            BY <1>4
        <3>3. l \in DOMAIN s.leases => \A x \in DOMAIN s.orders : s.orders[x] # r.key
            BY <1>3, OnlyLease
        <3> QED
            BY <1>1, <3>1, <3>2, <3>3
    <2>4. \A k \in DOMAIN t.staged \ DOMAIN t.leases :
              \A x \in DOMAIN t.leases :
                  t.leases[x].url = t.staged[k].lease.key =>
                      t.leases[x].key # NoUrl /\ t.leases[x].seq # t.staged[k].lease.seq
        <3>1. l \in DOMAIN s.leases => \A x \in DOMAIN s.leases \ {l} : s.leases[x].url # r.key
            BY <1>3, OnlyLease
        <3> QED
            BY <1>1, <3>1, StagedApart
    <2>5. \A k \in DOMAIN t.leases \cap DOMAIN t.settlements : t.leases[k].deferred
        BY <1>1 DEF Good, StagedSound
    <2> QED
        BY <2>1, <2>2, <2>3, <2>4, <2>5, StagedSoundIntro
<1>10. Done(s, t)
    <2>1. t.settlements[l].outcome = "acknowledged"
        BY DEF Good, StagedSound
    <2> QED
        BY <1>1, <2>1 DEF Done
<1>11. Released(t, l)
    BY <1>1 DEF Released
<1> QED
    BY <1>5, <1>6, <1>7, <1>8, <1>9, <1>10, <1>11 DEF Good

LEMMA CompleteSettlementGood ==
    ASSUME NEW s, Good(s), NEW l \in DOMAIN s.staged, NEW t, t = CompleteSettlement(s, l)
    PROVE  /\ Good(t) /\ Done(s, t) /\ Released(t, l)
           /\ t.staged = s.staged /\ l \notin DOMAIN t.leases
<1>1. PICK r : r = s.staged[l].lease
    OBVIOUS
<1>2. PICK v : v = ReleaseLeased([s EXCEPT !.leases = Delete(@, l)], l, r)
    OBVIOUS
<1>3. /\ Dropped(s, v, l)
      /\ v.orders = s.orders /\ v.next = s.next /\ v.active = s.active
      /\ v.pending = s.pending /\ v.settlements = s.settlements
    <2>1. l \in DOMAIN s.leases => r = s.leases[l]
        BY <1>1 DEF Good, StagedSound
    <2> QED
        BY <1>2, <2>1, LeaseDropped
<1>4. PICK q : q = Remember(v, l, "acknowledged", s.staged[l].terminal)
    OBVIOUS
<1>5. DOMAIN v = Buckets
    BY <1>3 DEF Dropped
<1>6. /\ DOMAIN q = Buckets
      /\ q.orders = v.orders /\ q.next = v.next /\ q.active = v.active
      /\ q.pending = v.pending /\ q.leased = v.leased /\ q.leases = v.leases
      /\ q.keys = v.keys /\ q.staged = v.staged
      /\ DOMAIN q.settlements = DOMAIN v.settlements \cup {l}
      /\ \A k \in DOMAIN v.settlements : q.settlements[k] = v.settlements[k]
      /\ l \notin DOMAIN v.settlements =>
             q.settlements[l] = [outcome |-> "acknowledged", terminal |-> s.staged[l].terminal]
    BY <1>4, <1>5, RememberFields
<1>7. t = ReleaseActive(q, r)
    BY <1>1, <1>2, <1>4 DEF CompleteSettlement
<1>8. /\ DOMAIN t = Buckets
      /\ t.orders = q.orders /\ t.next = q.next /\ t.pending = q.pending /\ t.leased = q.leased
      /\ t.leases = q.leases /\ t.keys = q.keys /\ t.staged = q.staged
      /\ t.settlements = q.settlements
      /\ t.active = IF r.key \in DOMAIN q.active /\ q.active[r.key] = r.seq
                    THEN Delete(q.active, r.key) ELSE q.active
    BY <1>6, <1>7 DEF ReleaseActive, Buckets
<1>9. /\ r.key \in DOMAIN s.active /\ s.active[r.key] = r.seq =>
             DOMAIN t.active = DOMAIN s.active \ {r.key}
      /\ ~(r.key \in DOMAIN s.active /\ s.active[r.key] = r.seq) =>
             DOMAIN t.active = DOMAIN s.active
      /\ \A x \in DOMAIN t.active : t.active[x] = s.active[x]
    BY <1>3, <1>6, <1>8 DEF Delete
<1>10. Dropped(s, t, l)
    BY <1>3, <1>6, <1>8 DEF Dropped
<1>12. /\ t.orders = s.orders /\ t.next = s.next /\ t.pending = s.pending
       /\ DOMAIN t.settlements = DOMAIN s.settlements \cup {l}
       /\ \A k \in DOMAIN s.settlements : t.settlements[k] = s.settlements[k]
       /\ l \notin DOMAIN s.settlements =>
              t.settlements[l] = [outcome |-> "acknowledged", terminal |-> s.staged[l].terminal]
    BY <1>3, <1>6, <1>8
<1>11. Good(t) /\ Done(s, t) /\ Released(t, l)
    BY <1>1, <1>9, <1>10, <1>12, CompletedGood
<1> QED
    BY <1>10, <1>11 DEF Dropped

(* The second one, which deletes it.                                       *)
LEMMA StagedReleasedGood ==
    ASSUME NEW s, Good(s), NEW l \in DOMAIN s.staged, l \notin DOMAIN s.leases, Released(s, l),
           NEW t, t = [s EXCEPT !.staged = Delete(@, l)]
    PROVE  Good(t) /\ Done(s, t)
<1>1. /\ DOMAIN t = Buckets /\ t.staged = Delete(s.staged, l)
      /\ t.orders = s.orders /\ t.next = s.next /\ t.leases = s.leases /\ t.keys = s.keys
      /\ t.active = s.active /\ t.pending = s.pending /\ t.leased = s.leased
      /\ t.settlements = s.settlements
    BY DEF Good, Shape, Buckets
<1>2. /\ DOMAIN t.staged = DOMAIN s.staged \ {l}
      /\ \A k \in DOMAIN t.staged : t.staged[k] = s.staged[k]
    BY <1>1 DEF Delete
<1>3. Shape(t) /\ OldKeys(t) /\ OneEach(t)
    BY <1>1, <1>2 DEF Good, Shape, OldKeys, OneEach
<1>4. OrdersTracked(t) /\ LeasesTracked(t)
    BY <1>1 DEF Good, OrdersTracked, LeasesTracked
<1>5. OwnersWork(t)
    <2>1. \A u \in DOMAIN s.active :
              s.staged[l].lease.key = u => s.staged[l].lease.seq # s.active[u]
        BY DEF Released
    <2>2. \A x : Work(s, x) => Work(t, x)
        BY <1>1 DEF Work, OrdersOf, LeasesOf
    <2> QED
        BY <1>1, <1>2, <2>1, <2>2 DEF Good, OwnersWork
<1>6. StagedSound(t)
    BY <1>1, <1>2 DEF Good, StagedSound
<1>7. Done(s, t)
    BY <1>1 DEF Done
<1> QED
    BY <1>3, <1>4, <1>5, <1>6, <1>7 DEF Good

(* Staging an acknowledgment.                                              *)
LEMMA StageGood ==
    ASSUME NEW s, Good(s), NEW l \in DOMAIN s.leases, l \notin DOMAIN s.staged,
           ~s.leases[l].deferred, s.leases[l].key # NoUrl, NEW terminal,
           NEW t, t = StageAcknowledgment(s, l, terminal)
    PROVE  /\ Good(t) /\ Done(s, t)
           /\ t.leases = s.leases /\ t.keys = s.keys
           /\ l \in DOMAIN t.staged /\ t.staged[l].terminal = terminal
<1>1. /\ DOMAIN t = Buckets
      /\ t.staged = Put(s.staged, l, [lease |-> s.leases[l], terminal |-> terminal])
      /\ t.orders = s.orders /\ t.next = s.next /\ t.leases = s.leases /\ t.keys = s.keys
      /\ t.active = s.active /\ t.pending = s.pending /\ t.leased = s.leased
      /\ t.settlements = s.settlements
    BY DEF Good, Shape, Buckets, StageAcknowledgment
<1>2. /\ DOMAIN t.staged = DOMAIN s.staged \cup {l}
      /\ t.staged[l].lease = s.leases[l] /\ t.staged[l].terminal = terminal
      /\ \A k \in DOMAIN s.staged : t.staged[k] = s.staged[k]
    BY <1>1 DEF Put
<1>3. Shape(t) /\ OldKeys(t) /\ OneEach(t)
    <2>1. /\ s.leases[l] \in Lease /\ s.leases[l].key = s.leases[l].url
          /\ s.leases[l].seq < s.next
        BY DEF Good, Shape
    <2> QED
        BY <1>1, <1>2, <2>1 DEF Good, Shape, OldKeys, OneEach
<1>4. OrdersTracked(t) /\ LeasesTracked(t)
    BY <1>1 DEF Good, OrdersTracked, LeasesTracked
<1>5. OwnersWork(t)
    <2>1. \A x : Work(s, x) => Work(t, x)
        BY <1>1 DEF Work, OrdersOf, LeasesOf
    <2> QED
        BY <1>1, <1>2, <2>1 DEF Good, OwnersWork
<1>6. StagedSound(t)
    <2>1. l \notin DOMAIN s.settlements
        BY DEF Good, StagedSound
    <2> QED
        BY <1>1, <1>2, <2>1 DEF Good, StagedSound
<1>7. Done(s, t)
    BY <1>1 DEF Done
<1> QED
    BY <1>1, <1>2, <1>3, <1>4, <1>5, <1>6, <1>7 DEF Good

(* A remembered outcome expires.                                           *)
LEMMA ForgetGood ==
    ASSUME NEW s, Good(s), NEW l, NEW t, t = [s EXCEPT !.settlements = Delete(@, l)]
    PROVE  Good(t) /\ Done(s, t)
<1>1. /\ DOMAIN t = Buckets /\ t.settlements = Delete(s.settlements, l)
      /\ t.orders = s.orders /\ t.next = s.next /\ t.leases = s.leases /\ t.keys = s.keys
      /\ t.active = s.active /\ t.pending = s.pending /\ t.leased = s.leased
      /\ t.staged = s.staged
    BY DEF Good, Shape, Buckets
<1>2. /\ DOMAIN t.settlements \subseteq DOMAIN s.settlements
      /\ \A k \in DOMAIN t.settlements : t.settlements[k] = s.settlements[k]
    BY <1>1 DEF Delete
<1>3. Shape(t) /\ OldKeys(t) /\ OneEach(t)
    BY <1>1 DEF Good, Shape, OldKeys, OneEach
<1>4. OrdersTracked(t) /\ LeasesTracked(t)
    BY <1>1 DEF Good, OrdersTracked, LeasesTracked
<1>5. OwnersWork(t)
    BY <1>1 DEF Good, OwnersWork, Work, OrdersOf, LeasesOf
<1>6. StagedSound(t)
    BY <1>1, <1>2 DEF Good, StagedSound
<1>7. Done(s, t)
    BY <1>1 DEF Done
<1> QED
    BY <1>3, <1>4, <1>5, <1>6, <1>7 DEF Good

(* The leases change in what ownership does not look at.                   *)
LEMMA LeasesAliveGood ==
    ASSUME NEW s, Good(s), NEW t, DOMAIN t = Buckets,
           t.orders = s.orders, t.next = s.next, t.keys = s.keys, t.active = s.active,
           t.pending = s.pending, t.leased = s.leased, t.staged = s.staged,
           DOMAIN t.leases = DOMAIN s.leases,
           \A k \in DOMAIN s.leases :
               /\ t.leases[k] \in Lease
               /\ t.leases[k].url = s.leases[k].url /\ t.leases[k].key = s.leases[k].key
               /\ t.leases[k].seq = s.leases[k].seq,
           \A k \in DOMAIN s.leases \cap DOMAIN s.staged : t.leases[k] = s.leases[k],
           \A k \in DOMAIN s.staged \cap DOMAIN t.settlements :
               k \in DOMAIN s.settlements /\ t.settlements[k] = s.settlements[k],
           \A k \in DOMAIN t.leases \cap DOMAIN t.settlements : t.leases[k].deferred
    PROVE  Good(t) /\ Done(s, t)
<1>1. Shape(t)
    BY DEF Good, Shape
<1>2. OldKeys(t) /\ OneEach(t)
    BY DEF Good, OldKeys, OneEach
<1>3. OrdersTracked(t)
    BY DEF Good, OrdersTracked
<1>4. LeasesTracked(t)
    BY DEF Good, LeasesTracked
<1>5. OwnersWork(t)
    BY DEF Good, OwnersWork, Work, OrdersOf, LeasesOf
<1>6. StagedSound(t)
    BY DEF Good, StagedSound
<1>7. Done(s, t)
    BY DEF Done
<1> QED
    BY <1>1, <1>2, <1>3, <1>4, <1>5, <1>6, <1>7 DEF Good

(* A negative acknowledgment.                                              *)
LEMMA DeferredGood ==
    ASSUME NEW s, Good(s), NEW l \in DOMAIN s.leases, l \notin DOMAIN s.staged
    PROVE  Good(Deferred(s, l)) /\ Done(s, Deferred(s, l))
<1>1. PICK v : v = [s EXCEPT !.leases[l].deferred = TRUE]
    OBVIOUS
<1>2. v.leases = [s.leases EXCEPT ![l].deferred = TRUE]
    BY <1>1 DEF Good, Shape, Buckets
<1>3. /\ DOMAIN v = Buckets
      /\ v.orders = s.orders /\ v.next = s.next /\ v.keys = s.keys /\ v.active = s.active
      /\ v.pending = s.pending /\ v.leased = s.leased /\ v.staged = s.staged
      /\ v.settlements = s.settlements
    BY <1>1 DEF Good, Shape, Buckets
<1>0. PICK b : b = FALSE
    OBVIOUS
<1>4. PICK t : t = Remember(v, l, "requeued", b)
    OBVIOUS
<1>5. /\ DOMAIN t = Buckets
      /\ t.orders = v.orders /\ t.next = v.next /\ t.active = v.active
      /\ t.pending = v.pending /\ t.leased = v.leased /\ t.leases = v.leases
      /\ t.keys = v.keys /\ t.staged = v.staged
      /\ DOMAIN t.settlements = DOMAIN v.settlements \cup {l}
      /\ \A k \in DOMAIN v.settlements : t.settlements[k] = v.settlements[k]
      /\ l \notin DOMAIN v.settlements =>
             t.settlements[l] = [outcome |-> "requeued", terminal |-> b]
    <2>1. DOMAIN v = Buckets
        BY <1>3
    <2> QED
        BY <1>4, <2>1, RememberFields
<1>6. s.leases[l] \in Lease
    BY DEF Good, Shape
<1>7. /\ t.leases[l] \in Lease /\ t.leases[l].deferred
      /\ t.leases[l].url = s.leases[l].url /\ t.leases[l].key = s.leases[l].key
      /\ t.leases[l].seq = s.leases[l].seq
    <2>1. v.leases[l] = [s.leases[l] EXCEPT !.deferred = TRUE]
        BY <1>2
    <2>2. /\ v.leases[l] \in Lease /\ v.leases[l].deferred
          /\ v.leases[l].url = s.leases[l].url /\ v.leases[l].key = s.leases[l].key
          /\ v.leases[l].seq = s.leases[l].seq
        BY <1>6, <2>1 DEF Lease
    <2>3. t.leases = v.leases
        BY <1>5
    <2> QED
        BY <2>2, <2>3
<1>8. \A k \in DOMAIN s.leases : k # l => t.leases[k] = s.leases[k]
    BY <1>2, <1>5
<1>9. DOMAIN t.leases = DOMAIN s.leases
    BY <1>2, <1>5
<1>10. \A k \in DOMAIN s.leases :
           /\ t.leases[k] \in Lease
           /\ t.leases[k].url = s.leases[k].url /\ t.leases[k].key = s.leases[k].key
           /\ t.leases[k].seq = s.leases[k].seq
    BY <1>7, <1>8 DEF Good, Shape
<1>11. \A k \in DOMAIN s.leases \cap DOMAIN s.staged : t.leases[k] = s.leases[k]
    BY <1>8
<1>12. \A k \in DOMAIN s.staged \cap DOMAIN t.settlements :
           k \in DOMAIN s.settlements /\ t.settlements[k] = s.settlements[k]
    BY <1>3, <1>5
<1>13. \A k \in DOMAIN t.leases \cap DOMAIN t.settlements : t.leases[k].deferred
    BY <1>3, <1>5, <1>7, <1>8, <1>9 DEF Good, StagedSound
<1>14. /\ t.orders = s.orders /\ t.next = s.next /\ t.keys = s.keys /\ t.active = s.active
       /\ t.pending = s.pending /\ t.leased = s.leased /\ t.staged = s.staged
    BY <1>3, <1>5
<1>15. Good(t) /\ Done(s, t)
    BY <1>5, <1>9, <1>10, <1>11, <1>12, <1>13, <1>14, LeasesAliveGood
<1>16. Deferred(s, l) = t
    BY <1>0, <1>1, <1>4, Zenon DEF Deferred
<1> QED
    BY <1>15, <1>16

(* A new session takes the leases once nothing is staged.                  *)
LEMMA AdoptedGood ==
    ASSUME NEW s, Good(s), DOMAIN s.staged = {}, NEW w \in Sessions,
           NEW t, t = [s EXCEPT !.leases = [l \in DOMAIN @ |->
                          IF @[l].deferred THEN @[l] ELSE [@[l] EXCEPT !.session = w]]]
    PROVE  Good(t) /\ Done(s, t)
<1>1. t.leases = [l \in DOMAIN s.leases |->
          IF s.leases[l].deferred THEN s.leases[l] ELSE [s.leases[l] EXCEPT !.session = w]]
    BY DEF Good, Shape, Buckets
<1>2. /\ DOMAIN t = Buckets
      /\ t.orders = s.orders /\ t.next = s.next /\ t.keys = s.keys /\ t.active = s.active
      /\ t.pending = s.pending /\ t.leased = s.leased /\ t.staged = s.staged
      /\ t.settlements = s.settlements
    BY DEF Good, Shape, Buckets
<1>3. DOMAIN t.leases = DOMAIN s.leases
    BY <1>1
<1>4. \A k \in DOMAIN s.leases :
          /\ t.leases[k] \in Lease
          /\ t.leases[k].url = s.leases[k].url /\ t.leases[k].key = s.leases[k].key
          /\ t.leases[k].seq = s.leases[k].seq
          /\ t.leases[k].deferred = s.leases[k].deferred
    <2> SUFFICES ASSUME NEW k \in DOMAIN s.leases
                 PROVE  /\ t.leases[k] \in Lease
                        /\ t.leases[k].url = s.leases[k].url
                        /\ t.leases[k].key = s.leases[k].key
                        /\ t.leases[k].seq = s.leases[k].seq
                        /\ t.leases[k].deferred = s.leases[k].deferred
        OBVIOUS
    <2>1. s.leases[k] \in Lease
        BY DEF Good, Shape
    <2>2. t.leases[k] = IF s.leases[k].deferred THEN s.leases[k]
                        ELSE [s.leases[k] EXCEPT !.session = w]
        BY <1>1
    <2> QED
        BY <2>1, <2>2 DEF Lease
<1>5. \A k \in DOMAIN t.leases \cap DOMAIN t.settlements : t.leases[k].deferred
    BY <1>2, <1>3, <1>4 DEF Good, StagedSound
<1> QED
    BY <1>2, <1>3, <1>4, <1>5, LeasesAliveGood

(* The sweep gives a lease back, with its ownership or, when it comes from *)
(* an older release, without.                                              *)
LEMMA RequeuedTrackedGood ==
    ASSUME NEW s, Good(s), NEW l \in DOMAIN s.leases, l \notin DOMAIN s.staged,
           NEW u, s.leases[l].url = u, s.leases[l].key = u,
           NEW t, DOMAIN t = Buckets,
           t.orders = Put(s.orders, s.next, u), t.next = s.next + 1,
           t.leases = Delete(s.leases, l), t.leased = Delete(s.leased, u),
           t.active = Put(s.active, u, s.next), t.pending = Put(s.pending, s.next, u),
           t.keys = s.keys, t.staged = s.staged,
           DOMAIN t.settlements = DOMAIN s.settlements \cup {l},
           \A k \in DOMAIN s.settlements : t.settlements[k] = s.settlements[k]
    PROVE  Good(t) /\ Done(s, t)
<1>1. /\ DOMAIN t.orders = DOMAIN s.orders \cup {s.next}
      /\ t.orders[s.next] = u
      /\ \A n \in DOMAIN s.orders : n # s.next => t.orders[n] = s.orders[n]
    BY DEF Put
<1>2. DOMAIN t.pending = DOMAIN s.pending \cup {s.next}
    BY DEF Put
<1>3. /\ DOMAIN t.leases = DOMAIN s.leases \ {l}
      /\ \A k \in DOMAIN t.leases : t.leases[k] = s.leases[k]
    BY DEF Delete
<1>4. /\ DOMAIN t.leased = DOMAIN s.leased \ {u}
      /\ \A x \in DOMAIN t.leased : t.leased[x] = s.leased[x]
    BY DEF Delete
<1>5. /\ DOMAIN t.active = DOMAIN s.active \cup {u}
      /\ t.active[u] = s.next
      /\ \A x \in DOMAIN s.active : x # u => t.active[x] = s.active[x]
    BY DEF Put
<1>6. /\ s.next \in Nat /\ t.next = s.next + 1 /\ s.next \notin DOMAIN s.orders
      /\ s.next \notin DOMAIN s.pending
    BY DEF Good, Shape, OrdersTracked
<1>7. /\ u \in Urls /\ u # NoUrl
      /\ \A n \in DOMAIN s.orders : s.orders[n] # u
      /\ \A k \in DOMAIN t.leases : s.leases[k].url # u /\ s.leases[k].key # u
    <2>1. u \in Urls /\ u # NoUrl
        BY DiscoveryAssumption DEF Good, Shape, Lease
    <2>2. /\ \A n \in DOMAIN s.orders : s.orders[n] # u
          /\ \A k \in DOMAIN t.leases : s.leases[k].url # u
        BY <1>3, OnlyLease
    <2>3. \A k \in DOMAIN t.leases : s.leases[k].key # u
        BY <1>3, <2>1, <2>2 DEF Good, Shape
    <2> QED
        BY <2>1, <2>2, <2>3
<1>8. t.keys = s.keys /\ t.staged = s.staged
    OBVIOUS
<1>9. Shape(t)
    <2>1. \A n \in DOMAIN t.orders : n \in Nat /\ n < t.next /\ t.orders[n] \in Urls
        BY <1>1, <1>6, <1>7 DEF Good, Shape
    <2>2. \A x \in DOMAIN t.active : x \in Urls /\ t.active[x] \in Nat /\ t.active[x] < t.next
        BY <1>5, <1>6, <1>7 DEF Good, Shape
    <2>3. \A k \in DOMAIN t.leases :
              /\ t.leases[k] \in Lease
              /\ t.leases[k].key \in {NoUrl, t.leases[k].url}
              /\ t.leases[k].seq < t.next
        BY <1>3, <1>6 DEF Good, Shape, Lease
    <2>4. \A k \in DOMAIN t.staged : t.staged[k].lease.seq < t.next
        BY <1>6, <1>8 DEF Good, Shape, Lease
    <2> QED
        BY <1>4, <1>6, <1>8, <2>1, <2>2, <2>3, <2>4 DEF Good, Shape
<1>10. OldKeys(t)
    BY <1>1, <1>6, <1>8 DEF Good, OldKeys
<1>11. OneEach(t)
    BY <1>1, <1>3, <1>6, <1>7 DEF Good, OneEach
<1>12. OrdersTracked(t)
    <2>1. \A x \in DOMAIN s.active : s.active[x] # s.next
        BY <1>6 DEF Good, Shape
    <2>2. \A n \in DOMAIN t.orders :
              /\ t.orders[n] \in DOMAIN t.active \cup DOMAIN t.keys
              /\ t.orders[n] \in DOMAIN t.active =>
                     t.active[t.orders[n]] = n /\ n \in DOMAIN t.pending
        BY <1>1, <1>2, <1>5, <1>6, <1>7, <1>8 DEF Good, OrdersTracked
    <2>3. \A n \in DOMAIN t.pending :
              /\ n \in DOMAIN t.orders
              /\ t.orders[n] \in DOMAIN t.active
              /\ t.active[t.orders[n]] = n
        BY <1>1, <1>2, <1>5, <1>6, <1>7 DEF Good, OrdersTracked
    <2>4. \A x \in DOMAIN t.active :
              t.active[x] \in DOMAIN t.orders => t.orders[t.active[x]] = x
        BY <1>1, <1>5, <1>6, <2>1 DEF Good, OrdersTracked
    <2> QED
        BY <2>2, <2>3, <2>4 DEF OrdersTracked
<1>13. LeasesTracked(t)
    <2>1. Dropped(s, t, l)
        <3>1. \A x \in DOMAIN s.leased : s.leased[x] = l => x = u
            BY DEF Good, LeasesTracked
        <3>2. u \in DOMAIN s.leased => s.leased[u] = l
            BY <1>7 DEF Good, LeasesTracked
        <3> QED
            BY <1>3, <1>4, <1>8, <3>1, <3>2 DEF Dropped
    <2>2. \A k \in DOMAIN t.leases :
              s.leases[k].key = NoUrl => s.leases[k].url \notin DOMAIN t.active
        BY <1>3, <1>5, <1>7 DEF Good, LeasesTracked
    <2>3. \A k \in DOMAIN t.leases : s.leases[k].key # NoUrl =>
              /\ s.leases[k].key \in DOMAIN t.active
              /\ t.active[s.leases[k].key] = s.active[s.leases[k].key]
        BY <1>3, <1>5, <1>7 DEF Good, LeasesTracked
    <2> QED
        BY <2>1, <2>2, <2>3, DroppedTracked
<1>14. OwnersWork(t)
    <2>1. Work(t, u)
        BY <1>1 DEF Work, OrdersOf
    <2>2. \A x : x # u /\ Work(s, x) => Work(t, x)
        BY <1>1, <1>3, <1>6 DEF Work, OrdersOf, LeasesOf
    <2> QED
        BY <1>5, <1>8, <2>1, <2>2 DEF Good, OwnersWork
<1>15. StagedSound(t)
    <2>1. \A k \in DOMAIN t.staged \cap DOMAIN t.leases : t.leases[k] = t.staged[k].lease
        BY <1>3, <1>8 DEF Good, StagedSound
    <2>2. \A k \in DOMAIN t.staged \cap DOMAIN t.settlements :
              t.settlements[k] = [outcome |-> "acknowledged", terminal |-> t.staged[k].terminal]
        BY <1>8 DEF Good, StagedSound
    <2>3. \A k \in DOMAIN s.staged : s.staged[k].lease.seq # s.next
        BY <1>6 DEF Good, Shape, Lease
    <2>4. \A k \in DOMAIN t.staged \ DOMAIN t.leases : k \in DOMAIN s.staged \ DOMAIN s.leases
        BY <1>3, <1>8
    <2>5. \A k \in DOMAIN t.staged \ DOMAIN t.leases :
              \A x \in DOMAIN t.orders :
                  t.orders[x] = t.staged[k].lease.key =>
                      x # t.staged[k].lease.seq /\ t.staged[k].lease.key \in DOMAIN t.active
        BY <1>1, <1>5, <1>6, <1>8, <2>3, <2>4, StagedApartOrder
    <2>6. \A k \in DOMAIN t.staged \ DOMAIN t.leases :
              \A x \in DOMAIN t.leases :
                  t.leases[x].url = t.staged[k].lease.key =>
                      t.leases[x].key # NoUrl /\ t.leases[x].seq # t.staged[k].lease.seq
        BY <1>3, <1>8, <2>4, StagedApart
    <2>7. \A k \in DOMAIN t.leases \cap DOMAIN t.settlements : t.leases[k].deferred
        BY <1>3 DEF Good, StagedSound
    <2> QED
        BY <2>1, <2>2, <2>5, <2>6, <2>7, StagedSoundIntro
<1>16. Done(s, t)
    BY <1>3 DEF Done
<1> QED
    BY <1>9, <1>10, <1>11, <1>12, <1>13, <1>14, <1>15, <1>16 DEF Good

LEMMA RequeuedUntrackedGood ==
    ASSUME NEW s, Good(s), NEW l \in DOMAIN s.leases, l \notin DOMAIN s.staged,
           NEW u, s.leases[l].url = u, s.leases[l].key = NoUrl,
           NEW t, DOMAIN t = Buckets,
           t.orders = Put(s.orders, s.next, u), t.next = s.next + 1,
           t.leases = Delete(s.leases, l), t.leased = s.leased,
           t.active = s.active, t.pending = s.pending,
           t.keys = s.keys, t.staged = s.staged,
           DOMAIN t.settlements = DOMAIN s.settlements \cup {l},
           \A k \in DOMAIN s.settlements : t.settlements[k] = s.settlements[k]
    PROVE  Good(t) /\ Done(s, t)
<1>1. /\ DOMAIN t.orders = DOMAIN s.orders \cup {s.next}
      /\ t.orders[s.next] = u
      /\ \A n \in DOMAIN s.orders : n # s.next => t.orders[n] = s.orders[n]
    BY DEF Put
<1>2. /\ DOMAIN t.leases = DOMAIN s.leases \ {l}
      /\ \A k \in DOMAIN t.leases : t.leases[k] = s.leases[k]
    BY DEF Delete
<1>3. s.next \in Nat /\ t.next = s.next + 1 /\ s.next \notin DOMAIN s.orders
    BY DEF Good, Shape
<1>4. /\ u \in Urls /\ u \notin DOMAIN s.active /\ u \in DOMAIN s.keys
      /\ \A n \in DOMAIN s.orders : s.orders[n] # u
      /\ \A k \in DOMAIN t.leases : s.leases[k].url # u
    <2>1. u \in Urls
        BY DEF Good, Shape, Lease
    <2>2. /\ \A n \in DOMAIN s.orders : s.orders[n] # u
          /\ \A k \in DOMAIN t.leases : s.leases[k].url # u
        BY <1>2, OnlyLease
    <2>3. u \notin DOMAIN s.active /\ u \in DOMAIN s.keys
        BY DEF Good, LeasesTracked
    <2> QED
        BY <2>1, <2>2, <2>3
<1>5. /\ t.leased = s.leased /\ t.active = s.active /\ t.pending = s.pending
      /\ t.keys = s.keys /\ t.staged = s.staged
    OBVIOUS
<1>6. Shape(t)
    <2>1. \A n \in DOMAIN t.orders : n \in Nat /\ n < t.next /\ t.orders[n] \in Urls
        BY <1>1, <1>3, <1>4 DEF Good, Shape
    <2>2. \A x \in DOMAIN t.active : x \in Urls /\ t.active[x] \in Nat /\ t.active[x] < t.next
        BY <1>3, <1>5 DEF Good, Shape
    <2>3. \A k \in DOMAIN t.leases :
              /\ t.leases[k] \in Lease
              /\ t.leases[k].key \in {NoUrl, t.leases[k].url}
              /\ t.leases[k].seq < t.next
        BY <1>2, <1>3 DEF Good, Shape, Lease
    <2>4. \A k \in DOMAIN t.staged : t.staged[k].lease.seq < t.next
        BY <1>3, <1>5 DEF Good, Shape, Lease
    <2> QED
        BY <1>3, <1>5, <2>1, <2>2, <2>3, <2>4 DEF Good, Shape
<1>7. OldKeys(t)
    BY <1>1, <1>3, <1>5 DEF Good, OldKeys
<1>8. OneEach(t)
    BY <1>1, <1>2, <1>3, <1>4 DEF Good, OneEach
<1>9. OrdersTracked(t)
    <2>1. \A x \in DOMAIN s.active : s.active[x] # s.next
        BY <1>3 DEF Good, Shape
    <2>2. \A n \in DOMAIN s.pending : n # s.next
        BY <1>3 DEF Good, OrdersTracked
    <2> QED
        BY <1>1, <1>3, <1>4, <1>5, <2>1, <2>2 DEF Good, OrdersTracked
<1>10. LeasesTracked(t)
    <2>1. Dropped(s, t, l)
        <3>1. \A x \in DOMAIN s.leased : s.leased[x] # l
            BY DiscoveryAssumption DEF Good, Shape, LeasesTracked
        <3> QED
            BY <1>2, <1>5, <3>1 DEF Dropped
    <2>2. \A k \in DOMAIN t.leases :
              s.leases[k].key = NoUrl => s.leases[k].url \notin DOMAIN t.active
        BY <1>2, <1>5 DEF Good, LeasesTracked
    <2>3. \A k \in DOMAIN t.leases : s.leases[k].key # NoUrl =>
              /\ s.leases[k].key \in DOMAIN t.active
              /\ t.active[s.leases[k].key] = s.active[s.leases[k].key]
        BY <1>2, <1>5 DEF Good, LeasesTracked
    <2> QED
        BY <2>1, <2>2, <2>3, DroppedTracked
<1>11. OwnersWork(t)
    <2>1. \A x : x # u /\ Work(s, x) => Work(t, x)
        BY <1>1, <1>2, <1>3 DEF Work, OrdersOf, LeasesOf
    <2> QED
        BY <1>4, <1>5, <2>1 DEF Good, OwnersWork
<1>12. StagedSound(t)
    <2>1. \A k \in DOMAIN t.staged \cap DOMAIN t.leases : t.leases[k] = t.staged[k].lease
        <3>1. \A k \in DOMAIN s.staged \cap DOMAIN s.leases : s.leases[k] = s.staged[k].lease
            BY DEF Good, StagedSound
        <3> QED
            BY <1>2, <1>5, <3>1
    <2>2. \A k \in DOMAIN t.staged \cap DOMAIN t.settlements :
              t.settlements[k] = [outcome |-> "acknowledged", terminal |-> t.staged[k].terminal]
        BY <1>5 DEF Good, StagedSound
    <2>3. \A k \in DOMAIN t.staged \ DOMAIN t.leases : k \in DOMAIN s.staged \ DOMAIN s.leases
        BY <1>2, <1>5
    <2>4. \A k \in DOMAIN s.staged \ DOMAIN s.leases : s.staged[k].lease.key # u
        BY StagedApart
    <2>5. \A k \in DOMAIN t.staged \ DOMAIN t.leases :
              \A x \in DOMAIN t.orders :
                  t.orders[x] = t.staged[k].lease.key =>
                      x # t.staged[k].lease.seq /\ t.staged[k].lease.key \in DOMAIN t.active
        BY <1>1, <1>3, <1>5, <2>3, <2>4, StagedApartOrder
    <2>6. \A k \in DOMAIN t.staged \ DOMAIN t.leases :
              \A x \in DOMAIN t.leases :
                  t.leases[x].url = t.staged[k].lease.key =>
                      t.leases[x].key # NoUrl /\ t.leases[x].seq # t.staged[k].lease.seq
        BY <1>2, <1>5, <2>3, StagedApart
    <2>7. \A k \in DOMAIN t.leases \cap DOMAIN t.settlements : t.leases[k].deferred
        BY <1>2 DEF Good, StagedSound
    <2> QED
        BY <2>1, <2>2, <2>5, <2>6, <2>7, StagedSoundIntro
<1>13. Done(s, t)
    BY <1>2 DEF Done
<1> QED
    BY <1>6, <1>7, <1>8, <1>9, <1>10, <1>11, <1>12, <1>13 DEF Good


LEMMA RequeuedGood ==
    ASSUME NEW s, Good(s), NEW l \in DOMAIN s.leases, l \notin DOMAIN s.staged
    PROVE  Good(Requeued(s, l)) /\ Done(s, Requeued(s, l))
<1>1. PICK r : r = s.leases[l]
    OBVIOUS
<1>2. r \in Lease /\ r.key \in {NoUrl, r.url}
    BY <1>1 DEF Good, Shape
<1>3. PICK d : d = [s EXCEPT !.leases = Delete(@, l)]
    OBVIOUS
<1>4. /\ DOMAIN d = Buckets /\ d.leases = Delete(s.leases, l)
      /\ d.orders = s.orders /\ d.next = s.next /\ d.keys = s.keys /\ d.active = s.active
      /\ d.pending = s.pending /\ d.leased = s.leased /\ d.staged = s.staged
      /\ d.settlements = s.settlements
    BY <1>3 DEF Good, Shape, Buckets
<1>5. PICK q : q = Enqueue(d, r.url)
    OBVIOUS
<1>6. /\ DOMAIN q = Buckets /\ q.leases = d.leases
      /\ q.orders = Put(d.orders, d.next, r.url) /\ q.next = d.next + 1
      /\ q.keys = d.keys /\ q.active = d.active
      /\ q.pending = d.pending /\ q.leased = d.leased /\ q.staged = d.staged
      /\ q.settlements = d.settlements
    BY <1>4, <1>5 DEF Enqueue, Buckets
<1>7. PICK b : b = FALSE
    OBVIOUS
<1>8. CASE r.key = NoUrl
    <2>1. PICK t : t = Remember(q, l, "requeued", b)
        OBVIOUS
    <2>2. DOMAIN q = Buckets
        BY <1>6
    <2>3. /\ DOMAIN t = Buckets
          /\ t.orders = q.orders /\ t.next = q.next /\ t.active = q.active
          /\ t.pending = q.pending /\ t.leased = q.leased /\ t.leases = q.leases
          /\ t.keys = q.keys /\ t.staged = q.staged
          /\ DOMAIN t.settlements = DOMAIN q.settlements \cup {l}
          /\ \A k \in DOMAIN q.settlements : t.settlements[k] = q.settlements[k]
          /\ l \notin DOMAIN q.settlements =>
                 t.settlements[l] = [outcome |-> "requeued", terminal |-> b]
        BY <2>1, <2>2, RememberFields
    <2>4. Requeued(s, l) = t
        BY <1>1, <1>3, <1>5, <1>7, <1>8, <2>1, Zenon DEF Requeued
    <2>5. PICK u : u = r.url
        OBVIOUS
    <2>6. s.leases[l].url = u /\ s.leases[l].key = NoUrl
        BY <1>1, <1>8, <2>5
    <2>7. /\ DOMAIN t = Buckets
          /\ t.orders = Put(s.orders, s.next, u) /\ t.next = s.next + 1
          /\ t.leases = Delete(s.leases, l) /\ t.leased = s.leased
          /\ t.active = s.active /\ t.pending = s.pending
          /\ t.keys = s.keys /\ t.staged = s.staged
          /\ DOMAIN t.settlements = DOMAIN s.settlements \cup {l}
          /\ \A k \in DOMAIN s.settlements : t.settlements[k] = s.settlements[k]
        BY <1>4, <1>6, <2>3, <2>5
    <2>8. Good(t) /\ Done(s, t)
        BY <2>6, <2>7, RequeuedUntrackedGood
    <2> QED
        BY <2>4, <2>8
<1>9. CASE r.key # NoUrl
    <2>1. PICK u : u = r.url
        OBVIOUS
    <2>2. r.key = u
        BY <1>2, <1>9, <2>1
    <2>3. s.leases[l].url = u /\ s.leases[l].key = u
        BY <1>1, <2>1, <2>2
    <2>4. u \in DOMAIN s.leased /\ s.leased[u] = l
        BY <1>1, <1>9, <2>2 DEF Good, LeasesTracked
    <2>5. PICK v : v = ReleaseLeased(q, l, r)
        OBVIOUS
    <2>6. v = [q EXCEPT !.leased = Delete(@, u)]
        BY <1>4, <1>6, <2>2, <2>4, <2>5 DEF ReleaseLeased
    <2>7. /\ DOMAIN v = Buckets /\ v.leased = Delete(q.leased, u)
          /\ v.leases = q.leases /\ v.orders = q.orders /\ v.next = q.next
          /\ v.keys = q.keys /\ v.active = q.active /\ v.pending = q.pending
          /\ v.staged = q.staged /\ v.settlements = q.settlements
        BY <1>6, <2>6 DEF Buckets
    <2>8. PICK w : w = TrackOrder(v, u, s.next)
        OBVIOUS
    <2>9. /\ DOMAIN w = Buckets /\ w.active = Put(v.active, u, s.next)
          /\ w.pending = Put(v.pending, s.next, u)
          /\ w.leases = v.leases /\ w.orders = v.orders /\ w.next = v.next
          /\ w.keys = v.keys /\ w.leased = v.leased
          /\ w.staged = v.staged /\ w.settlements = v.settlements
        BY <2>7, <2>8 DEF TrackOrder, Buckets
    <2>10. PICK t : t = Remember(w, l, "requeued", b)
        OBVIOUS
    <2>11. DOMAIN w = Buckets
        BY <2>9
    <2>12. /\ DOMAIN t = Buckets
           /\ t.orders = w.orders /\ t.next = w.next /\ t.active = w.active
           /\ t.pending = w.pending /\ t.leased = w.leased /\ t.leases = w.leases
           /\ t.keys = w.keys /\ t.staged = w.staged
           /\ DOMAIN t.settlements = DOMAIN w.settlements \cup {l}
           /\ \A k \in DOMAIN w.settlements : t.settlements[k] = w.settlements[k]
           /\ l \notin DOMAIN w.settlements =>
                  t.settlements[l] = [outcome |-> "requeued", terminal |-> b]
        BY <2>10, <2>11, RememberFields
    <2>13. Requeued(s, l) = t
        BY <1>1, <1>3, <1>5, <1>7, <1>9, <2>2, <2>5, <2>8, <2>10, Zenon DEF Requeued
    <2>14. /\ DOMAIN t = Buckets
           /\ t.orders = Put(s.orders, s.next, u) /\ t.next = s.next + 1
           /\ t.leases = Delete(s.leases, l) /\ t.leased = Delete(s.leased, u)
           /\ t.active = Put(s.active, u, s.next) /\ t.pending = Put(s.pending, s.next, u)
           /\ t.keys = s.keys /\ t.staged = s.staged
           /\ DOMAIN t.settlements = DOMAIN s.settlements \cup {l}
           /\ \A k \in DOMAIN s.settlements : t.settlements[k] = s.settlements[k]
        BY <1>4, <1>6, <2>1, <2>7, <2>9, <2>12
    <2>15. Good(t) /\ Done(s, t)
        BY <2>3, <2>14, RequeuedTrackedGood
    <2> QED
        BY <2>13, <2>15
<1> QED
    BY <1>8, <1>9

(* Every lease with a key is in the index already: a start changes nothing *)
(* that a look-up could see.                                               *)
LEMMA ReconcileFields ==
    ASSUME NEW s, Good(s), NEW t, t = ReconcileLeases(s)
    PROVE  /\ DOMAIN t = Buckets
           /\ t.orders = s.orders /\ t.next = s.next /\ t.leases = s.leases /\ t.keys = s.keys
           /\ t.pending = s.pending /\ t.intents = s.intents
           /\ t.staged = s.staged /\ t.settlements = s.settlements
           /\ DOMAIN t.leased = DOMAIN s.leased
           /\ \A u \in DOMAIN s.leased : t.leased[u] = s.leased[u]
           /\ DOMAIN t.active = DOMAIN s.active
           /\ \A u \in DOMAIN s.active : t.active[u] = s.active[u]
<1> DEFINE keyed == {l \in DOMAIN s.leases : s.leases[l].key # NoUrl}
           urls == {s.leases[l].key : l \in keyed}
           holder(u) == CHOOSE l \in keyed : s.leases[l].key = u
<1>1. PICK f : f = [u \in DOMAIN s.leased \cup urls |->
                        IF u \in urls THEN holder(u) ELSE s.leased[u]]
    OBVIOUS
<1>2. PICK g : g = [u \in DOMAIN s.active \cup urls |->
                        IF u \in DOMAIN s.active THEN s.active[u] ELSE s.leases[holder(u)].seq]
    OBVIOUS
<1>3. t = [s EXCEPT !.leased = f, !.active = g]
    <2>1. DOMAIN s = Buckets
        BY DEF Good, Shape
    <2> QED
        BY <1>1, <1>2, <2>1, Zenon DEF ReconcileLeases
<1>4. /\ DOMAIN t = Buckets /\ t.leased = f /\ t.active = g
      /\ t.orders = s.orders /\ t.next = s.next /\ t.leases = s.leases /\ t.keys = s.keys
      /\ t.pending = s.pending /\ t.intents = s.intents
      /\ t.staged = s.staged /\ t.settlements = s.settlements
    <2>1. DOMAIN s = Buckets
        BY DEF Good, Shape
    <2> HIDE DEF keyed, urls, holder
    <2> QED
        BY <1>3, <2>1 DEF Buckets
<1>5. \A u \in urls : /\ u \in DOMAIN s.leased /\ u \in DOMAIN s.active
                      /\ holder(u) = s.leased[u]
    <2> SUFFICES ASSUME NEW u \in urls
                 PROVE  /\ u \in DOMAIN s.leased /\ u \in DOMAIN s.active
                        /\ holder(u) = s.leased[u]
        OBVIOUS
    <2>1. PICK l \in keyed : s.leases[l].key = u
        OBVIOUS
    <2>2. holder(u) \in keyed /\ s.leases[holder(u)].key = u
        BY <2>1
    <2>3. \A k \in keyed : s.leases[k].key = u =>
              u \in DOMAIN s.leased /\ u \in DOMAIN s.active /\ s.leased[u] = k
        BY DEF Good, LeasesTracked
    <2> HIDE DEF holder
    <2> QED
        BY <2>2, <2>3
<1> HIDE DEF keyed, urls, holder
<1>6. DOMAIN f = DOMAIN s.leased /\ \A u \in DOMAIN s.leased : f[u] = s.leased[u]
    BY <1>1, <1>5
<1>7. DOMAIN g = DOMAIN s.active /\ \A u \in DOMAIN s.active : g[u] = s.active[u]
    BY <1>2, <1>5
<1> QED
    BY <1>4, <1>6, <1>7

LEMMA ReconcileGood ==
    ASSUME NEW s, Good(s), NEW t,
           DOMAIN t = Buckets,
           t.orders = s.orders, t.next = s.next, t.leases = s.leases, t.keys = s.keys,
           t.pending = s.pending, t.staged = s.staged, t.settlements = s.settlements,
           DOMAIN t.leased = DOMAIN s.leased,
           \A u \in DOMAIN s.leased : t.leased[u] = s.leased[u],
           DOMAIN t.active = DOMAIN s.active,
           \A u \in DOMAIN s.active : t.active[u] = s.active[u]
    PROVE  Good(t) /\ Kept(s, t)
<1>1. Shape(t)
    BY DEF Good, Shape
<1>2. OldKeys(t) /\ OneEach(t)
    BY DEF Good, OldKeys, OneEach
<1>3. OrdersTracked(t)
    BY DEF Good, OrdersTracked
<1>4. LeasesTracked(t)
    BY DEF Good, LeasesTracked
<1>5. OwnersWork(t)
    BY DEF Good, OwnersWork, Work, OrdersOf, LeasesOf
<1>6. StagedSound(t)
    BY DEF Good, StagedSound
<1>7. Kept(s, t)
    BY DEF Kept, Released
<1> QED
    BY <1>1, <1>2, <1>3, <1>4, <1>5, <1>6, <1>7 DEF Good


-----------------------------------------------------------------------------
(* The initial stores.                                                     *)
LEMMA OwnedGood ==
    ASSUME NEW u \in Urls, NEW t,
           DOMAIN t = Buckets, t.next = 1,
           DOMAIN t.keys = {u}, t.keys[u] = 0,
           DOMAIN t.active = {}, DOMAIN t.pending = {}, DOMAIN t.leased = {},
           DOMAIN t.staged = {}, DOMAIN t.settlements = {},
           DOMAIN t.orders \subseteq {0}, \A n \in DOMAIN t.orders : t.orders[n] = u,
           DOMAIN t.orders = {} \/ DOMAIN t.leases = {},
           \A l \in DOMAIN t.leases :
               /\ t.leases[l] \in Lease
               /\ t.leases[l].url = u /\ t.leases[l].key = NoUrl /\ t.leases[l].seq = 0,
           \A k, l \in DOMAIN t.leases : k = l
    PROVE  Good(t)
<1>1. Shape(t)
    BY DEF Shape
<1>2. OldKeys(t)
    BY DEF OldKeys
<1>3. OneEach(t)
    BY DEF OneEach
<1>4. OrdersTracked(t)
    BY DEF OrdersTracked
<1>5. LeasesTracked(t)
    BY DEF LeasesTracked
<1>6. OwnersWork(t) /\ StagedSound(t)
    BY DEF OwnersWork, StagedSound
<1> QED
    BY <1>1, <1>2, <1>3, <1>4, <1>5, <1>6 DEF Good

LEMMA EmptyGood == Good(EmptyStore)
<1>1. PICK t : t = EmptyStore
    OBVIOUS
<1>2. /\ DOMAIN t = Buckets /\ t.next = 0
      /\ DOMAIN t.orders = {} /\ DOMAIN t.leases = {} /\ DOMAIN t.keys = {}
      /\ DOMAIN t.active = {} /\ DOMAIN t.pending = {} /\ DOMAIN t.leased = {}
      /\ DOMAIN t.staged = {} /\ DOMAIN t.settlements = {}
    BY <1>1 DEF EmptyStore, Buckets
<1>3. Good(t)
    BY <1>2 DEF Good, Shape, OldKeys, OneEach, OrdersTracked, LeasesTracked, OwnersWork,
                StagedSound
<1> QED
    BY <1>1, <1>3

LEMMA LegacyStoreGood ==
    ASSUME NEW t \in LegacyStores
    PROVE  Good(t)
<1>1. PICK u \in Urls : \/ t = OldOwned(u) \/ t = OldPending(u)
                        \/ \E l \in LeaseIds, w \in Sessions : t = OldLeased(u, l, w)
    BY DEF LegacyStores
<1>2. PICK o : o = OldOwned(u)
    OBVIOUS
<1>3. /\ DOMAIN o = Buckets /\ o.next = 1 /\ o.keys = Put(<<>>, u, 0)
      /\ o.orders = <<>> /\ o.leases = <<>>
      /\ o.active = <<>> /\ o.pending = <<>> /\ o.leased = <<>>
      /\ o.staged = <<>> /\ o.settlements = <<>>
    BY <1>2 DEF OldOwned, EmptyStore, Buckets
<1>4. PICK e : e = <<>>
    OBVIOUS
<1>5. DOMAIN e = {}
    BY <1>4
<1>6. /\ DOMAIN o.keys = {u} /\ o.keys[u] = 0
    BY <1>3, <1>4, <1>5 DEF Put
<1>7. CASE t = o
    <2>1. /\ DOMAIN t.orders = {} /\ DOMAIN t.leases = {}
          /\ DOMAIN t.active = {} /\ DOMAIN t.pending = {} /\ DOMAIN t.leased = {}
          /\ DOMAIN t.staged = {} /\ DOMAIN t.settlements = {}
        BY <1>3, <1>4, <1>5, <1>7
    <2> QED
        BY <1>3, <1>6, <1>7, <2>1, OwnedGood
<1>8. CASE t = [o EXCEPT !.orders = Put(@, 0, u)]
    <2>1. /\ DOMAIN t = Buckets /\ t.next = 1 /\ t.keys = o.keys
          /\ t.orders = Put(o.orders, 0, u) /\ t.leases = o.leases
          /\ t.active = o.active /\ t.pending = o.pending /\ t.leased = o.leased
          /\ t.staged = o.staged /\ t.settlements = o.settlements
        BY <1>3, <1>8 DEF Buckets
    <2>2. DOMAIN t.orders = {0} /\ t.orders[0] = u
        BY <1>3, <1>4, <1>5, <2>1 DEF Put
    <2>3. /\ DOMAIN t.leases = {}
          /\ DOMAIN t.active = {} /\ DOMAIN t.pending = {} /\ DOMAIN t.leased = {}
          /\ DOMAIN t.staged = {} /\ DOMAIN t.settlements = {}
        BY <1>3, <1>4, <1>5, <2>1
    <2> QED
        BY <1>6, <2>1, <2>2, <2>3, OwnedGood
<1>9. ASSUME NEW l \in LeaseIds, NEW w \in Sessions, t = OldLeased(u, l, w)
      PROVE  Good(t)
    <2>1. PICK r : r = [url |-> u, key |-> NoUrl, seq |-> 0, session |-> w, deferred |-> FALSE]
        OBVIOUS
    <2>2. r \in Lease /\ r.url = u /\ r.key = NoUrl /\ r.seq = 0
        BY <2>1 DEF Lease
    <2>3. t = [o EXCEPT !.leases = Put(@, l, r)]
        BY <1>2, <1>9, <2>1 DEF OldLeased
    <2>4. /\ DOMAIN t = Buckets /\ t.next = 1 /\ t.keys = o.keys
          /\ t.orders = o.orders /\ t.leases = Put(o.leases, l, r)
          /\ t.active = o.active /\ t.pending = o.pending /\ t.leased = o.leased
          /\ t.staged = o.staged /\ t.settlements = o.settlements
        BY <1>3, <2>3 DEF Buckets
    <2>5. DOMAIN t.leases = {l} /\ t.leases[l] = r
        BY <1>3, <1>4, <1>5, <2>4 DEF Put
    <2>6. /\ DOMAIN t.orders = {}
          /\ DOMAIN t.active = {} /\ DOMAIN t.pending = {} /\ DOMAIN t.leased = {}
          /\ DOMAIN t.staged = {} /\ DOMAIN t.settlements = {}
        BY <1>3, <1>4, <1>5, <2>4
    <2> QED
        BY <1>6, <2>2, <2>4, <2>5, <2>6, OwnedGood
<1> QED
    BY <1>1, <1>2, <1>7, <1>8, <1>9 DEF OldPending

LEMMA InitInv == Init => Inv
<1> SUFFICES ASSUME Init PROVE Inv
    OBVIOUS
<1>1. Good(store)
    <2>1. store = EmptyStore \/ store \in LegacyStores
        BY DEF Init
    <2> QED
        BY <2>1, EmptyGood, LegacyStoreGood
<1>2. Held(store, mutation)
    BY HeldIdle DEF Init
<1>3. Admitting(admission)
    BY DEF Init, Admitting, Free
<1> QED
    BY <1>1, <1>2, <1>3 DEF Init, Inv

-----------------------------------------------------------------------------
(* The steps.                                                              *)
LEMMA KeptSelf ==
    ASSUME NEW s
    PROVE  Kept(s, s) /\ Done(s, s)
BY DEF Kept, Done

(* A step that leaves leaseMutation where it is.                           *)
LEMMA BesideMutation ==
    ASSUME Inv, Good(store'), Kept(store, store'), Admitting(admission'),
           UNCHANGED <<mutation, session>>
    PROVE  Inv' /\ Done(store, store')
<1>1. Held(store', mutation)
    BY HeldKept DEF Inv
<1>2. Done(store, store')
    BY KeptDone DEF Inv
<1> QED
    BY <1>1, <1>2 DEF Inv

(* A step that ends with leaseMutation free.                               *)
LEMMA MutationOver ==
    ASSUME Good(store'), Done(store, store'), mutation' = Idle, Admitting(admission'),
           session' \in Sessions
    PROVE  Inv' /\ Done(store, store')
<1>1. Held(store', mutation')
    BY HeldIdle
<1> QED
    BY <1>1 DEF Inv

LEMMA AdmittingKept ==
    ASSUME Admitting(admission),
           \/ \E u \in Urls : PublishBegin(u) \/ RecoverIntent(u)
           \/ RecoverRelease \/ Admit \/ Repair \/ PersistIntent \/ PublishOrder \/ PublishEnd
           \/ ClearBegin \/ ClearCutoff \/ ClearOrder \/ AdmissionFails
    PROVE  Admitting(admission') /\ UNCHANGED <<mutation, session>>
<1>1. Admitting(Free)
    BY DEF Admitting, Free
<1>2. \A stage : Admitting([admission EXCEPT !.stage = stage])
    BY DEF Admitting, Free
<1>3. ASSUME NEW u \in Urls, PublishBegin(u)
      PROVE  Admitting(admission') /\ UNCHANGED <<mutation, session>>
    BY <1>3 DEF PublishBegin, Begin, Admitting, Free
<1>4. ASSUME NEW u \in Urls, RecoverIntent(u)
      PROVE  Admitting(admission') /\ UNCHANGED <<mutation, session>>
    BY <1>4 DEF RecoverIntent, Admitting, Free
<1>5. CASE RecoverRelease
    BY <1>5 DEF RecoverRelease, Admitting, Free
<1>6. CASE ClearBegin
    BY <1>6 DEF ClearBegin, Begin, Admitting, Free
<1>7. CASE ClearCutoff
    BY <1>7 DEF ClearCutoff, Admitting, Free
<1>8. CASE ClearOrder
    BY <1>1, <1>8 DEF ClearOrder
<1>9. CASE Admit \/ Repair \/ PersistIntent \/ PublishOrder \/ PublishEnd \/ AdmissionFails
    BY <1>1, <1>2, <1>9 DEF Admit, Repair, PersistIntent, PublishOrder, PublishEnd,
                            AdmissionFails, GoTo
<1> QED
    BY <1>3, <1>4, <1>5, <1>6, <1>7, <1>8, <1>9

LEMMA AdmissionStep ==
    ASSUME Inv,
           \/ \E u \in Urls : PublishBegin(u) \/ RecoverIntent(u)
           \/ RecoverRelease \/ Admit \/ Repair \/ PersistIntent \/ PublishOrder \/ PublishEnd
           \/ ClearBegin \/ ClearCutoff \/ ClearOrder \/ AdmissionFails
    PROVE  Inv' /\ Done(store, store')
<1>1. Admitting(admission') /\ UNCHANGED <<mutation, session>>
    BY AdmittingKept DEF Inv
<1>2. Good(store) /\ Admitting(admission)
    BY DEF Inv
<1>3. Good(store') /\ Kept(store, store')
    <2>1. CASE store' = store
        BY <1>2, <2>1, KeptSelf
    <2>2. ASSUME NEW u \in Urls, RecoverIntent(u) PROVE Good(store') /\ Kept(store, store')
        <3>1. store' = CompleteIntent(store, u, TRUE)
            BY <2>2 DEF RecoverIntent
        <3> QED
            BY <1>2, <3>1, CompleteIntentGood
    <2>3. CASE RecoverRelease \/ PersistIntent \/ PublishEnd
        <3>1. PICK i : store' = [store EXCEPT !.intents = i]
            BY <2>3 DEF RecoverRelease, PersistIntent, PublishEnd
        <3> QED
            BY <1>2, <3>1, IntentsGood
    <2>4. CASE Repair
        <3>1. store' = Repaired(store, admission.url)
            BY <2>4 DEF Repair
        <3> QED
            BY <1>2, <3>1, RepairedGood DEF Repairs
    <2>5. CASE PublishOrder
        <3>1. admission.url \in Urls /\ store' = CompleteIntent(store, admission.url, FALSE)
            BY <1>2, <2>5 DEF PublishOrder, Publishing, Admitting
        <3> QED
            BY <1>2, <3>1, CompleteIntentGood
    <2>6. CASE ClearOrder
        <3>1. PICK before : before = {n \in DOMAIN store.orders : n < admission.cutoff}
            OBVIOUS
        <3>2. CASE before = {}
            BY <2>1, <2>6, <3>1, <3>2 DEF ClearOrder
        <3>3. CASE before # {}
            <4>1. store' = Cleared(store, Min(before))
                BY <2>6, <3>1, <3>3 DEF ClearOrder
            <4>2. before \subseteq Nat /\ before \subseteq DOMAIN store.orders
                BY <1>2, <3>1 DEF Good, Shape
            <4>3. Min(before) \in DOMAIN store.orders
                BY <3>3, <4>2, Least
            <4> QED
                BY <1>2, <4>1, <4>3, ClearedGood
        <3> QED
            BY <3>2, <3>3
    <2>7. ASSUME NEW u \in Urls, PublishBegin(u) PROVE store' = store
        BY <2>7 DEF PublishBegin, Begin
    <2>8. CASE Admit \/ ClearBegin \/ ClearCutoff \/ AdmissionFails
        BY <2>1, <2>8 DEF Admit, ClearBegin, Begin, ClearCutoff, AdmissionFails
    <2> QED
        BY <2>1, <2>2, <2>3, <2>4, <2>5, <2>6, <2>7, <2>8
<1> QED
    BY <1>1, <1>3, BesideMutation


(* An operation that begins to complete what is staged.                    *)
LEMMA ResolvingHeld ==
    ASSUME NEW t, NEW leases, NEW adopts, adopts = NoSession \/ adopts \in Sessions,
           adopts # NoSession => DOMAIN t.staged \subseteq leases,
           NEW m, m = [Idle EXCEPT !.stage = "resolve", !.leases = leases, !.adopts = adopts]
    PROVE  Held(t, m)
BY DEF Held, Idle

LEMMA IdleStep ==
    ASSUME Inv, NEW l \in LeaseIds, Claim(l) \/ NegativeAcknowledge(l) \/ Sweep(l) \/ Forget(l)
    PROVE  Inv' /\ Done(store, store')
<1>1. /\ Good(store) /\ Admitting(admission) /\ session \in Sessions
      /\ Admitting(admission') /\ session' \in Sessions
    BY DEF Inv, Claim, NegativeAcknowledge, Sweep, Forget
<1>2. CASE Claim(l)
    <2>1. /\ store' = Claimed(store, l, session) /\ mutation' = Idle
          /\ l \notin DOMAIN store.leases /\ l \notin DOMAIN store.staged
          /\ l \notin DOMAIN store.settlements /\ DOMAIN store.orders # {}
        BY <1>2 DEF Claim
    <2>2. Good(store') /\ Done(store, store')
        BY <1>1, <2>1, ClaimedGood
    <2> QED
        BY <1>1, <2>1, <2>2, MutationOver
<1>3. CASE Resolve({l}, NoSession) /\ store' = store
    <2>1. mutation' = [Idle EXCEPT !.stage = "resolve", !.leases = {l}, !.adopts = NoSession]
        BY <1>3 DEF Resolve
    <2>2. Held(store', mutation')
        BY <2>1, ResolvingHeld
    <2> QED
        BY <1>1, <1>3, <2>2, KeptSelf DEF Inv
<1>4. CASE NegativeAcknowledge(l)
    <2>1. CASE l \notin DOMAIN store.staged /\ Owned(l) /\ store' = Deferred(store, l)
               /\ UNCHANGED mutation
        <3>1. l \in DOMAIN store.leases /\ mutation' = Idle
            BY <1>4, <2>1 DEF NegativeAcknowledge, Owned
        <3>2. Good(store') /\ Done(store, store')
            BY <1>1, <2>1, <3>1, DeferredGood
        <3> QED
            BY <1>1, <3>1, <3>2, MutationOver
    <2> QED
        BY <1>3, <1>4, <2>1 DEF NegativeAcknowledge
<1>5. CASE Sweep(l)
    <2>1. CASE l \notin DOMAIN store.staged /\ store' = Requeued(store, l) /\ UNCHANGED mutation
        <3>1. l \in DOMAIN store.leases /\ mutation' = Idle
            BY <1>5, <2>1 DEF Sweep
        <3>2. Good(store') /\ Done(store, store')
            BY <1>1, <2>1, <3>1, RequeuedGood
        <3> QED
            BY <1>1, <3>1, <3>2, MutationOver
    <2> QED
        BY <1>3, <1>5, <2>1 DEF Sweep
<1>6. CASE Forget(l)
    <2>1. store' = [store EXCEPT !.settlements = Delete(@, l)] /\ mutation' = Idle
        BY <1>6 DEF Forget
    <2>2. Good(store') /\ Done(store, store')
        BY <1>1, <2>1, ForgetGood
    <2> QED
        BY <1>1, <2>1, <2>2, MutationOver
<1> QED
    BY <1>2, <1>4, <1>5, <1>6

LEMMA StageStep ==
    ASSUME Inv, NEW l \in LeaseIds, NEW terminal \in BOOLEAN, AcknowledgeStage(l, terminal)
    PROVE  Inv' /\ Done(store, store')
<1>1. /\ Good(store) /\ Admitting(admission') /\ session' \in Sessions
    BY DEF Inv, AcknowledgeStage
<1>2. mutation' = [Idle EXCEPT !.stage = "settle", !.leases = {l}, !.terminal = terminal]
    BY DEF AcknowledgeStage
<1>3. /\ mutation'.stage = "settle" /\ mutation'.leases = {l}
      /\ mutation'.terminal = terminal /\ mutation'.adopts = NoSession
      /\ DOMAIN mutation' = DOMAIN Idle
    BY <1>2 DEF Idle
<1>4. /\ Good(store') /\ Done(store, store')
      /\ l \in DOMAIN store'.leases =>
             IF l \in DOMAIN store'.staged THEN store'.staged[l].terminal = terminal
             ELSE store'.leases[l].url \in DOMAIN store'.keys
    <2>1. CASE Owned(l) /\ store.leases[l].key = NoUrl /\ store' = store
        <3>1. l \in DOMAIN store.leases
            BY <2>1 DEF Owned
        <3>2. l \notin DOMAIN store.staged
            BY <1>1, <2>1, <3>1, StagedKeyed
        <3>3. store.leases[l].url \in DOMAIN store.keys
            BY <1>1, <2>1, <3>1 DEF Good, LeasesTracked
        <3> QED
            BY <1>1, <2>1, <3>2, <3>3, KeptSelf
    <2>2. CASE Owned(l) /\ store.leases[l].key # NoUrl /\ l \notin DOMAIN store.staged
               /\ store' = StageAcknowledgment(store, l, terminal)
        <3>1. l \in DOMAIN store.leases /\ ~store.leases[l].deferred
            BY <2>2 DEF Owned
        <3>2. /\ Good(store') /\ Done(store, store')
              /\ l \in DOMAIN store'.staged /\ store'.staged[l].terminal = terminal
            BY <1>1, <2>2, <3>1, StageGood
        <3> QED
            BY <3>2
    <2>3. CASE l \in DOMAIN store.staged /\ store.staged[l].terminal = terminal /\ store' = store
        BY <1>1, <2>3, KeptSelf
    <2> QED
        BY <2>1, <2>2, <2>3 DEF AcknowledgeStage
<1>5. Held(store', mutation')
    BY <1>3, <1>4 DEF Held
<1> QED
    BY <1>1, <1>4, <1>5 DEF Inv

LEMMA SettleStep ==
    ASSUME Inv, AcknowledgeSettle
    PROVE  Inv' /\ Done(store, store')
<1>1. /\ Good(store) /\ Admitting(admission') /\ session' \in Sessions
      /\ Held(store, mutation) /\ mutation.stage = "settle"
    BY DEF Inv, AcknowledgeSettle
<1>2. mutation' = [mutation EXCEPT !.stage = "resolve"]
    BY DEF AcknowledgeSettle
<1>3. /\ DOMAIN mutation' = DOMAIN Idle /\ mutation'.stage = "resolve"
      /\ mutation'.adopts = NoSession
    BY <1>1, <1>2 DEF Held, Idle
<1>4. Held(store', mutation')
    BY <1>3 DEF Held
<1>5. Good(store') /\ Done(store, store')
    <2>1. CASE store' = store
        BY <1>1, <2>1, KeptSelf
    <2>2. ASSUME NEW l \in mutation.leases, Owned(l),
                 store' = Acknowledge(store, l, mutation.terminal)
          PROVE  Good(store') /\ Done(store, store')
        <3>1. l \in DOMAIN store.leases /\ ~store.leases[l].deferred
            BY <2>2 DEF Owned
        <3>2. IF l \in DOMAIN store.staged THEN store.staged[l].terminal = mutation.terminal
              ELSE store.leases[l].url \in DOMAIN store.keys
            BY <1>1, <3>1 DEF Held
        <3> QED
            BY <1>1, <2>2, <3>1, <3>2, AcknowledgeGood
    <2> QED
        BY <2>1, <2>2 DEF AcknowledgeSettle
<1> QED
    BY <1>1, <1>4, <1>5 DEF Inv

LEMMA ResolveStep ==
    ASSUME Inv, (\E l \in LeaseIds : ResolveComplete(l)) \/ ResolveRelease
    PROVE  Inv' /\ Done(store, store')
<1>1. /\ Good(store) /\ Held(store, mutation)
      /\ Admitting(admission') /\ session' \in Sessions
    BY DEF Inv, ResolveComplete, ResolveRelease
<1>2. ASSUME NEW l \in LeaseIds, ResolveComplete(l) PROVE Inv' /\ Done(store, store')
    <2>1. /\ l \in DOMAIN store.staged /\ mutation.stage = "resolve"
          /\ store' = CompleteSettlement(store, l)
          /\ mutation' = [mutation EXCEPT !.stage = "release", !.lease = l]
        BY <1>2 DEF ResolveComplete
    <2>2. /\ Good(store') /\ Done(store, store') /\ Released(store', l)
          /\ store'.staged = store.staged /\ l \notin DOMAIN store'.leases
        BY <1>1, <2>1, CompleteSettlementGood
    <2>3. DOMAIN mutation = {"stage", "leases", "lease", "terminal", "adopts"}
        BY <1>1 DEF Held, Idle
    <2>4. /\ DOMAIN mutation' = DOMAIN Idle /\ mutation'.stage = "release"
          /\ mutation'.lease = l /\ mutation'.leases = mutation.leases
          /\ mutation'.adopts = mutation.adopts
        BY <2>1, <2>3 DEF Idle
    <2>5. Held(store', mutation')
        BY <1>1, <2>1, <2>2, <2>4 DEF Held
    <2> QED
        BY <1>1, <2>2, <2>5 DEF Inv
<1>3. CASE ResolveRelease
    <2>1. PICK l : l = mutation.lease
        OBVIOUS
    <2>2. /\ mutation.stage = "release" /\ store' = [store EXCEPT !.staged = Delete(@, l)]
          /\ mutation' = [mutation EXCEPT !.stage = "resolve", !.lease = NoLease,
                                          !.leases = @ \ {l}]
        BY <1>3, <2>1 DEF ResolveRelease
    <2>3. l \in DOMAIN store.staged /\ l \notin DOMAIN store.leases /\ Released(store, l)
        BY <1>1, <2>1, <2>2 DEF Held
    <2>4. Good(store') /\ Done(store, store')
        BY <1>1, <2>2, <2>3, StagedReleasedGood
    <2>5. DOMAIN store'.staged = DOMAIN store.staged \ {l}
        BY <1>1, <2>2 DEF Good, Shape, Buckets, Delete
    <2>6. DOMAIN mutation = {"stage", "leases", "lease", "terminal", "adopts"}
        BY <1>1 DEF Held, Idle
    <2>7. /\ DOMAIN mutation' = DOMAIN Idle /\ mutation'.stage = "resolve"
          /\ mutation'.leases = mutation.leases \ {l} /\ mutation'.adopts = mutation.adopts
        BY <2>2, <2>6 DEF Idle
    <2>8. Held(store', mutation')
        BY <1>1, <2>5, <2>7 DEF Held
    <2> QED
        BY <1>1, <2>4, <2>8 DEF Inv
<1> QED
    BY <1>2, <1>3

LEMMA EndStep ==
    ASSUME Inv, ResolveEnd
    PROVE  Inv' /\ Done(store, store')
<1>1. /\ Good(store) /\ Held(store, mutation) /\ session \in Sessions /\ Admitting(admission)
    BY DEF Inv
<1>2. Admitting(admission') /\ mutation' = Idle
    BY <1>1 DEF ResolveEnd, Admitting, Free
<1>3. CASE mutation.adopts = NoSession
    <2>1. store' = store /\ session' = session
        BY <1>3 DEF ResolveEnd
    <2> QED
        BY <1>1, <1>2, <2>1, KeptSelf, MutationOver
<1>4. CASE mutation.adopts # NoSession
    <2>1. PICK w : w = mutation.adopts
        OBVIOUS
    <2>2. w \in Sessions /\ DOMAIN store.staged \subseteq mutation.leases
        BY <1>1, <1>4, <2>1 DEF Held
    <2>3. DOMAIN store.staged = {}
        BY <2>2 DEF ResolveEnd
    <2>4. /\ session' = w
          /\ store' = [store EXCEPT !.leases = [l \in DOMAIN @ |->
                 IF @[l].deferred THEN @[l] ELSE [@[l] EXCEPT !.session = w]]]
        BY <1>4, <2>1 DEF ResolveEnd
    <2>5. Good(store') /\ Done(store, store')
        BY <1>1, <2>2, <2>3, <2>4, AdoptedGood
    <2> QED
        BY <1>2, <2>2, <2>4, <2>5, MutationOver
<1> QED
    BY <1>3, <1>4

LEMMA RestStep ==
    ASSUME Inv, MutationFails \/ (\E w \in Sessions : Adopt(w)) \/ Crash \/ OpenLeases
    PROVE  Inv' /\ Done(store, store')
<1>1. /\ Good(store) /\ Admitting(admission) /\ session' \in Sessions
    BY DEF Inv, MutationFails, Adopt, Crash, OpenLeases
<1>2. CASE MutationFails
    <2>1. store' = store /\ mutation' = Idle /\ admission' = admission
        BY <1>2 DEF MutationFails
    <2> QED
        BY <1>1, <2>1, KeptSelf, MutationOver
<1>3. ASSUME NEW w \in Sessions, Adopt(w) PROVE Inv' /\ Done(store, store')
    <2>1. /\ store' = store /\ admission' = admission
          /\ mutation' = [Idle EXCEPT !.stage = "resolve", !.leases = DOMAIN store.staged,
                                      !.adopts = w]
        BY <1>3 DEF Adopt, Resolve
    <2>2. Held(store', mutation')
        BY <2>1, ResolvingHeld
    <2> QED
        BY <1>1, <2>1, <2>2, KeptSelf DEF Inv
<1>4. CASE Crash
    <2>1. store' = store /\ Admitting(admission')
        BY <1>4 DEF Crash, Admitting, Free
    <2>2. Held(store', mutation')
        BY <1>4 DEF Crash, Held, Idle
    <2> QED
        BY <1>1, <2>1, <2>2, KeptSelf DEF Inv
<1>5. CASE OpenLeases
    <2>1. /\ store' = ReconcileLeases(store)
          /\ mutation' = [Idle EXCEPT !.stage = "resolve", !.leases = DOMAIN store.staged,
                                      !.adopts = NoSession]
          /\ admission' = [admission EXCEPT !.stage = "settlements"]
        BY <1>5 DEF OpenLeases, Resolve
    <2>2. Admitting(admission')
        BY <1>1, <2>1 DEF Admitting, Free
    <2>3. Good(store') /\ Kept(store, store')
        BY <1>1, <2>1, ReconcileFields, ReconcileGood
    <2>4. Held(store', mutation')
        BY <2>1, ResolvingHeld
    <2> QED
        BY <1>1, <2>2, <2>3, <2>4, KeptDone DEF Inv
<1> QED
    BY <1>2, <1>3, <1>4, <1>5

LEMMA StepInv ==
    ASSUME Inv, [Next]_vars
    PROVE  Inv' /\ Done(store, store')
<1>1. CASE UNCHANGED vars
    BY <1>1, KeptSelf DEF Inv, vars
<1>2. CASE \E l \in LeaseIds :
               \/ Claim(l) \/ NegativeAcknowledge(l) \/ Sweep(l) \/ Forget(l)
               \/ ResolveComplete(l)
               \/ \E terminal \in BOOLEAN : AcknowledgeStage(l, terminal)
    BY <1>2, IdleStep, ResolveStep, StageStep
<1> QED
    BY <1>1, <1>2, AdmissionStep, SettleStep, ResolveStep, EndStep, RestStep DEF Next


(* Every state the store can come to, whatever publications, claims,       *)
(* settlements, sweeps, clears, adoptions, failures and stops interleave,  *)
(* is one the invariant allows.                                            *)
THEOREM Invariance == Spec => []Inv
<1>1. Inv /\ [Next]_vars => Inv'
    BY StepInv
<1> QED
    BY <1>1, InitInv, PTL DEF Spec

-----------------------------------------------------------------------------
(* The number of elements of a set that has at most one.                   *)
LEMMA AtMostOne ==
    ASSUME NEW S, \A x, y \in S : x = y
    PROVE  /\ S = {} => Cardinality(S) = 0
           /\ Cardinality(S) \in {0, 1}
<1>1. CASE S = {}
    BY <1>1, FS_EmptySet
<1>2. CASE S # {}
    <2>1. PICK x : S = {x}
        BY <1>2
    <2> QED
        BY <1>2, <2>1, FS_Singleton
<1> QED
    BY <1>1, <1>2

(* A URL that a search surfaced is never crawled twice at once: however    *)
(* many URLs, orders, claims and stops there are, at most one order is     *)
(* pending or leased for it (publishAutomaticDiscovery, and the intents    *)
(* that a later call or the next start completes).                         *)
THEOREM NeverTwoOrdersForAUrl == Spec => []OneOrderPerUrl
<1>1. Inv => OneOrderPerUrl
    <2> SUFFICES ASSUME Inv, NEW u \in Urls
                 PROVE  Cardinality(OrdersOf(store, u)) + Cardinality(LeasesOf(store, u)) <= 1
        BY DEF OneOrderPerUrl
    <2>1. OneEach(store)
        BY DEF Inv, Good
    <2>2. \A x, y \in OrdersOf(store, u) : x = y
        BY <2>1 DEF OneEach, OrdersOf
    <2>3. \A x, y \in LeasesOf(store, u) : x = y
        BY <2>1 DEF OneEach, LeasesOf
    <2>4. OrdersOf(store, u) = {} \/ LeasesOf(store, u) = {}
        BY <2>1 DEF OneEach, OrdersOf, LeasesOf
    <2>5. /\ OrdersOf(store, u) = {} => Cardinality(OrdersOf(store, u)) = 0
          /\ Cardinality(OrdersOf(store, u)) \in {0, 1}
        BY <2>2, AtMostOne
    <2>6. /\ LeasesOf(store, u) = {} => Cardinality(LeasesOf(store, u)) = 0
          /\ Cardinality(LeasesOf(store, u)) \in {0, 1}
        BY <2>3, AtMostOne
    <2> QED
        BY <2>4, <2>5, <2>6
<1> QED
    BY <1>1, Invariance, PTL

(* Ownership is that of the work there is: a URL with a pending order or a *)
(* lease is answered "duplicate", its index names that order or lease, and *)
(* a URL without work is owned only until its staged acknowledgment is     *)
(* completed, or by the key of an older release, which is outstanding only *)
(* with work: nothing keeps the URL from being discovered again            *)
(* (activeAutomaticDiscoveryOutstandingTx, releaseActiveAutomaticDiscoveryTx). *)
THEOREM OwnershipStaysExact == Spec => []OwnershipExact
<1>1. Inv => OwnershipExact
    <2> SUFFICES ASSUME Inv, NEW u \in Urls
                 PROVE  /\ Work(store, u) => Outstanding(store, u)
                        /\ \A n \in OrdersOf(store, u) :
                               u \in DOMAIN store.active =>
                                   store.active[u] = n /\ n \in DOMAIN store.pending
                        /\ \A l \in LeasesOf(store, u) :
                               u \in DOMAIN store.active =>
                                   store.active[u] = store.leases[l].seq /\ store.leased[u] = l
                        /\ u \in DOMAIN store.active /\ ~Work(store, u) =>
                               \/ u \in DOMAIN store.keys
                               \/ \E l \in DOMAIN store.staged : store.staged[l].lease.key = u
        BY DEF OwnershipExact
    <2>1. Good(store)
        BY DEF Inv
    <2>2. Work(store, u) => Outstanding(store, u)
        BY <2>1, WorkOutstanding
    <2>3. ASSUME NEW n \in OrdersOf(store, u), u \in DOMAIN store.active
          PROVE  store.active[u] = n /\ n \in DOMAIN store.pending
        BY <2>1, <2>3 DEF Good, OrdersTracked, OrdersOf
    <2>4. ASSUME NEW l \in LeasesOf(store, u), u \in DOMAIN store.active
          PROVE  store.active[u] = store.leases[l].seq /\ store.leased[u] = l
        <3>1. l \in DOMAIN store.leases /\ store.leases[l].url = u
            BY DEF LeasesOf
        <3>2. store.leases[l].key # NoUrl
            BY <2>1, <2>4, <3>1 DEF Good, LeasesTracked
        <3>3. store.leases[l].key = u
            BY <2>1, <3>1, <3>2 DEF Good, Shape
        <3> QED
            BY <2>1, <3>1, <3>2, <3>3 DEF Good, LeasesTracked
    <2>5. ASSUME u \in DOMAIN store.active, ~Work(store, u)
          PROVE  \/ u \in DOMAIN store.keys
                 \/ \E l \in DOMAIN store.staged : store.staged[l].lease.key = u
        BY <2>1, <2>5 DEF Good, OwnersWork
    <2> QED
        BY <2>2, <2>3, <2>4, <2>5
<1> QED
    BY <1>1, Invariance, PTL

(* A staged acknowledgment never contradicts the store, so that the retry, *)
(* the sweep or the start that meets it can complete it, and the node can  *)
(* always be opened (completeAutomaticDiscoverySettlementTx).              *)
THEOREM StagedNeverConflicts == Spec => []IntentsCompletable
<1>1. Inv => IntentsCompletable
    BY DEF Inv, Good, StagedSound, IntentsCompletable, Conflicts
<1> QED
    BY <1>1, Invariance, PTL

(* An order whose acknowledgment was staged is never given back or handed  *)
(* on, whatever fails afterwards: its lease stays as it was until it ends  *)
(* acknowledged (negativeAcknowledgmentTx, requeueLeaseBatchTx,            *)
(* adoptWorkerSession).                                                    *)
THEOREM AcknowledgedForGood == Spec => AcknowledgedStaysDone
<1>1. Inv /\ [Next]_vars =>
          [\A l \in DOMAIN store.staged \cap DOMAIN store.leases :
              \/ l \in DOMAIN store'.leases /\ store'.leases[l] = store.leases[l]
              \/ /\ l \notin DOMAIN store'.leases
                 /\ store'.settlements[l].outcome = "acknowledged"
                 /\ store'.orders = store.orders]_vars
    BY StepInv DEF Done
<1> QED
    BY <1>1, Invariance, PTL DEF Spec, AcknowledgedStaysDone

-----------------------------------------------------------------------------
(* Intents. A publication that was accepted leaves one, and only           *)
(* publications write and delete them.                                     *)

(* The call that holds discoveryAdmission has completed the intent of u    *)
(* and is about to delete it.                                              *)
Completing(u) ==
    \/ admission.stage = "recovered" /\ admission.intent = u
    \/ Publishing("published") /\ admission.url = u

(* An answer "duplicate" is given only for work there is.                  *)
LEMMA OutstandingWork ==
    ASSUME NEW s, NEW u, Outstanding(s, u)
    PROVE  Work(s, u)
BY DEF Outstanding, Work, OrdersOf

LEMMA IntentCompleted ==
    ASSUME NEW s, Good(s), NEW u \in Urls, NEW recovering \in BOOLEAN,
           NEW t, t = CompleteIntent(s, u, recovering)
    PROVE  Work(t, u) /\ t.intents = s.intents
<1>1. PICK r : r = Repaired(s, u)
    OBVIOUS
<1>2. Good(r) /\ Repairs(s, r)
    BY <1>1, RepairedGood
<1>3. CASE Outstanding(s, u)
    <2>1. t = r
        BY <1>1, <1>3 DEF CompleteIntent
    <2>2. Work(s, u)
        BY <1>3, OutstandingWork
    <2> QED
        BY <1>2, <2>1, <2>2 DEF Work, OrdersOf, LeasesOf, Repairs, Kept
<1>4. CASE ~Outstanding(s, u)
    <2>1. ~Work(s, u)
        BY <1>4, WorkOutstanding
    <2>2. ~Work(r, u)
        BY <1>2, <2>1 DEF Work, OrdersOf, LeasesOf, Repairs, Kept
    <2>3. PICK q : q = Enqueue(r, u)
        OBVIOUS
    <2>4. t = TrackOrder(q, u, r.next)
        BY <1>1, <1>4, <2>2, <2>3 DEF CompleteIntent
    <2>5. DOMAIN q = Buckets /\ q.orders = Put(r.orders, r.next, u) /\ q.intents = r.intents
        BY <1>2, <2>3 DEF Enqueue, Good, Shape, Buckets
    <2>6. t.orders = q.orders /\ t.intents = q.intents
        BY <2>4, <2>5, QueueAlone
    <2>7. r.next \in DOMAIN t.orders /\ t.orders[r.next] = u
        BY <2>5, <2>6 DEF Put
    <2>8. Work(t, u)
        BY <2>7 DEF Work, OrdersOf
    <2> QED
        BY <1>2, <2>5, <2>6, <2>8 DEF Repairs
<1> QED
    BY <1>3, <1>4

(* Clearing, claiming and settling leave the intents alone.                *)
LEMMA IntentsAlone ==
    ASSUME NEW s, DOMAIN s = Buckets, NEW l, NEW w, NEW terminal
    PROVE  /\ Cleared(s, l).intents = s.intents
           /\ Claimed(s, l, w).intents = s.intents
           /\ StageAcknowledgment(s, l, terminal).intents = s.intents
           /\ Acknowledge(s, l, terminal).intents = s.intents
           /\ CompleteSettlement(s, l).intents = s.intents
           /\ Requeued(s, l).intents = s.intents
           /\ Deferred(s, l).intents = s.intents
           /\ ReconcileLeases(s).intents = s.intents
<1>1. ASSUME NEW t, DOMAIN t = Buckets, NEW r
      PROVE  /\ DOMAIN ReleaseLeased(t, l, r) = Buckets
             /\ ReleaseLeased(t, l, r).intents = t.intents
             /\ DOMAIN ReleaseActive(t, r) = Buckets
             /\ ReleaseActive(t, r).intents = t.intents
    BY <1>1 DEF ReleaseLeased, ReleaseActive, Buckets
<1>2. ASSUME NEW t, DOMAIN t = Buckets, NEW outcome, NEW b
      PROVE  /\ DOMAIN Remember(t, l, outcome, b) = Buckets
             /\ Remember(t, l, outcome, b).intents = t.intents
    BY <1>2 DEF Remember, Buckets
<1>3. ASSUME NEW t, DOMAIN t = Buckets, NEW u, NEW n
      PROVE  /\ DOMAIN TrackOrder(t, u, n) = Buckets /\ TrackOrder(t, u, n).intents = t.intents
             /\ DOMAIN Enqueue(t, u) = Buckets /\ Enqueue(t, u).intents = t.intents
    BY <1>3 DEF TrackOrder, Enqueue, Buckets
<1>4. PICK v : v = [s EXCEPT !.leases = Delete(@, l)]
    OBVIOUS
<1>5. DOMAIN v = Buckets /\ v.intents = s.intents
    BY <1>4 DEF Buckets
<1>6. Cleared(s, l).intents = s.intents
    BY DEF Cleared, Buckets
<1>7. Claimed(s, l, w).intents = s.intents
    <2> DEFINE n == Min(DOMAIN s.orders)
               u == s.orders[n]
    <2>1. PICK taken : taken = [s EXCEPT !.orders = Delete(@, n), !.pending = Delete(@, n)]
        OBVIOUS
    <2>2. DOMAIN taken = Buckets /\ taken.intents = s.intents
        BY <2>1 DEF Buckets
    <2>3. PICK record : Claimed(s, l, w) =
              CASE Tracked(s, n) /\ LeasesOf(s, u) # {} -> DiscardDuplicate(taken, u)
                [] Tracked(s, n) /\ LeasesOf(s, u) = {} ->
                       [taken EXCEPT !.leases = Put(@, l, record), !.leased = Put(@, u, l)]
                [] OTHER -> [taken EXCEPT !.leases = Put(@, l, record)]
        BY <2>1 DEF Claimed
    <2>4. DiscardDuplicate(taken, u).intents = s.intents
        BY <2>2, QueueAlone DEF DiscardDuplicate
    <2>5. /\ [taken EXCEPT !.leases = Put(@, l, record), !.leased = Put(@, u, l)].intents = s.intents
          /\ [taken EXCEPT !.leases = Put(@, l, record)].intents = s.intents
        BY <2>2 DEF Buckets
    <2> QED
        BY <2>3, <2>4, <2>5
<1>8. StageAcknowledgment(s, l, terminal).intents = s.intents
    BY DEF StageAcknowledgment, Buckets
<1>9. Acknowledge(s, l, terminal).intents = s.intents
    <2>1. PICK x : x = ReleaseLeased(v, l, s.leases[l])
        OBVIOUS
    <2>2. DOMAIN x = Buckets /\ x.intents = s.intents
        BY <1>1, <1>5, <2>1
    <2>3. Acknowledge(s, l, terminal) = Remember(x, l, "acknowledged", terminal)
        BY <1>4, <2>1 DEF Acknowledge
    <2> QED
        BY <1>2, <2>2, <2>3
<1>10. CompleteSettlement(s, l).intents = s.intents
    <2>1. PICK x : x = ReleaseLeased(v, l, s.staged[l].lease)
        OBVIOUS
    <2>2. DOMAIN x = Buckets /\ x.intents = s.intents
        BY <1>1, <1>5, <2>1
    <2>3. PICK y : y = Remember(x, l, "acknowledged", s.staged[l].terminal)
        OBVIOUS
    <2>4. DOMAIN y = Buckets /\ y.intents = s.intents
        BY <1>2, <2>2, <2>3
    <2>5. CompleteSettlement(s, l) = ReleaseActive(y, s.staged[l].lease)
        BY <1>4, <2>1, <2>3 DEF CompleteSettlement
    <2> QED
        BY <1>1, <2>4, <2>5
<1>11. Requeued(s, l).intents = s.intents
    <2>1. PICK r : r = s.leases[l]
        OBVIOUS
    <2>2. PICK q : q = Enqueue(v, r.url)
        OBVIOUS
    <2>3. DOMAIN q = Buckets /\ q.intents = s.intents
        BY <1>3, <1>5, <2>2
    <2>4. PICK z : z = TrackOrder(ReleaseLeased(q, l, r), r.key, s.next)
        OBVIOUS
    <2>5. DOMAIN z = Buckets /\ z.intents = s.intents
        BY <1>1, <1>3, <2>3, <2>4
    <2>6. \/ Requeued(s, l) = Remember(q, l, "requeued", FALSE)
          \/ Requeued(s, l) = Remember(z, l, "requeued", FALSE)
        BY <1>4, <2>1, <2>2, <2>4 DEF Requeued
    <2>7. Remember(q, l, "requeued", FALSE).intents = s.intents
        BY <1>2, <2>3
    <2>8. Remember(z, l, "requeued", FALSE).intents = s.intents
        BY <1>2, <2>5
    <2> QED
        BY <2>6, <2>7, <2>8
<1>12. Deferred(s, l).intents = s.intents
    <2>1. PICK z : z = [s EXCEPT !.leases[l].deferred = TRUE]
        OBVIOUS
    <2>2. DOMAIN z = Buckets /\ z.intents = s.intents
        BY <2>1 DEF Buckets
    <2> QED
        BY <1>2, <2>1, <2>2 DEF Deferred
<1>13. ReconcileLeases(s).intents = s.intents
    BY DEF ReconcileLeases, Buckets
<1> QED
    BY <1>6, <1>7, <1>8, <1>9, <1>10, <1>11, <1>12, <1>13

(* A publication that was accepted is not lost: its intent stays, through  *)
(* failures, clears and stops, until whoever completes it has seen an      *)
(* order or a lease of its URL, or enqueued one                            *)
(* (publishAutomaticDiscovery, reconcileAutomaticDiscoveryIntents).        *)
IntentsYieldWork ==
    [][\A u \in Urls :
          /\ u \in store.intents /\ u \notin store'.intents => Completing(u)
          /\ Completing(u)' /\ ~Completing(u) => Work(store', u)]_vars

LEMMA IntentStep ==
    ASSUME Inv, Next, NEW u \in Urls
    PROVE  /\ u \in store.intents /\ u \notin store'.intents => Completing(u)
           /\ Completing(u)' /\ ~Completing(u) => Work(store', u)
<1> DEFINE Goal == /\ u \in store.intents /\ u \notin store'.intents => Completing(u)
                   /\ Completing(u)' /\ ~Completing(u) => Work(store', u)
<1>0. /\ Good(store) /\ DOMAIN store = Buckets
      /\ DOMAIN admission = {"op", "stage", "url", "intent", "cutoff"}
      /\ admission.op = "publish" => admission.url \in Urls
    BY DEF Inv, Good, Shape, Admitting, Free
<1>1. ASSUME store'.intents = store.intents, Completing(u)' => Completing(u) PROVE Goal
    BY <1>1
<1>2. ASSUME UNCHANGED admission PROVE Completing(u)' => Completing(u)
    BY <1>2 DEF Completing, Publishing
<1>3. ASSUME NEW x, store' = [store EXCEPT !.intents = x] PROVE store'.intents = x
    BY <1>0, <1>3 DEF Buckets
<1>4. ASSUME admission'.stage \notin {"recovered", "published"} PROVE ~Completing(u)'
    BY <1>4 DEF Completing, Publishing
<1>5. ASSUME NEW x \in Urls, PublishBegin(x) PROVE Goal
    <2>1. store' = store /\ admission'.stage = "recover"
        BY <1>5 DEF PublishBegin, Begin, Free
    <2> QED
        BY <1>4, <2>1
<1>6. ASSUME NEW x \in Urls, RecoverIntent(x) PROVE Goal
    <2>1. /\ store' = CompleteIntent(store, x, TRUE)
          /\ admission' = [admission EXCEPT !.stage = "recovered", !.intent = x]
        BY <1>6 DEF RecoverIntent
    <2>2. admission'.stage = "recovered" /\ admission'.intent = x
        BY <1>0, <2>1
    <2>3. Completing(u)' => u = x
        BY <2>2 DEF Completing, Publishing
    <2>4. Work(store', x) /\ store'.intents = store.intents
        BY <1>0, <2>1, IntentCompleted
    <2> QED
        BY <2>3, <2>4
<1>7. CASE RecoverRelease
    <2>1. /\ admission.stage = "recovered" /\ store'.intents = store.intents \ {admission.intent}
          /\ admission' = [admission EXCEPT !.stage = "recover", !.intent = NoUrl]
        BY <1>3, <1>7 DEF RecoverRelease
    <2>2. admission'.stage = "recover"
        BY <1>0, <2>1
    <2>3. u \in store.intents /\ u \notin store'.intents => Completing(u)
        BY <2>1 DEF Completing
    <2> QED
        BY <1>4, <2>2, <2>3
<1>8. ASSUME NEW stage, GoTo(stage) PROVE admission'.stage = stage
    BY <1>0, <1>8 DEF GoTo
<1>9. CASE Admit
    <2>1. store' = store /\ admission'.stage \in {"repair", "admitted"}
        BY <1>8, <1>9 DEF Admit
    <2> QED
        BY <1>4, <2>1
<1>10. CASE Repair
    <2>1. store' = Repaired(store, admission.url)
        BY <1>10 DEF Repair
    <2>2. store'.intents = store.intents
        BY <1>0, <2>1, RepairedGood DEF Repairs
    <2>3. admission'.stage \in {"none", "recover"}
        BY <1>8, <1>10 DEF Repair, Free
    <2> QED
        BY <1>4, <2>2, <2>3
<1>11. CASE PersistIntent
    <2>1. store'.intents = store.intents \cup {admission.url} /\ admission'.stage = "persisted"
        BY <1>3, <1>8, <1>11 DEF PersistIntent
    <2> QED
        BY <1>4, <2>1
<1>12. CASE PublishOrder
    <2>1. /\ admission.op = "publish" /\ store' = CompleteIntent(store, admission.url, FALSE)
          /\ admission' = [admission EXCEPT !.stage = "published"]
        BY <1>12 DEF PublishOrder, Publishing, GoTo
    <2>2. admission'.stage = "published" /\ admission'.url = admission.url
        BY <1>0, <2>1
    <2>3. Completing(u)' => u = admission.url
        BY <2>2 DEF Completing, Publishing
    <2>4. Work(store', admission.url) /\ store'.intents = store.intents
        BY <1>0, <2>1, IntentCompleted
    <2> QED
        BY <2>3, <2>4
<1>13. CASE PublishEnd
    <2>1. /\ Publishing("published") /\ store'.intents = store.intents \ {admission.url}
          /\ admission' = Free
        BY <1>3, <1>13 DEF PublishEnd
    <2>2. u \in store.intents /\ u \notin store'.intents => Completing(u)
        BY <2>1 DEF Completing
    <2>3. admission'.stage = "none"
        BY <2>1 DEF Free
    <2> QED
        BY <1>4, <2>2, <2>3
<1>14. CASE ClearBegin \/ ClearCutoff \/ AdmissionFails
    <2>1. store' = store /\ admission'.stage \in {"recover", "delete", "none"}
        <3>1. CASE ClearBegin
            BY <3>1 DEF ClearBegin, Begin, Free
        <3>2. CASE ClearCutoff
            BY <1>0, <3>2 DEF ClearCutoff
        <3>3. CASE AdmissionFails
            BY <3>3 DEF AdmissionFails, Free
        <3> QED
            BY <1>14, <3>1, <3>2, <3>3
    <2> QED
        BY <1>4, <2>1
<1>15. CASE ClearOrder
    <2>1. \/ store' = store /\ admission' = Free
          \/ admission' = admission /\ \E n : store' = Cleared(store, n)
        BY <1>15 DEF ClearOrder
    <2>2. store'.intents = store.intents
        BY <1>0, <2>1, IntentsAlone
    <2>3. admission' = admission \/ admission'.stage = "none"
        BY <2>1 DEF Free
    <2> QED
        BY <1>1, <1>2, <1>4, <2>2, <2>3
<1>16. ASSUME NEW l \in LeaseIds,
              \/ Claim(l) \/ NegativeAcknowledge(l) \/ Sweep(l) \/ Forget(l)
              \/ ResolveComplete(l)
              \/ \E terminal \in BOOLEAN : AcknowledgeStage(l, terminal)
       PROVE  Goal
    <2>1. /\ UNCHANGED admission
          /\ \/ store' = store
             \/ \E w : store' = Claimed(store, l, w)
             \/ store' = Deferred(store, l)
             \/ store' = Requeued(store, l)
             \/ store' = [store EXCEPT !.settlements = Delete(@, l)]
             \/ store' = CompleteSettlement(store, l)
             \/ \E terminal : store' = StageAcknowledgment(store, l, terminal)
        BY <1>16 DEF Claim, NegativeAcknowledge, Sweep, Forget, ResolveComplete, AcknowledgeStage
    <2>2. [store EXCEPT !.settlements = Delete(@, l)].intents = store.intents
        BY <1>0 DEF Buckets
    <2>3. store'.intents = store.intents
        <3>1. ASSUME NEW w, store' = Claimed(store, l, w) PROVE store'.intents = store.intents
            BY <1>0, <3>1, IntentsAlone
        <3>2. ASSUME NEW b, store' = StageAcknowledgment(store, l, b)
              PROVE  store'.intents = store.intents
            BY <1>0, <3>2, IntentsAlone
        <3>3. /\ Deferred(store, l).intents = store.intents
              /\ Requeued(store, l).intents = store.intents
              /\ CompleteSettlement(store, l).intents = store.intents
            BY <1>0, IntentsAlone
        <3> QED
            BY <2>1, <2>2, <3>1, <3>2, <3>3
    <2> QED
        BY <1>1, <1>2, <2>1, <2>3
<1>17. CASE AcknowledgeSettle \/ ResolveRelease \/ MutationFails \/ \E w \in Sessions : Adopt(w)
    <2>1. /\ UNCHANGED admission
          /\ \/ store' = store
             \/ \E l, b : store' = Acknowledge(store, l, b)
             \/ \E l : store' = [store EXCEPT !.staged = Delete(@, l)]
        BY <1>17 DEF AcknowledgeSettle, ResolveRelease, MutationFails, Adopt
    <2>2. \A l : [store EXCEPT !.staged = Delete(@, l)].intents = store.intents
        BY <1>0 DEF Buckets
    <2>3. store'.intents = store.intents
        <3>1. ASSUME NEW l, NEW b, store' = Acknowledge(store, l, b)
              PROVE  store'.intents = store.intents
            BY <1>0, <3>1, IntentsAlone
        <3> QED
            BY <2>1, <2>2, <3>1
    <2> QED
        BY <1>1, <1>2, <2>1, <2>3
<1>18. CASE ResolveEnd
    <2>1. admission' = admission \/ admission' = Free
        BY <1>18 DEF ResolveEnd
    <2>2. store' = store \/ \E f : store' = [store EXCEPT !.leases = f]
        BY <1>18 DEF ResolveEnd
    <2>3. store'.intents = store.intents
        BY <1>0, <2>2 DEF Buckets
    <2>4. admission' = admission \/ admission'.stage = "none"
        BY <2>1 DEF Free
    <2> QED
        BY <1>1, <1>2, <1>4, <2>3, <2>4
<1>19. CASE Crash
    <2>1. store' = store /\ admission'.stage = "recover"
        BY <1>19 DEF Crash, Free
    <2> QED
        BY <1>4, <2>1
<1>20. CASE OpenLeases
    <2>1. /\ store' = ReconcileLeases(store)
          /\ admission' = [admission EXCEPT !.stage = "settlements"]
        BY <1>20 DEF OpenLeases
    <2>2. store'.intents = store.intents /\ admission'.stage = "settlements"
        BY <1>0, <2>1, IntentsAlone
    <2> QED
        BY <1>4, <2>2
<1> QED
    BY <1>5, <1>6, <1>7, <1>9, <1>10, <1>11, <1>12, <1>13, <1>14, <1>15, <1>16, <1>17, <1>18,
       <1>19, <1>20 DEF Next

(* No accepted publication is lost, whatever fails, clears, claims and     *)
(* stops come between the intent and its order.                            *)
THEOREM PublicationsNeverLost == Spec => IntentsYieldWork
<1>1. Inv /\ [Next]_vars =>
          [\A u \in Urls :
              /\ u \in store.intents /\ u \notin store'.intents => Completing(u)
              /\ Completing(u)' /\ ~Completing(u) => Work(store', u)]_vars
    BY IntentStep
<1> QED
    BY <1>1, Invariance, PTL DEF Spec, IntentsYieldWork
=============================================================================
