--------------------------- MODULE IngestionProofs ---------------------------
(***************************************************************************)
(* What IngestChanges.cfg checks, proved for every number of devices, rows *)
(* and timestamps, size of the cache and scenario.  The invariants need    *)
(* that a page holds at most one latest reading of each kind, and that     *)
(* what the cache and the message in hand say of a row agrees with it as   *)
(* long as no device is deleted.                                           *)
(***************************************************************************)
EXTENDS Ingestion, TLAPS

Entries == [mac : Macs, id : Ids]

(* One thread, one page: each at one thing at a time, and a page says of each
   kind one latest reading. *)
OneAtATime ==
    /\ \A m, n \in message : m = n
    /\ \A d \in draft : d.by \in changes
    /\ \A d \in draft, k \in Kinds : \A s, t \in d.latest[k] : s = t

(* A device with readings points to one, none of them newer. *)
NewestSoFar ==
    changes \cap {"delete_reading", "edit"} = {} =>
        \A r \in readings : \E t \in latest[r.kind][r.id] : r.time <= t

(* The cache and the message in hand know the row there is. *)
CacheAgrees ==
    "delete_device" \notin changes =>
        /\ \A a \in DOMAIN cache : rows[cache[a].mac] = cache[a].id
        /\ \A m \in message : rows[m.mac] = m.id /\ m.row = m.id

IInv == TypeOK /\ OneAtATime /\ NothingDangles /\ NewestSoFar /\ CacheAgrees

-----------------------------------------------------------------------------
(* The cache. *)

LEMMA RemoveAtEffect ==
    ASSUME NEW S, NEW s \in Seq(S), NEW a \in 1..Len(s)
    PROVE  /\ RemoveAt(s, a) \in Seq(S)
           /\ Len(RemoveAt(s, a)) = Len(s) - 1
           /\ \A b \in 1..(Len(s) - 1) : RemoveAt(s, a)[b] = IF b < a THEN s[b] ELSE s[b + 1]
<1> DEFINE front == SubSeq(s, 1, a - 1)
           back == SubSeq(s, a + 1, Len(s))
<1>0. Len(s) \in Nat /\ a \in Nat /\ 1 <= a /\ a <= Len(s)
  OBVIOUS
<1>1. front \in Seq(S) /\ Len(front) = a - 1 /\ \A b \in 1..(a - 1) : front[b] = s[b]
  OBVIOUS
<1>2. /\ back \in Seq(S) /\ Len(back) = Len(s) - a
      /\ \A b \in 1..(Len(s) - a) : back[b] = s[a + b]
  OBVIOUS
<1> HIDE DEF front, back
<1>3. /\ front \o back \in Seq(S)
      /\ Len(front \o back) = Len(s) - 1
      /\ \A b \in 1..(Len(s) - 1) :
            (front \o back)[b] = IF b <= a - 1 THEN front[b] ELSE back[b - (a - 1)]
  <2>1. Len(front) + Len(back) = Len(s) - 1
    BY <1>0, <1>1, <1>2
  <2> QED
    BY <1>1, <1>2, <2>1
<1>4. ASSUME NEW b \in 1..(Len(s) - 1)
      PROVE  (front \o back)[b] = IF b < a THEN s[b] ELSE s[b + 1]
  <2>0. b \in Nat /\ 1 <= b /\ b <= Len(s) - 1
    BY <1>0
  <2>1. CASE b < a
    <3>1. b \in 1..(a - 1) /\ b <= a - 1
      BY <1>0, <2>0, <2>1
    <3> QED
      BY <1>1, <1>3, <2>1, <3>1
  <2>2. CASE ~(b < a)
    <3>1. /\ b - (a - 1) \in 1..(Len(s) - a) /\ a + (b - (a - 1)) = b + 1
          /\ ~(b <= a - 1)
      BY <1>0, <2>0, <2>2
    <3>2. back[b - (a - 1)] = s[b + 1]
      BY <1>2, <3>1
    <3> QED
      BY <1>3, <2>2, <3>1, <3>2
  <2> QED
    BY <2>1, <2>2
<1>5. RemoveAt(s, a) = front \o back
  BY DEF RemoveAt, front, back
<1> QED
  BY <1>3, <1>4, <1>5

(* A hit keeps the entries, in another order. *)
LEMMA HitEffect ==
    ASSUME TypeOK, NEW m \in Macs, NEW id \in Ids, Hit(m, id)
    PROVE  /\ cache' \in Seq(Entries) /\ Len(cache') = Len(cache)
           /\ \A b \in DOMAIN cache' : \E c \in DOMAIN cache : cache'[b] = cache[c]
           /\ \A b, c \in DOMAIN cache' : cache'[b].mac = cache'[c].mac => b = c
           /\ \E a \in DOMAIN cache : cache[a] = [mac |-> m, id |-> id]
<1>1. cache \in Seq(Entries) /\ Len(cache) \in Nat /\ DOMAIN cache = 1..Len(cache)
  BY DEF TypeOK, Entries
<1>2. PICK a \in 1..Len(cache) :
        cache[a] = [mac |-> m, id |-> id] /\ cache' = Append(RemoveAt(cache, a), cache[a])
  BY <1>1 DEF Hit
<1> DEFINE rest == RemoveAt(cache, a)
<1>3. /\ rest \in Seq(Entries)
      /\ Len(rest) = Len(cache) - 1
      /\ \A b \in 1..(Len(cache) - 1) : rest[b] = IF b < a THEN cache[b] ELSE cache[b + 1]
  BY <1>1, RemoveAtEffect
<1> HIDE DEF rest
<1>4. cache[a] \in Entries
  BY <1>1
<1>5. /\ cache' \in Seq(Entries) /\ Len(cache') = Len(cache)
      /\ \A b \in 1..(Len(cache) - 1) : cache'[b] = rest[b]
      /\ cache'[Len(cache)] = cache[a]
  <2>1. cache' = Append(rest, cache[a])
    BY <1>2 DEF rest
  <2>2. /\ cache' \in Seq(Entries) /\ Len(cache') = Len(rest) + 1
        /\ \A b \in 1..Len(rest) : cache'[b] = rest[b]
        /\ cache'[Len(rest) + 1] = cache[a]
    BY <1>3, <1>4, <2>1
  <2>3. Len(rest) + 1 = Len(cache)
    BY <1>1, <1>3
  <2> QED
    BY <1>3, <2>2, <2>3
<1> DEFINE from(b) == IF b = Len(cache) THEN a ELSE IF b < a THEN b ELSE b + 1
<1>6. \A b \in 1..Len(cache) : from(b) \in 1..Len(cache) /\ cache'[b] = cache[from(b)]
  <2>0. Len(cache) \in Nat
    BY <1>1
  <2>1. ASSUME NEW b \in 1..Len(cache), b = Len(cache)
        PROVE  from(b) \in 1..Len(cache) /\ cache'[b] = cache[from(b)]
    BY <1>5, <2>1
  <2>2. ASSUME NEW b \in 1..Len(cache), b # Len(cache)
        PROVE  from(b) \in 1..Len(cache) /\ cache'[b] = cache[from(b)]
    <3>1. b \in 1..(Len(cache) - 1)
      BY <2>0, <2>2
    <3>2. cache'[b] = rest[b] /\ rest[b] = IF b < a THEN cache[b] ELSE cache[b + 1]
      BY <1>3, <1>5, <3>1
    <3>3. from(b) = IF b < a THEN b ELSE b + 1
      BY <2>2
    <3>4. from(b) \in 1..Len(cache)
      BY <2>0, <3>1, <3>3
    <3>5. cache'[b] = cache[IF b < a THEN b ELSE b + 1]
      BY <3>2
    <3> QED
      BY <3>3, <3>4, <3>5
  <2> QED
    BY <2>1, <2>2
<1>7. \A b, c \in 1..Len(cache) : from(b) = from(c) => b = c
  <2>1. ASSUME NEW n \in Nat, NEW i \in 1..n, NEW b \in 1..n, NEW c \in 1..n,
               (IF b = n THEN i ELSE IF b < i THEN b ELSE b + 1)
                 = (IF c = n THEN i ELSE IF c < i THEN c ELSE c + 1)
        PROVE  b = c
    BY <2>1
  <2> QED
    BY <1>1, <2>1
<1>8. DOMAIN cache' = 1..Len(cache) /\ DOMAIN cache = 1..Len(cache)
  BY <1>1, <1>5
<1> HIDE DEF from
<1>9. \A b, c \in DOMAIN cache' : cache'[b].mac = cache'[c].mac => b = c
  <2>1. \A b, c \in 1..Len(cache) : cache[b].mac = cache[c].mac => b = c
    BY <1>8 DEF TypeOK
  <2>2. \A b, c \in 1..Len(cache) : cache'[b].mac = cache'[c].mac => from(b) = from(c)
    BY <1>6, <2>1
  <2> QED
    BY <1>7, <1>8, <2>2
<1>10. \A b \in DOMAIN cache' : \E c \in DOMAIN cache : cache'[b] = cache[c]
  BY <1>6, <1>8
<1> QED
  BY <1>2, <1>5, <1>8, <1>9, <1>10

(* A miss adds the row there is, in the place of the oldest if need be. *)
LEMMA MissEffect ==
    ASSUME IngestionConstants, TypeOK, NEW m \in Macs, NEW id \in Ids, Miss(m, id)
    PROVE  /\ cache' \in Seq(Entries) /\ Len(cache') <= CacheSize
           /\ \A b \in DOMAIN cache' :
                 cache'[b] = Entry(m) \/ \E c \in DOMAIN cache : cache'[b] = cache[c]
           /\ \A b, c \in DOMAIN cache' : cache'[b].mac = cache'[c].mac => b = c
           /\ id = rows[m] /\ Entry(m) = [mac |-> m, id |-> id]
<1> DEFINE kept == IF Len(cache) < CacheSize THEN cache ELSE Tail(cache)
           shift == IF Len(cache) < CacheSize THEN 0 ELSE 1
<1>1. cache \in Seq(Entries) /\ Len(cache) \in Nat /\ CacheSize \in Nat \ {0}
      /\ Len(cache) <= CacheSize
  BY DEF TypeOK, Entries, IngestionConstants
<1>2. /\ kept \in Seq(Entries)
      /\ Len(kept) = Len(cache) - shift
      /\ \A b \in 1..(Len(cache) - shift) : kept[b] = cache[b + shift]
  <2>1. CASE Len(cache) < CacheSize
    BY <1>1, <2>1
  <2>2. CASE ~(Len(cache) < CacheSize)
    <3>1. cache # <<>>
      BY <1>1, <2>2
    <3> QED
      BY <1>1, <2>2, <3>1
  <2> QED
    BY <2>1, <2>2
<1>3. shift \in {0, 1} /\ Len(cache) - shift \in Nat /\ Len(cache) - shift < CacheSize
  BY <1>1
<1>4. id = rows[m] /\ Entry(m) = [mac |-> m, id |-> id] /\ Entry(m) \in Entries
  BY DEF Miss, Entry, Entries
<1>5. cache' = Append(kept, Entry(m))
  BY DEF Miss
<1> HIDE DEF kept, shift
<1> DEFINE n == Len(cache) - shift
<1>6. /\ cache' \in Seq(Entries) /\ Len(cache') = n + 1 /\ DOMAIN cache' = 1..(n + 1)
      /\ \A b \in 1..n : cache'[b] = cache[b + shift]
      /\ cache'[n + 1] = Entry(m)
  BY <1>2, <1>3, <1>4, <1>5
<1>7. \A b \in 1..n : b + shift \in DOMAIN cache
  BY <1>1, <1>3
<1>8. \A c \in DOMAIN cache : cache[c].mac # m
  BY DEF Miss, CachedIds
<1>9. \A b, c \in DOMAIN cache' : cache'[b].mac = cache'[c].mac => b = c
  <2>1. \A b \in 1..n : cache'[b].mac # m
    BY <1>6, <1>7, <1>8
  <2>2. \A b, c \in 1..n : cache'[b].mac = cache'[c].mac => b = c
    <3>1. \A b, c \in 1..n : cache'[b].mac = cache'[c].mac => b + shift = c + shift
      BY <1>6, <1>7 DEF TypeOK
    <3> QED
      BY <1>3, <3>1
  <2>3. cache'[n + 1].mac = m
    BY <1>4, <1>6
  <2>4. \A b \in DOMAIN cache' : b \in 1..n \/ b = n + 1
    BY <1>3, <1>6
  <2> QED
    BY <2>1, <2>2, <2>3, <2>4
<1>10. \A b \in DOMAIN cache' :
          cache'[b] = Entry(m) \/ \E c \in DOMAIN cache : cache'[b] = cache[c]
  BY <1>3, <1>6, <1>7
<1> QED
  BY <1>3, <1>4, <1>6, <1>9, <1>10

-----------------------------------------------------------------------------
LEMMA InitIInv ==
    ASSUME IngestionConstants, Init
    PROVE  IInv
<1>1. TypeOK
  <2>1. cache \in Seq(Entries) /\ Len(cache) = 0 /\ DOMAIN cache = {}
    BY DEF Init
  <2>2. Len(cache) <= CacheSize
    BY <2>1 DEF IngestionConstants
  <2>3. MaxId \in Nat
    BY DEF IngestionConstants
  <2> QED
    BY <2>1, <2>2, <2>3 DEF Init, TypeOK, Entries
<1>2. OneAtATime /\ NothingDangles /\ NewestSoFar /\ CacheAgrees
  BY DEF Init, OneAtATime, NothingDangles, NewestSoFar, CacheAgrees
<1> QED
  BY <1>1, <1>2 DEF IInv

LEMMA ReceiveKeeps ==
    ASSUME IngestionConstants, IInv, NEW m \in Macs, NEW k \in Kinds, NEW t \in Times,
           Receive(m, k, t), UNCHANGED changes
    PROVE  IInv'
<1>1. PICK i \in Ids :
        /\ Hit(m, i) \/ Miss(m, i)
        /\ message' = {[mac |-> m, kind |-> k, time |-> t, id |-> i, row |-> rows[m]]}
  BY DEF Receive
<1>2. UNCHANGED <<rows, created, readings, latest, draft>>
  BY DEF Receive
<1>3. /\ cache' \in Seq(Entries) /\ Len(cache') <= CacheSize
      /\ \A b, c \in DOMAIN cache' : cache'[b].mac = cache'[c].mac => b = c
  BY <1>1, HitEffect, MissEffect DEF IInv, TypeOK
<1>4. TypeOK'
  BY <1>1, <1>2, <1>3 DEF IInv, TypeOK, Entries, Messages
<1>5. OneAtATime'
  BY <1>1, <1>2 DEF IInv, OneAtATime
<1>6. NothingDangles' /\ NewestSoFar'
  BY <1>2 DEF IInv, NothingDangles, NewestSoFar, Exists
<1>7. CacheAgrees'
  <2>1. SUFFICES ASSUME "delete_device" \notin changes
                 PROVE  /\ \A a \in DOMAIN cache' : rows[cache'[a].mac] = cache'[a].id
                        /\ rows[m] = i
    BY <1>1, <1>2 DEF CacheAgrees
  <2>2. \A a \in DOMAIN cache : rows[cache[a].mac] = cache[a].id
    BY <2>1 DEF IInv, CacheAgrees
  <2>3. CASE Hit(m, i)
    <3>1. /\ \A b \in DOMAIN cache' : \E c \in DOMAIN cache : cache'[b] = cache[c]
          /\ \E a \in DOMAIN cache : cache[a] = [mac |-> m, id |-> i]
      BY <2>3, HitEffect DEF IInv
    <3> QED
      BY <2>2, <3>1
  <2>4. CASE Miss(m, i)
    BY <2>2, <2>4, MissEffect DEF IInv
  <2> QED
    BY <1>1, <2>3, <2>4
<1> QED
  BY <1>4, <1>5, <1>6, <1>7 DEF IInv

(* The reading stored last is the latest if it is as new as the latest was. *)
LEMMA StoreKeeps ==
    ASSUME IngestionConstants, IInv, Store, UNCHANGED changes
    PROVE  IInv'
<1>1. PICK m \in message :
        /\ Exists(m.id)
        /\ readings' = readings \cup {[kind |-> m.kind, id |-> m.id, time |-> m.time]}
        /\ latest' = IF IsLatest(m.kind, m.id, m.time)
                     THEN [latest EXCEPT ![m.kind][m.id] = {m.time}]
                     ELSE latest
  BY DEF Store
<1>2. message' = {} /\ UNCHANGED <<rows, created, cache, draft>>
  BY DEF Store
<1>3. m.kind \in Kinds /\ m.id \in Ids /\ m.time \in Times
  BY DEF IInv, TypeOK, Messages
<1>4. Times \subseteq Nat
  BY DEF Times, IngestionConstants
<1>5. /\ latest' \in [Kinds -> [Ids -> SUBSET Times]]
      /\ \A k \in Kinds, i \in Ids : latest'[k][i] =
            IF k = m.kind /\ i = m.id /\ IsLatest(m.kind, m.id, m.time)
            THEN {m.time} ELSE latest[k][i]
  BY <1>1, <1>3 DEF IInv, TypeOK
<1>6. TypeOK'
  BY <1>1, <1>2, <1>3, <1>5 DEF IInv, TypeOK, Readings
<1>7. OneAtATime' /\ CacheAgrees'
  BY <1>2 DEF IInv, OneAtATime, CacheAgrees
<1>8. NothingDangles'
  BY <1>1, <1>2, <1>3, <1>5 DEF IInv, NothingDangles, Exists
<1>9. NewestSoFar'
  <2>1. SUFFICES ASSUME changes \cap {"delete_reading", "edit"} = {}, NEW r \in readings'
                 PROVE  \E t \in latest'[r.kind][r.id] : r.time <= t
    BY DEF NewestSoFar
  <2>2. r \in Readings
    BY <1>6 DEF TypeOK
  <2>3. ~IsLatest(m.kind, m.id, m.time) => \E s \in latest[m.kind][m.id] : m.time <= s
    <3>1. m.time \in Nat
      BY <1>3, <1>4
    <3>2. latest[m.kind][m.id] \subseteq Times
      BY <1>3 DEF IInv, TypeOK
    <3>3. \A s \in latest[m.kind][m.id] : s \in Nat
      BY <1>4, <3>2
    <3> QED
      BY <3>1, <3>3 DEF IsLatest
  <2>4. CASE r \in readings
    <3>1. PICK t \in latest[r.kind][r.id] : r.time <= t
      BY <2>1, <2>4 DEF IInv, NewestSoFar
    <3>2. {r.time, t, m.time} \subseteq Nat
      <4>1. r.kind \in Kinds /\ r.id \in Ids /\ r.time \in Times
        BY <2>2 DEF Readings
      <4>2. latest[r.kind][r.id] \subseteq Times
        BY <4>1 DEF IInv, TypeOK
      <4> QED
        BY <1>3, <1>4, <3>1, <4>1, <4>2
    <3>3. CASE r.kind = m.kind /\ r.id = m.id /\ IsLatest(m.kind, m.id, m.time)
      <4>1. t <= m.time
        BY <3>1, <3>3 DEF IsLatest
      <4>2. r.time <= m.time
        BY <3>1, <3>2, <4>1
      <4>3. latest'[r.kind][r.id] = {m.time}
        BY <1>3, <1>5, <3>3
      <4> QED
        BY <4>2, <4>3
    <3>4. CASE ~(r.kind = m.kind /\ r.id = m.id /\ IsLatest(m.kind, m.id, m.time))
      BY <1>5, <2>2, <3>1, <3>4 DEF Readings
    <3> QED
      BY <3>3, <3>4
  <2>5. CASE r = [kind |-> m.kind, id |-> m.id, time |-> m.time]
    <3>1. CASE IsLatest(m.kind, m.id, m.time)
      <4>1. m.time <= m.time
        <5>1. m.time \in Nat
          BY <1>3, <1>4
        <5> QED
          BY <5>1
      <4>2. latest'[r.kind][r.id] = {m.time} /\ r.time = m.time
        BY <1>3, <1>5, <2>5, <3>1
      <4> QED
        BY <4>1, <4>2
    <3>2. CASE ~IsLatest(m.kind, m.id, m.time)
      BY <1>3, <1>5, <2>3, <2>5, <3>2
    <3> QED
      BY <3>1, <3>2
  <2> QED
    BY <1>1, <2>4, <2>5
<1> QED
  BY <1>6, <1>7, <1>8, <1>9 DEF IInv

LEMMA RefuseKeeps ==
    ASSUME IInv, Refuse, UNCHANGED changes
    PROVE  IInv'
BY DEF IInv, TypeOK, OneAtATime, NothingDangles, NewestSoFar, CacheAgrees, Exists, Refuse

LEMMA RestartKeeps ==
    ASSUME IngestionConstants, IInv, Restart, UNCHANGED changes
    PROVE  IInv'
<1>1. cache' \in Seq(Entries) /\ Len(cache') = 0 /\ DOMAIN cache' = {} /\ message' = {}
  BY DEF Restart
<1>2. Len(cache') <= CacheSize
  BY <1>1 DEF IngestionConstants
<1>3. UNCHANGED <<rows, created, readings, latest, draft>>
  BY DEF Restart
<1>4. TypeOK'
  BY <1>1, <1>2, <1>3 DEF IInv, TypeOK, Entries
<1>5. OneAtATime' /\ NothingDangles' /\ NewestSoFar' /\ CacheAgrees'
  BY <1>1, <1>3 DEF IInv, OneAtATime, NothingDangles, NewestSoFar, CacheAgrees, Exists
<1> QED
  BY <1>4, <1>5 DEF IInv

-----------------------------------------------------------------------------
(* A new row has an id of its own, and no device loses the one it had. *)
LEMMA CreateDeviceKeeps ==
    ASSUME IngestionConstants, IInv, NEW m \in Macs, CreateDevice(m), UNCHANGED changes
    PROVE  IInv'
<1>1. /\ rows[m] = 0 /\ created < MaxId
      /\ created' = created + 1
      /\ rows' = [rows EXCEPT ![m] = created + 1]
      /\ UNCHANGED <<readings, latest, cache, message, draft>>
  BY DEF CreateDevice
<1>2. MaxId \in Nat /\ created \in 0..MaxId
  BY DEF IngestionConstants, IInv, TypeOK
<1>3. created + 1 \in 0..MaxId
  BY <1>1, <1>2
<1>4. TypeOK'
  BY <1>1, <1>3 DEF IInv, TypeOK
<1>5. \A i \in Ids : i # 0
  BY DEF Ids
<1>6. \A n \in Macs : rows[n] # 0 => rows'[n] = rows[n]
  BY <1>1 DEF IInv, TypeOK
<1>7. OneAtATime' /\ NewestSoFar'
  BY <1>1 DEF IInv, OneAtATime, NewestSoFar
<1>8. NothingDangles'
  <2>1. \A r \in readings : r.id # 0
    BY <1>5 DEF IInv, TypeOK, Readings
  <2> QED
    BY <1>1, <1>6, <2>1 DEF IInv, NothingDangles, Exists
<1>9. CacheAgrees'
  <2>1. \A a \in DOMAIN cache : cache[a].mac \in Macs /\ cache[a].id # 0
    <3>1. \A a \in DOMAIN cache : cache[a] \in Entries
      <4>1. cache \in Seq(Entries)
        BY DEF IInv, TypeOK, Entries
      <4> QED
        BY <4>1
    <3> QED
      BY <1>5, <3>1 DEF Entries
  <2>2. \A n \in message : n.mac \in Macs /\ n.id # 0
    BY <1>5 DEF IInv, TypeOK, Messages
  <2> QED
    BY <1>1, <1>6, <2>1, <2>2 DEF IInv, CacheAgrees
<1> QED
  BY <1>4, <1>7, <1>8, <1>9 DEF IInv

(* A row takes its readings with it and leaves the others theirs. *)
LEMMA DeleteDeviceKeeps ==
    ASSUME IngestionConstants, IInv, NEW m \in Macs, DeleteDevice(m), UNCHANGED changes
    PROVE  IInv'
<1>1. /\ "delete_device" \in changes /\ rows[m] # 0
      /\ rows' = [rows EXCEPT ![m] = 0]
      /\ readings' = {r \in readings : r.id # rows[m]}
      /\ latest' = [k \in Kinds |-> [latest[k] EXCEPT ![rows[m]] = {}]]
      /\ UNCHANGED <<created, cache, message, draft>>
  BY DEF DeleteDevice
<1>2. rows[m] \in Ids /\ rows' \in [Macs -> 0..MaxId]
  BY <1>1 DEF IInv, TypeOK, Ids, IngestionConstants
<1>3. /\ latest' \in [Kinds -> [Ids -> SUBSET Times]]
      /\ \A k \in Kinds, i \in Ids :
            latest'[k][i] = IF i = rows[m] THEN {} ELSE latest[k][i]
  BY <1>1, <1>2 DEF IInv, TypeOK
<1>4. TypeOK'
  BY <1>1, <1>2, <1>3 DEF IInv, TypeOK
<1>5. OneAtATime' /\ CacheAgrees'
  BY <1>1 DEF IInv, OneAtATime, CacheAgrees
<1>6. \A r \in readings : r.kind \in Kinds /\ r.id \in Ids
  BY DEF IInv, TypeOK, Readings
<1>7. NothingDangles'
  <2>1. \A k \in Kinds, i \in Ids : \A t \in latest'[k][i] :
          [kind |-> k, id |-> i, time |-> t] \in readings'
    BY <1>1, <1>3 DEF IInv, NothingDangles
  <2>2. \A r \in readings' : Exists(r.id)'
    BY <1>1, <1>2 DEF IInv, TypeOK, NothingDangles, Exists
  <2> QED
    BY <2>1, <2>2 DEF NothingDangles
<1>8. NewestSoFar'
  BY <1>1, <1>3, <1>6 DEF IInv, NewestSoFar
<1> QED
  BY <1>4, <1>5, <1>7, <1>8 DEF IInv

LEMMA DeleteReadingKeeps ==
    ASSUME IInv, NEW q \in readings, DeleteReading(q), UNCHANGED changes
    PROVE  IInv'
<1>1. /\ "delete_reading" \in changes
      /\ readings' = readings \ {q}
      /\ latest' = [latest EXCEPT ![q.kind][q.id] = latest[q.kind][q.id] \ {q.time}]
      /\ UNCHANGED <<rows, created, cache, message, draft>>
  BY DEF DeleteReading
<1>2. q.kind \in Kinds /\ q.id \in Ids /\ q = [kind |-> q.kind, id |-> q.id, time |-> q.time]
  BY DEF IInv, TypeOK, Readings
<1>3. /\ latest' \in [Kinds -> [Ids -> SUBSET Times]]
      /\ \A k \in Kinds, i \in Ids : latest'[k][i] =
            IF k = q.kind /\ i = q.id THEN latest[k][i] \ {q.time} ELSE latest[k][i]
  <2>1. latest \in [Kinds -> [Ids -> SUBSET Times]]
    BY DEF IInv, TypeOK
  <2>2. latest[q.kind][q.id] \ {q.time} \in SUBSET Times
    BY <1>2, <2>1
  <2> DEFINE left == latest[q.kind][q.id] \ {q.time}
  <2>3. latest' = [latest EXCEPT ![q.kind] = [latest[q.kind] EXCEPT ![q.id] = left]]
    BY <1>1
  <2> HIDE DEF left
  <2>4. left \in SUBSET Times
    BY <2>2 DEF left
  <2>5. /\ latest' \in [Kinds -> [Ids -> SUBSET Times]]
        /\ \A k \in Kinds, i \in Ids :
              latest'[k][i] = IF k = q.kind /\ i = q.id THEN left ELSE latest[k][i]
    BY <1>2, <2>1, <2>3, <2>4
  <2> QED
    BY <2>5 DEF left
<1>4. TypeOK'
  BY <1>1, <1>3 DEF IInv, TypeOK
<1>5. OneAtATime' /\ CacheAgrees'
  BY <1>1 DEF IInv, OneAtATime, CacheAgrees
<1>6. NothingDangles'
  <2>1. \A k \in Kinds, i \in Ids : \A t \in latest'[k][i] :
          [kind |-> k, id |-> i, time |-> t] \in readings'
    <3>1. SUFFICES ASSUME NEW k \in Kinds, NEW i \in Ids, NEW t \in latest'[k][i]
                   PROVE  [kind |-> k, id |-> i, time |-> t] \in readings'
      OBVIOUS
    <3>2. t \in latest[k][i] /\ ~(k = q.kind /\ i = q.id /\ t = q.time)
      BY <1>3
    <3>3. [kind |-> k, id |-> i, time |-> t] \in readings
      BY <3>2 DEF IInv, NothingDangles
    <3>4. [kind |-> k, id |-> i, time |-> t] # q
      BY <3>2
    <3> QED
      BY <1>1, <3>3, <3>4
  <2> QED
    BY <1>1, <2>1 DEF IInv, NothingDangles, Exists
<1>7. NewestSoFar'
  BY <1>1 DEF NewestSoFar
<1> QED
  BY <1>4, <1>5, <1>6, <1>7 DEF IInv

-----------------------------------------------------------------------------
LEMMA ReadDeviceKeeps ==
    ASSUME IngestionConstants, IInv, NEW m \in Macs, NEW by \in {"edit", "visibility"},
           ReadDevice(m, by), UNCHANGED changes
    PROVE  IInv'
<1>1. /\ by \in changes /\ rows[m] # 0
      /\ draft' = {[by |-> by, id |-> rows[m], latest |-> [k \in Kinds |-> latest[k][rows[m]]]]}
      /\ UNCHANGED <<rows, created, readings, latest, cache, message>>
  BY DEF ReadDevice
<1>2. rows[m] \in Ids
  BY <1>1 DEF IInv, TypeOK, Ids, IngestionConstants
<1>3. [k \in Kinds |-> latest[k][rows[m]]] \in [Kinds -> SUBSET Times]
  BY <1>2 DEF IInv, TypeOK
<1>4. TypeOK'
  BY <1>1, <1>2, <1>3 DEF IInv, TypeOK, Drafts
<1>5. OneAtATime'
  BY <1>1, <1>2 DEF IInv, TypeOK, OneAtATime
<1>6. NothingDangles' /\ NewestSoFar' /\ CacheAgrees'
  BY <1>1 DEF IInv, NothingDangles, NewestSoFar, CacheAgrees, Exists
<1> QED
  BY <1>4, <1>5, <1>6 DEF IInv

(* An edit restores what its page showed, if all of it is still there. *)
LEMMA SaveDeviceKeeps ==
    ASSUME IInv, SaveDevice, UNCHANGED changes
    PROVE  IInv'
<1>1. PICK d \in draft :
        /\ d.by = "edit"
        /\ latest' = IF Exists(d.id) /\ \A k \in Kinds : \A t \in d.latest[k] :
                             [kind |-> k, id |-> d.id, time |-> t] \in readings
                     THEN [k \in Kinds |-> [latest[k] EXCEPT ![d.id] = d.latest[k]]]
                     ELSE latest
  BY DEF SaveDevice
<1>2. draft' = {} /\ UNCHANGED <<rows, created, readings, cache, message>>
  BY DEF SaveDevice
<1>3. d.id \in Ids /\ d.latest \in [Kinds -> SUBSET Times] /\ "edit" \in changes
  BY <1>1 DEF IInv, TypeOK, Drafts, OneAtATime
<1>4. /\ latest' \in [Kinds -> [Ids -> SUBSET Times]]
      /\ \A k \in Kinds, i \in Ids :
            \/ latest'[k][i] = latest[k][i]
            \/ /\ i = d.id /\ latest'[k][i] = d.latest[k]
               /\ \A t \in d.latest[k] : [kind |-> k, id |-> i, time |-> t] \in readings
  BY <1>1, <1>3 DEF IInv, TypeOK
<1>5. \A k \in Kinds, i \in Ids : \A s, t \in latest'[k][i] : s = t
  BY <1>4 DEF IInv, TypeOK, OneAtATime
<1>6. TypeOK'
  BY <1>2, <1>4, <1>5 DEF IInv, TypeOK
<1>7. OneAtATime' /\ CacheAgrees' /\ NewestSoFar'
  BY <1>2, <1>3 DEF IInv, OneAtATime, CacheAgrees, NewestSoFar
<1>8. NothingDangles'
  BY <1>2, <1>4 DEF IInv, NothingDangles, Exists
<1> QED
  BY <1>6, <1>7, <1>8 DEF IInv

LEMMA SaveVisibilityKeeps ==
    ASSUME IInv, SaveVisibility, UNCHANGED changes
    PROVE  IInv'
BY DEF IInv, TypeOK, OneAtATime, NothingDangles, NewestSoFar, CacheAgrees, Exists, SaveVisibility

LEMMA StutterIInv ==
    ASSUME IInv, UNCHANGED vars
    PROVE  IInv'
BY DEF IInv, TypeOK, OneAtATime, NothingDangles, NewestSoFar, CacheAgrees, Exists, vars

LEMMA NextIInv ==
    ASSUME IngestionConstants, IInv, Next
    PROVE  IInv'
<1>0. UNCHANGED changes
  BY DEF Next
<1>1. CASE \E m \in Macs, k \in Kinds, t \in Times : Receive(m, k, t)
  BY <1>0, <1>1, ReceiveKeeps
<1>2. CASE \E m \in Macs : Drop(m) \/ CreateDevice(m) \/ DeleteDevice(m)
  <2>1. ASSUME NEW m \in Macs, Drop(m)
        PROVE  UNCHANGED vars
    BY <1>0, <2>1 DEF Drop, vars
  <2> QED
    BY <1>0, <1>2, <2>1, CreateDeviceKeeps, DeleteDeviceKeeps, StutterIInv
<1>3. CASE \E m \in Macs, by \in {"edit", "visibility"} : ReadDevice(m, by)
  BY <1>0, <1>3, ReadDeviceKeeps
<1>4. CASE Store \/ Refuse \/ Restart \/ SaveDevice \/ SaveVisibility
  BY <1>0, <1>4, StoreKeeps, RefuseKeeps, RestartKeeps, SaveDeviceKeeps, SaveVisibilityKeeps
<1>5. CASE \E q \in readings : DeleteReading(q)
  BY <1>0, <1>5, DeleteReadingKeeps
<1> QED
  BY <1>1, <1>2, <1>3, <1>4, <1>5 DEF Next, Step

LEMMA Invariance == Spec => []IInv
BY InitIInv, NextIInv, StutterIInv, IngestionConstants, PTL DEF Spec

-----------------------------------------------------------------------------
(* The types are kept: the cache never outgrows its size, nor holds a device
   twice, and a device has at most one latest reading of a kind. *)
THEOREM TypesKept == Spec => []TypeOK
<1>1. IInv => TypeOK
  BY DEF IInv
<1> QED
  BY <1>1, Invariance, PTL

(* Whoever deletes devices or readings, or saves a page read earlier, leaves no
   pointer to a row that is gone. *)
THEOREM PointersHold == Spec => []NothingDangles
<1>1. IInv => NothingDangles
  BY DEF IInv
<1> QED
  BY <1>1, Invariance, PTL

LEMMA MaxOf ==
    ASSUME NEW S \in SUBSET Nat, NEW t \in S, \A s \in S : s <= t
    PROVE  Max(S) = t
<1>1. \A y \in S : t >= y
  OBVIOUS
<1>2. \E x \in S : \A y \in S : x >= y
  BY <1>1
<1>3. Max(S) \in S /\ \A y \in S : Max(S) >= y
  BY <1>2 DEF Max
<1>4. Max(S) \in Nat /\ t \in Nat /\ Max(S) >= t /\ t >= Max(S)
  BY <1>1, <1>3
<1> QED
  BY <1>4

(* In whatever order readings arrive and however often, the latest one is the
   newest stored, unless a reading is deleted or a page of the admin site saved. *)
THEOREM NewestIsShown == Spec => []LatestIsNewest
<1>1. ASSUME IInv
      PROVE  LatestIsNewest
  <2>1. SUFFICES ASSUME changes \cap {"delete_reading", "edit"} = {}, NEW k \in Kinds,
                        NEW i \in Ids
                 PROVE  LET times == {r.time : r \in {q \in readings : q.kind = k /\ q.id = i}}
                        IN  latest[k][i] = IF times = {} THEN {} ELSE {Max(times)}
    BY DEF LatestIsNewest
  <2> DEFINE times == {r.time : r \in {q \in readings : q.kind = k /\ q.id = i}}
  <2>2. times \subseteq Nat
    BY <1>1, IngestionConstants DEF IInv, TypeOK, Readings, Times, IngestionConstants
  <2>3. \A s \in times : \E t \in latest[k][i] : s <= t
    BY <1>1, <2>1 DEF IInv, NewestSoFar
  <2>4. latest[k][i] \subseteq times /\ \A s, t \in latest[k][i] : s = t
    <3>1. ASSUME NEW t \in latest[k][i]
          PROVE  t \in times
      <4>1. [kind |-> k, id |-> i, time |-> t] \in readings
        BY <1>1 DEF IInv, NothingDangles
      <4> QED
        BY <4>1
    <3> QED
      BY <1>1, <3>1 DEF IInv, TypeOK
  <2>5. ASSUME NEW t \in latest[k][i]
        PROVE  Max(times) = t /\ latest[k][i] = {t} /\ times # {}
    <3>1. \A s \in times : s <= t
      BY <2>3, <2>4
    <3> QED
      BY <2>2, <2>4, <3>1, MaxOf
  <2> QED
    BY <2>3, <2>5
<1> QED
  BY <1>1, Invariance, PTL

(* The cache never gives a message the row of another device: as long as no
   device is deleted, a message of a registered one is stored for it, or lost
   with the process. *)
THEOREM StoredForItsRow == Spec => StoredForItsDevice
<1>1. ASSUME IInv, [Next]_vars, NEW m \in message,
             message' = {}, m.row # 0, "delete_device" \notin changes
      PROVE  \/ readings' = readings \cup {[kind |-> m.kind, id |-> m.row, time |-> m.time]}
             \/ "restart" \in changes /\ cache' = <<>> /\ UNCHANGED readings
  <2>1. m.row = m.id /\ Exists(m.id) /\ \A n \in message : n = m
    BY <1>1 DEF IInv, TypeOK, Messages, CacheAgrees, OneAtATime, Exists
  <2>2. Store \/ Refuse \/ Restart
    BY <1>1 DEF Next, Step, vars, Receive, Drop, CreateDevice, DeleteDevice, ReadDevice,
                SaveDevice, SaveVisibility, DeleteReading
  <2> QED
    BY <2>1, <2>2 DEF Store, Refuse, Restart
<1>2. ASSUME IInv, [Next]_vars
      PROVE  [\A m \in message :
                message' = {} /\ m.row # 0 /\ "delete_device" \notin changes =>
                  \/ readings' = readings \cup {[kind |-> m.kind, id |-> m.row, time |-> m.time]}
                  \/ "restart" \in changes /\ cache' = <<>> /\ UNCHANGED readings]_vars
  BY <1>1, <1>2
<1> QED
  BY <1>2, Invariance, PTL DEF Spec, StoredForItsDevice
=============================================================================
