----------------------------- MODULE Ingestion -----------------------------
(***************************************************************************)
(* The ingestion process: one thread that stores the readings devices send *)
(* and keeps each device's latest one, while the web process creates and   *)
(* saves rows underneath, and the admin site edits and deletes them.  The  *)
(* id of a device's row is kept in an LRU cache that nothing invalidates.  *)
(*                                                                         *)
(* Readings arrive in any order and any number of times (QoS 1, an outbox  *)
(* kept through disconnections), so a message is any time of any device.   *)
(***************************************************************************)
EXTENDS Naturals, Sequences, SequencesExt, FiniteSetsExt

CONSTANTS
    Macs,
    Kinds,       \* the two kinds of reading, handled alike
    MaxTime,     \* bound: timestamps are 1..MaxTime
    MaxId,       \* bound: the Device rows ever created
    CacheSize,   \* lru_cache's maxsize
    Scenarios    \* sets of what happens underneath

ChangeKinds ==
    {"delete_device",    \* on the admin site
     "delete_reading",   \* on the admin site
     "edit",             \* on the admin site
     "visibility",       \* IaqDeviceSetVisibilityView
     "restart"}          \* the process ends and its container restarts it

ASSUME IngestionConstants ==
    /\ {MaxTime, MaxId, CacheSize} \subseteq Nat \ {0}
    /\ Scenarios \subseteq SUBSET ChangeKinds

VARIABLES
    changes,     \* the scenario, fixed throughout
    rows,       \* per mac: the id of its Device row, 0 for none
    created,    \* the Device rows created so far; ids are not reused
    readings,   \* the rows of SensorReading and HealthReading
    latest,     \* per kind and id: the reading the Device row points to, or {}
    cache,      \* _get_device_id's: pairs of mac and id, the oldest first
    message,    \* the message between its look-up and its transaction, or {}
    draft       \* the Device row as read by a view that is to save it, or {}

vars == <<changes, rows, created, readings, latest, cache, message, draft>>

Ids == 1..MaxId
Times == 1..MaxTime
Readings == [kind : Kinds, id : Ids, time : Times]
Messages == [mac : Macs, kind : Kinds, time : Times, id : Ids, row : 0..MaxId]
Drafts == [by : {"edit", "visibility"}, id : Ids, latest : [Kinds -> SUBSET Times]]

TypeOK ==
    /\ changes \in Scenarios
    /\ rows \in [Macs -> 0..MaxId]
    /\ created \in 0..MaxId
    /\ readings \subseteq Readings
    /\ latest \in [Kinds -> [Ids -> SUBSET Times]]
    /\ \A k \in Kinds, i \in Ids : \A s, t \in latest[k][i] : s = t
    /\ cache \in Seq([mac : Macs, id : Ids])
    /\ Len(cache) <= CacheSize
    /\ \A a, b \in DOMAIN cache : cache[a].mac = cache[b].mac => a = b
    /\ message \subseteq Messages
    /\ draft \subseteq Drafts

Init ==
    /\ changes \in Scenarios
    /\ rows = [m \in Macs |-> 0]
    /\ created = 0
    /\ readings = {}
    /\ latest = [k \in Kinds |-> [i \in Ids |-> {}]]
    /\ cache = <<>>
    /\ message = {}
    /\ draft = {}

-----------------------------------------------------------------------------
(* _get_device_id *)
Entry(m) == [mac |-> m, id |-> rows[m]]

CachedIds(m) == {cache[a].id : a \in {b \in DOMAIN cache : cache[b].mac = m}}

(* Mutant: the id of whichever device was looked up last. *)
HitAny(m, id) ==
    /\ cache # <<>>
    /\ id = Last(cache).id
    /\ UNCHANGED cache

(* A hit moves its entry to the end. *)
Hit(m, id) ==
    \E a \in DOMAIN cache :
        /\ cache[a] = [mac |-> m, id |-> id]
        /\ cache' = Append(RemoveAt(cache, a), cache[a])

(* Mutant: a full cache keeps its oldest entry too. *)
MissUnbounded(m, id) ==
    /\ CachedIds(m) = {} /\ rows[m] # 0
    /\ id = rows[m]
    /\ cache' = Append(cache, Entry(m))

Miss(m, id) ==
    /\ CachedIds(m) = {} /\ rows[m] # 0
    /\ id = rows[m]
    /\ cache' = Append(IF Len(cache) < CacheSize THEN cache ELSE Tail(cache), Entry(m))

(* A reading arrives and its device is looked up. *)
Receive(m, k, t) ==
    /\ message = {}
    /\ \E i \in Ids :
          /\ Hit(m, i) \/ Miss(m, i)
          /\ message' = {[mac |-> m, kind |-> k, time |-> t, id |-> i, row |-> rows[m]]}
    /\ UNCHANGED <<rows, created, readings, latest, draft>>

(* Device.DoesNotExist: the message is dropped, and nothing is remembered. *)
Drop(m) ==
    /\ message = {} /\ CachedIds(m) = {} /\ rows[m] = 0
    /\ UNCHANGED <<rows, created, readings, latest, cache, message, draft>>

-----------------------------------------------------------------------------
Exists(id) == \E m \in Macs : rows[m] = id

(* Mutant: the newest arrival counts as the latest. *)
IsLatestArrived(k, i, t) == TRUE

(* The update's filter: no latest reading, or one not newer. *)
IsLatest(k, i, t) == \A s \in latest[k][i] : s <= t

(* The transaction of _handle_sensor_data and _handle_device_health; the row
   it refers to is locked, so no deletion comes in between. *)
Store ==
    \E m \in message :
        /\ Exists(m.id)
        /\ readings' = readings \cup {[kind |-> m.kind, id |-> m.id, time |-> m.time]}
        /\ latest' = IF IsLatest(m.kind, m.id, m.time)
                     THEN [latest EXCEPT ![m.kind][m.id] = {m.time}]
                     ELSE latest
        /\ message' = {}
        /\ UNCHANGED <<rows, created, cache, draft>>

(* IntegrityError: the row is gone, and the message with it. *)
Refuse ==
    /\ \E m \in message : ~Exists(m.id)
    /\ message' = {}
    /\ UNCHANGED <<rows, created, readings, latest, cache, draft>>

-----------------------------------------------------------------------------
(* IaqDeviceAddView: a device is claimed. *)
CreateDevice(m) ==
    /\ rows[m] = 0 /\ created < MaxId
    /\ created' = created + 1
    /\ rows' = [rows EXCEPT ![m] = created + 1]
    /\ UNCHANGED <<readings, latest, cache, message, draft>>

(* Mutant: the device goes and its readings stay. *)
DeleteDeviceOnly(m) ==
    /\ "delete_device" \in changes
    /\ rows[m] # 0
    /\ rows' = [rows EXCEPT ![m] = 0]
    /\ UNCHANGED <<created, readings, latest, cache, message, draft>>

(* The admin site, on_delete=CASCADE and SET_NULL. *)
DeleteDevice(m) ==
    /\ "delete_device" \in changes
    /\ rows[m] # 0
    /\ rows' = [rows EXCEPT ![m] = 0]
    /\ readings' = {r \in readings : r.id # rows[m]}
    /\ latest' = [k \in Kinds |-> [latest[k] EXCEPT ![rows[m]] = {}]]
    /\ UNCHANGED <<created, cache, message, draft>>

DeleteReading(r) ==
    /\ "delete_reading" \in changes
    /\ readings' = readings \ {r}
    /\ latest' = [latest EXCEPT ![r.kind][r.id] = @ \ {r.time}]
    /\ UNCHANGED <<rows, created, cache, message, draft>>

(* A page of the admin site, or IaqDeviceSetVisibilityView, reads the row. *)
ReadDevice(m, by) ==
    /\ by \in changes
    /\ draft = {} /\ rows[m] # 0
    /\ draft' = {[by |-> by, id |-> rows[m], latest |-> [k \in Kinds |-> latest[k][rows[m]]]]}
    /\ UNCHANGED <<rows, created, readings, latest, cache, message>>

(* Every field as the page showed it, as long as what it names exists. *)
SaveDevice ==
    /\ \E d \in draft :
          /\ d.by = "edit"
          /\ latest' = IF Exists(d.id) /\ \A k \in Kinds : \A t \in d.latest[k] :
                               [kind |-> k, id |-> d.id, time |-> t] \in readings
                       THEN [k \in Kinds |-> [latest[k] EXCEPT ![d.id] = d.latest[k]]]
                       ELSE latest
    /\ draft' = {}
    /\ UNCHANGED <<rows, created, readings, cache, message>>

(* Mutant: save() without update_fields. *)
SaveWholeRow ==
    /\ \E d \in draft :
          /\ d.by = "visibility"
          /\ latest' = IF Exists(d.id) THEN [k \in Kinds |-> [latest[k] EXCEPT ![d.id] = d.latest[k]]]
                       ELSE latest
    /\ draft' = {}
    /\ UNCHANGED <<rows, created, readings, cache, message>>

(* update_fields: is_public, which nothing here depends on, and no other. *)
SaveVisibility ==
    /\ \E d \in draft : d.by = "visibility"
    /\ draft' = {}
    /\ UNCHANGED <<rows, created, readings, latest, cache, message>>

(* The cache is empty, and the message in hand lost. *)
Restart ==
    /\ "restart" \in changes
    /\ cache' = <<>>
    /\ message' = {}
    /\ UNCHANGED <<rows, created, readings, latest, draft>>

Step ==
    \/ \E m \in Macs :
          \/ \E k \in Kinds, t \in Times : Receive(m, k, t)
          \/ Drop(m) \/ CreateDevice(m) \/ DeleteDevice(m)
          \/ \E by \in {"edit", "visibility"} : ReadDevice(m, by)
    \/ Store \/ Refuse \/ Restart \/ SaveDevice \/ SaveVisibility
    \/ \E r \in readings : DeleteReading(r)

Next == Step /\ UNCHANGED changes

Spec == Init /\ [][Next]_vars

-----------------------------------------------------------------------------
(* A device's latest reading is the newest there is of it, in whatever order
   readings arrive (handlers.py:159-162 and 178-181) and whoever saves the row
   in between (views.py:255), as long as nobody deletes a reading or edits the
   row on the admin site: the update does not fall back on the newest reading
   left, and an edit restores what its page showed. *)
LatestIsNewest ==
    changes \cap {"delete_reading", "edit"} = {} =>
        \A k \in Kinds, i \in Ids :
            LET times == {r.time : r \in {q \in readings : q.kind = k /\ q.id = i}}
            IN  latest[k][i] = IF times = {} THEN {} ELSE {Max(times)}

(* What a Device row points to, and what points to a Device row, exists. *)
NothingDangles ==
    /\ \A k \in Kinds, i \in Ids : \A t \in latest[k][i] :
          [kind |-> k, id |-> i, time |-> t] \in readings
    /\ \A r \in readings : Exists(r.id)

(* A message of a registered device is stored for that device and no other, or
   lost with the process (handlers.py:142-157, tests.py:58), as long as no
   device is deleted: the cache gives a device that is claimed again the id of
   the row it had. *)
StoredForItsDevice ==
    [][\A m \in message :
          message' = {} /\ m.row # 0 /\ "delete_device" \notin changes =>
              \/ readings' = readings \cup {[kind |-> m.kind, id |-> m.row, time |-> m.time]}
              \/ "restart" \in changes /\ cache' = <<>> /\ UNCHANGED readings]_vars
=============================================================================
