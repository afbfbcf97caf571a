---------------------------- MODULE PlayerStorage ----------------------------
(***************************************************************************)
(* The objects players store and the byte counter their tenant's quota is  *)
(* checked against: httpapi/storage.go and its statements, with the purge  *)
(* of a deleted player, whose objects go with the player's row.            *)
(*                                                                         *)
(* A put takes the object's advisory lock and the tenant's row lock, reads *)
(* the usage and checks the quota, and then writes the object and the      *)
(* counter: two steps, both locks held between.  A delete takes the        *)
(* object's lock alone: one step.  The purge takes neither.                *)
(*                                                                         *)
(* A value is its size.  Every write of an object gets a number, `stamp',  *)
(* and keeps the number of the write that created the row, `born': they    *)
(* tell writes apart that a version may not, and no step reads them.       *)
(***************************************************************************)
EXTENDS Integers, FiniteSets

CONSTANTS
  Objects,        \* (project, owner, key)
  OwnerOf,        \* object |-> the player it belongs to
  Writers,        \* clients with a request
  Sizes,          \* octet_length of a value
  StorageLimit,   \* the tenant's StorageBytes
  MaxWrites       \* bound: writes

ASSUME StorageAssumption ==
  /\ Sizes \subseteq Nat \ {0} /\ StorageLimit \in Nat /\ MaxWrites \in Nat

VARIABLES
  object,     \* storage_objects: the live row of each object
  total,      \* tenant_storage_usage.total_bytes
  put,        \* each client's put under way
  known,      \* what each client last read
  purged,     \* players whose row is gone
  writes      \* how many writes there were

psVars == <<object, total, put, known, purged, writes>>

NoObject == [version |-> 0]
NotPutting == [stage |-> "none"]

StorageTypeOK ==
  /\ \A o \in Objects :
       \/ object[o] = NoObject
       \/ object[o] \in [size : Sizes, version : 1..MaxWrites, born : 1..MaxWrites, stamp : 1..MaxWrites]
  /\ total \in Nat
  /\ \A w \in Writers :
       \/ put[w] = NotPutting
       \/ /\ DOMAIN put[w] = {"object", "size", "expected", "delta"}
          /\ put[w].object \in Objects /\ put[w].size \in Sizes /\ put[w].delta \in Int
  /\ purged \subseteq {OwnerOf[o] : o \in Objects}
  /\ writes \in 0..MaxWrites

StorageInit ==
  /\ object = [o \in Objects |-> NoObject]
  /\ total = 0
  /\ put = [w \in Writers |-> NotPutting]
  /\ known = [w \in Writers |-> [o \in Objects |-> NoObject]]
  /\ purged = {}
  /\ writes = 0

SizeOf(o) == IF object[o] = NoObject THEN 0 ELSE object[o].size
Plus(delta) == IF total + delta < 0 THEN 0 ELSE total + delta

-----------------------------------------------------------------------------
(* Locks *)

Putting(o) == \E w \in Writers : put[w] # NotPutting /\ put[w].object = o

\* Only the object is locked: writes of other objects go on.
WriteLocksObject(o) == ~Putting(o)

\* LockStorageObjectForWrite, then GetTenantQuotaContextLocked
WriteLocks(o) == ~Putting(o) /\ \A w \in Writers : put[w] = NotPutting

\* LockStorageObjectForWrite
DeleteLocks(o) == ~Putting(o)

\* Limits.CheckStorage
CheckStorage(delta) == delta <= 0 \/ total + delta <= StorageLimit

-----------------------------------------------------------------------------
(* Requests *)

\* getStorageForOwner.  A reader served by a lagging replica is one that
\* read earlier.
GetObject(w, o) ==
  /\ object[o] # NoObject
  /\ known' = [known EXCEPT ![w][o] = object[o]]
  /\ UNCHANGED <<object, total, put, purged, writes>>

\* putStorageObject up to storageWriteDelta.  `expected' is the If-Match
\* version, or NoObject.
PutBegin(w, o, size, expected) ==
  LET delta == size - SizeOf(o) IN
  /\ put[w] = NotPutting /\ OwnerOf[o] \notin purged
  /\ WriteLocks(o)
  /\ CheckStorage(delta)
  /\ put' = [put EXCEPT ![w] = [object |-> o, size |-> size, expected |-> expected, delta |-> delta]]
  /\ UNCHANGED <<object, total, known, purged, writes>>

\* A row rewritten under the version it had.
WrittenUnversioned(o, size) ==
  IF object[o] = NoObject
  THEN [size |-> size, version |-> 1, born |-> writes + 1, stamp |-> writes + 1]
  ELSE [object[o] EXCEPT !.size = size, !.stamp = writes + 1]

\* PutStorageObject, PutStorageObjectIfMatch
Written(o, size) ==
  IF object[o] = NoObject
  THEN [size |-> size, version |-> 1, born |-> writes + 1, stamp |-> writes + 1]
  ELSE [size |-> size, version |-> object[o].version + 1, born |-> object[o].born, stamp |-> writes + 1]

\* The write and ApplyTenantStorageDelta.  The row's owner must exist; with
\* If-Match, so must the row, at the version expected.
PutCommit(w) ==
  LET p == put[w] IN
  /\ p # NotPutting /\ writes < MaxWrites
  /\ OwnerOf[p.object] \notin purged
  /\ p.expected # NoObject => object[p.object].version = p.expected.version
  /\ object' = [object EXCEPT ![p.object] = Written(p.object, p.size)]
  /\ total' = Plus(p.delta)
  /\ writes' = writes + 1
  /\ put' = [put EXCEPT ![w] = NotPutting]
  /\ known' = [known EXCEPT ![w][p.object] = object'[p.object]]
  /\ UNCHANGED purged

\* A version mismatch, a vanished owner, or a failed transaction.
PutFails(w) ==
  /\ put[w] # NotPutting
  /\ put' = [put EXCEPT ![w] = NotPutting]
  /\ UNCHANGED <<object, total, known, purged, writes>>

\* storageDelete
DeleteObject(o) ==
  /\ DeleteLocks(o)
  /\ object[o] # NoObject
  /\ object' = [object EXCEPT ![o] = NoObject]
  /\ total' = Plus(-SizeOf(o))
  /\ UNCHANGED <<put, known, purged, writes>>

\* HardDeletePlayers: the objects go by the foreign key's cascade.
PurgeOwner(p) ==
  /\ p \notin purged
  /\ purged' = purged \union {p}
  /\ object' = [o \in Objects |-> IF OwnerOf[o] = p THEN NoObject ELSE object[o]]
  /\ UNCHANGED <<total, put, known, writes>>

StorageNext ==
  \/ \E w \in Writers :
       \/ \E o \in Objects :
            \/ GetObject(w, o)
            \/ \E size \in Sizes, expected \in {NoObject, known[w][o]} : PutBegin(w, o, size, expected)
       \/ PutCommit(w) \/ PutFails(w)
  \/ \E o \in Objects : DeleteObject(o) \/ PurgeOwner(OwnerOf[o])

StorageSpec == StorageInit /\ [][StorageNext]_psVars

-----------------------------------------------------------------------------
(* What storage promises. *)

\* The bytes of all objects, numbered for each.
Bytes == UNION {{o} \X (1..SizeOf(o)) : o \in Objects}

Stored == Cardinality(Bytes)

\* StorageWithinQuota: what is stored never exceeds what is metered, and what
\* is metered never exceeds the quota, whichever writes, deletes and purges
\* run against each other.
StorageWithinQuota == Stored <= total /\ total <= StorageLimit

\* NoLostUpdate: a conditional put replaces the very write its client had
\* read, unless the object was deleted and created again since.
NoLostUpdate ==
  \A w \in Writers :
    LET p == put[w] IN
    (/\ p # NotPutting /\ put'[w] = NotPutting
     /\ p.expected # NoObject /\ object'[p.object] # object[p.object]
     /\ object[p.object].born = p.expected.born)
    => object[p.object].stamp = p.expected.stamp

\* StorageSound: every step keeps the quota and loses no update.
StorageSound == [][StorageWithinQuota' /\ NoLostUpdate]_psVars
=============================================================================
