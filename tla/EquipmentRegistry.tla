------------------------- MODULE EquipmentRegistry -------------------------
(***************************************************************************)
(* The EquipmentRegistry contract: every transfer of a machine writes a    *)
(* new snapshot under the key (equipment_id, version) beside the old ones, *)
(* and the key equipment_id points at the latest.  SHA-256 is modelled as  *)
(* collision free, so a hash is its canonical preimage.                    *)
(***************************************************************************)
EXTENDS Integers, Sequences

CONSTANTS
    EquipmentIds, Accounts, Metadata,
    MaxVersion,     \* bound on transfers; far below the u32 of the code
    MaxTime,        \* bound on the ledger clock
    NoSnapshot      \* nothing stored under this key

ASSUME BoundsAssumption == MaxVersion \in Nat /\ MaxVersion >= 1 /\ MaxTime \in Nat

VARIABLES
    latest,         \* equipment_id -> version, 0 if not registered
    snapshots,      \* equipment_id -> version -> EquipmentSnapshot
    signers,        \* history: equipment_id -> version -> who authorised it
    now             \* the ledger's timestamp

registryVars == <<latest, snapshots, signers, now>>

Versions == 1..MaxVersion

\* Mutant of EquipmentHash: the version is left out of the preimage.
EquipmentHashUnversioned(id, metadata_hash, created_at, version) ==
    [equipment_id |-> id, metadata_hash |-> metadata_hash, created_at |-> created_at,
     version |-> 1]

\* Mutant of EquipmentHash: the last two fields are appended in the wrong order.
EquipmentHashSwapped(id, metadata_hash, created_at, version) ==
    [equipment_id |-> id, metadata_hash |-> metadata_hash, created_at |-> version,
     version |-> created_at]

\* The owner is an argument of the code's function and not in its preimage.
EquipmentHash(id, metadata_hash, created_at, version) ==
    [equipment_id |-> id, metadata_hash |-> metadata_hash, created_at |-> created_at,
     version |-> version]

EquipmentSnapshot ==
    [version: Versions, owner: Accounts, metadata_hash: Metadata, created_at: 0..MaxTime,
     equipment_hash: [equipment_id: EquipmentIds, metadata_hash: Metadata,
                      created_at: 0..MaxTime, version: Versions]]

ASSUME NoSnapshotAssumption == NoSnapshot \notin EquipmentSnapshot

SnapshotNow(id, version, owner, metadata_hash) ==
    [version |-> version, owner |-> owner, metadata_hash |-> metadata_hash,
     created_at |-> now,
     equipment_hash |-> EquipmentHash(id, metadata_hash, now, version)]

Registered(id) == latest[id] # 0

\* get_equipment: the snapshot the pointer leads to.
Current(id) == snapshots[id][latest[id]]

\* The two writes of a call whose require_auth passed for signer.
Store(id, snapshot, signer) ==
    /\ latest' = [latest EXCEPT ![id] = snapshot.version]
    /\ snapshots' = [snapshots EXCEPT ![id][snapshot.version] = snapshot]
    /\ signers' = [signers EXCEPT ![id][snapshot.version] = signer]
    /\ UNCHANGED now

RegisterEquipment(id, owner, metadata_hash) ==
    /\ ~Registered(id)
    /\ Store(id, SnapshotNow(id, 1, owner, metadata_hash), owner)

\* Mutant of UpdateOwner: the pointer is moved on before the old snapshot is read.
UpdateOwnerSkipping(id, new_owner, caller) ==
    /\ Registered(id)
    /\ caller = Current(id).owner
    /\ latest[id] + 2 <= MaxVersion
    /\ Store(id, SnapshotNow(id, latest[id] + 2, new_owner, Current(id).metadata_hash),
             caller)

\* Mutant of UpdateOwner: the authorised caller is not compared with the owner.
UpdateOwnerByAnybody(id, new_owner, caller) ==
    /\ Registered(id)
    /\ latest[id] < MaxVersion
    /\ Store(id, SnapshotNow(id, latest[id] + 1, new_owner, Current(id).metadata_hash),
             caller)

UpdateOwner(id, new_owner, caller) ==
    /\ Registered(id)
    /\ caller = Current(id).owner
    /\ latest[id] < MaxVersion
    /\ Store(id, SnapshotNow(id, latest[id] + 1, new_owner, Current(id).metadata_hash),
             caller)

\* The ledger closes; several transactions may share one timestamp.
CloseLedger ==
    /\ now < MaxTime
    /\ now' = now + 1
    /\ UNCHANGED <<latest, snapshots, signers>>

-----------------------------------------------------------------------------
Init ==
    /\ latest = [id \in EquipmentIds |-> 0]
    /\ snapshots = [id \in EquipmentIds |-> [version \in Versions |-> NoSnapshot]]
    /\ signers = [id \in EquipmentIds |-> [version \in Versions |-> NoSnapshot]]
    /\ now = 0

Next ==
    \/ \E id \in EquipmentIds, owner \in Accounts, metadata_hash \in Metadata :
          RegisterEquipment(id, owner, metadata_hash)
    \/ \E id \in EquipmentIds, new_owner, caller \in Accounts :
          UpdateOwner(id, new_owner, caller)
    \/ CloseLedger

Spec == Init /\ [][Next]_registryVars

-----------------------------------------------------------------------------
TypeOK ==
    /\ latest \in [EquipmentIds -> 0..MaxVersion]
    /\ snapshots \in [EquipmentIds -> [Versions -> EquipmentSnapshot \union {NoSnapshot}]]
    /\ signers \in [EquipmentIds -> [Versions -> Accounts \union {NoSnapshot}]]
    /\ now \in 0..MaxTime

\* The chain of custody has no gap: exactly the versions up to the pointer are
\* stored, each under its own number and about the same metadata, and none is
\* dated before its predecessor (so update_owner never panics with "Equipment
\* snapshot missing").
CustodyIsUnbroken ==
    \A id \in EquipmentIds, version \in Versions :
        /\ snapshots[id][version] # NoSnapshot <=> version <= latest[id]
        /\ version <= latest[id] =>
              /\ snapshots[id][version].version = version
              /\ snapshots[id][version].metadata_hash = snapshots[id][1].metadata_hash
              /\ version > 1 =>
                    snapshots[id][version - 1].created_at <= snapshots[id][version].created_at

\* No transfer and no registration rewrites the past: what a past owner was
\* recorded to own, and when, stays readable by get_equipment_version.
HistoryIsKept ==
    [][\A id \in EquipmentIds, version \in Versions :
          snapshots[id][version] # NoSnapshot =>
              snapshots'[id][version] = snapshots[id][version]]_registryVars

\* A hash certifies one snapshot: no two snapshots, of one machine or of two,
\* carry the same hash, even if several transfers share a ledger timestamp.
HashesAreDistinct ==
    \A id, other \in EquipmentIds, v, w \in Versions :
        /\ <<id, v>> # <<other, w>>
        /\ snapshots[id][v] # NoSnapshot
        /\ snapshots[other][w] # NoSnapshot
        => snapshots[id][v].equipment_hash # snapshots[other][w].equipment_hash

Entry(id, version) ==
    [owner |-> snapshots[id][version].owner, data |-> snapshots[id][version].metadata_hash,
     date |-> snapshots[id][version].created_at, by |-> signers[id][version]]

\* The log of a machine, read through get_equipment and get_equipment_version.
History(id) == [version \in 1..latest[id] |-> Entry(id, version)]

Log == INSTANCE CustodyLog WITH
    Machines <- EquipmentIds, Owners <- Accounts, Data <- Metadata,
    log <- [id \in EquipmentIds |-> History(id)], today <- now

\* The pointer and the snapshots implement a log that only grows and that only the
\* owner named last can continue ("Only the current owner can transfer",
\* lib.rs:130), whoever calls and however calls interleave.
KeepsCustodyLog == Log!Spec
=============================================================================
