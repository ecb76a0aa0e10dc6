---------------------- MODULE EquipmentRegistryProofs ----------------------
(***************************************************************************)
(* Theorems about EquipmentRegistry for any machines, accounts, bounds.    *)
(***************************************************************************)
EXTENDS EquipmentRegistry, SequenceTheorems, TLAPS

\* What the chain of custody rests on: a snapshot is dated no later than now and
\* its hash is the hash of its own key and fields.
SnapshotsAreSealed ==
    \A id \in EquipmentIds, version \in Versions :
        snapshots[id][version] # NoSnapshot =>
            /\ snapshots[id][version].created_at <= now
            /\ snapshots[id][version].equipment_hash =
                   EquipmentHash(id, snapshots[id][version].metadata_hash,
                                 snapshots[id][version].created_at, version)

RegistryInv == TypeOK /\ CustodyIsUnbroken /\ SnapshotsAreSealed

\* Both calls write one new snapshot, of the version after the latest, about the
\* metadata the machine was registered with.
LEMMA CallsAppend ==
    ASSUME RegistryInv, NEW id \in EquipmentIds,
           \/ \E owner \in Accounts, metadata_hash \in Metadata :
                 RegisterEquipment(id, owner, metadata_hash)
           \/ \E new_owner, caller \in Accounts : UpdateOwner(id, new_owner, caller)
    PROVE  \E owner, signer \in Accounts, metadata_hash \in Metadata :
              /\ latest[id] + 1 \in Versions
              /\ latest[id] = 0 => signer = owner
              /\ latest[id] > 0 =>
                    /\ latest[id] \in Versions
                    /\ signer = snapshots[id][latest[id]].owner
                    /\ metadata_hash = snapshots[id][latest[id]].metadata_hash
                    /\ metadata_hash = snapshots[id][1].metadata_hash
              /\ Store(id, SnapshotNow(id, latest[id] + 1, owner, metadata_hash), signer)
<1>1. latest[id] \in 0..MaxVersion
  BY DEF RegistryInv, TypeOK
<1>2. CASE \E owner \in Accounts, metadata_hash \in Metadata :
              RegisterEquipment(id, owner, metadata_hash)
  <2>1. PICK owner \in Accounts, metadata_hash \in Metadata :
            RegisterEquipment(id, owner, metadata_hash)
    BY <1>2
  <2>2. latest[id] = 0 /\ 1 \in Versions
    BY <2>1, BoundsAssumption DEF RegisterEquipment, Registered, Versions
  <2>. QED
    BY <2>1, <2>2 DEF RegisterEquipment
<1>3. CASE \E new_owner, caller \in Accounts : UpdateOwner(id, new_owner, caller)
  <2>1. PICK new_owner \in Accounts, caller \in Accounts : UpdateOwner(id, new_owner, caller)
    BY <1>3
  <2>2. latest[id] \in Versions /\ latest[id] + 1 \in Versions
    BY <1>1, <2>1, BoundsAssumption DEF UpdateOwner, Registered, Versions
  <2>3. Current(id) \in EquipmentSnapshot
        /\ Current(id).metadata_hash = snapshots[id][1].metadata_hash
    BY <2>2 DEF RegistryInv, TypeOK, CustodyIsUnbroken, Current
  <2>4. Current(id).metadata_hash \in Metadata
    BY <2>3 DEF EquipmentSnapshot
  <2>5. /\ latest[id] # 0
        /\ caller = snapshots[id][latest[id]].owner
        /\ Current(id).metadata_hash = snapshots[id][latest[id]].metadata_hash
        /\ Store(id, SnapshotNow(id, latest[id] + 1, new_owner, Current(id).metadata_hash),
                 caller)
    BY <2>1, <2>2, BoundsAssumption DEF UpdateOwner, Current, Registered
  <2>6. PICK data \in Metadata : data = Current(id).metadata_hash
    BY <2>4
  <2>7. /\ latest[id] = 0 => caller = new_owner
        /\ latest[id] > 0 =>
              /\ latest[id] \in Versions
              /\ caller = snapshots[id][latest[id]].owner
              /\ data = snapshots[id][latest[id]].metadata_hash
              /\ data = snapshots[id][1].metadata_hash
        /\ Store(id, SnapshotNow(id, latest[id] + 1, new_owner, data), caller)
    BY <2>2, <2>3, <2>5, <2>6
  <2>. QED
    BY <2>2, <2>7
<1>. QED
  BY <1>2, <1>3

\* The new snapshot and the frame of a Store.
LEMMA StoreEffect ==
    ASSUME RegistryInv, NEW id \in EquipmentIds, NEW owner \in Accounts,
           NEW signer \in Accounts,
           NEW metadata_hash \in Metadata, latest[id] + 1 \in Versions,
           Store(id, SnapshotNow(id, latest[id] + 1, owner, metadata_hash), signer)
    PROVE  /\ SnapshotNow(id, latest[id] + 1, owner, metadata_hash) \in EquipmentSnapshot
           /\ latest' = [latest EXCEPT ![id] = latest[id] + 1]
           /\ \A other \in EquipmentIds, v \in Versions :
                 snapshots'[other][v] =
                     IF other = id /\ v = latest[id] + 1
                        THEN SnapshotNow(id, latest[id] + 1, owner, metadata_hash)
                        ELSE snapshots[other][v]
           /\ snapshots' \in [EquipmentIds -> [Versions -> EquipmentSnapshot \union {NoSnapshot}]]
           /\ \A other \in EquipmentIds, v \in Versions :
                 signers'[other][v] =
                     IF other = id /\ v = latest[id] + 1 THEN signer ELSE signers[other][v]
           /\ signers' \in [EquipmentIds -> [Versions -> Accounts \union {NoSnapshot}]]
           /\ now' = now
<1>. DEFINE snap == SnapshotNow(id, latest[id] + 1, owner, metadata_hash)
<1>1. snap \in EquipmentSnapshot /\ snap.version = latest[id] + 1
  BY DEF SnapshotNow, EquipmentSnapshot, EquipmentHash, RegistryInv, TypeOK
<1>. HIDE DEF snap
<1>2. /\ latest' = [latest EXCEPT ![id] = latest[id] + 1]
      /\ snapshots' = [snapshots EXCEPT ![id] = [@ EXCEPT ![latest[id] + 1] = snap]]
      /\ signers' = [signers EXCEPT ![id] = [@ EXCEPT ![latest[id] + 1] = signer]]
      /\ now' = now
  BY <1>1 DEF Store, snap
<1>. QED
  BY <1>1, <1>2 DEF RegistryInv, TypeOK, snap

LEMMA CallsKeepInv ==
    ASSUME RegistryInv, NEW id \in EquipmentIds, NEW owner \in Accounts,
           NEW signer \in Accounts,
           NEW metadata_hash \in Metadata, latest[id] + 1 \in Versions,
           latest[id] > 0 => metadata_hash = snapshots[id][1].metadata_hash,
           Store(id, SnapshotNow(id, latest[id] + 1, owner, metadata_hash), signer)
    PROVE  RegistryInv'
<1>. DEFINE next == latest[id] + 1
            snap == SnapshotNow(id, next, owner, metadata_hash)
<1>1. /\ snap \in EquipmentSnapshot
      /\ latest' = [latest EXCEPT ![id] = next]
      /\ \A other \in EquipmentIds, v \in Versions :
            snapshots'[other][v] = IF other = id /\ v = next THEN snap ELSE snapshots[other][v]
      /\ snapshots' \in [EquipmentIds -> [Versions -> EquipmentSnapshot \union {NoSnapshot}]]
      /\ signers' \in [EquipmentIds -> [Versions -> Accounts \union {NoSnapshot}]]
      /\ now' = now
  BY StoreEffect
<1>2. /\ latest \in [EquipmentIds -> 0..MaxVersion]
      /\ now \in 0..MaxTime
      /\ next \in Versions
      /\ next > 0 /\ next = latest[id] + 1
  BY DEF RegistryInv, TypeOK, Versions
<1>3. /\ snap.version = next
      /\ snap.metadata_hash = metadata_hash
      /\ snap.created_at = now
      /\ snap.equipment_hash = EquipmentHash(id, metadata_hash, now, next)
  BY DEF SnapshotNow
<1>4. snap # NoSnapshot
  BY <1>1, NoSnapshotAssumption
<1>. HIDE DEF next, snap
<1>5. TypeOK'
  BY <1>1, <1>2, BoundsAssumption DEF RegistryInv, TypeOK, Versions
<1>6. SnapshotsAreSealed'
  <2>1. ASSUME NEW other \in EquipmentIds, NEW v \in Versions,
               snapshots'[other][v] # NoSnapshot
        PROVE  /\ snapshots'[other][v].created_at <= now'
               /\ snapshots'[other][v].equipment_hash =
                      EquipmentHash(other, snapshots'[other][v].metadata_hash,
                                    snapshots'[other][v].created_at, v)
    <3>1. CASE other = id /\ v = next
      BY <1>1, <1>2, <1>3, <3>1, BoundsAssumption
    <3>2. CASE ~(other = id /\ v = next)
      BY <1>1, <2>1, <3>2 DEF RegistryInv, SnapshotsAreSealed
    <3>. QED
      BY <3>1, <3>2
  <2>. QED
    BY <2>1 DEF SnapshotsAreSealed, EquipmentHash
<1>7. ASSUME NEW other \in EquipmentIds, NEW v \in Versions
      PROVE  /\ snapshots'[other][v] # NoSnapshot <=> v <= latest'[other]
             /\ v <= latest'[other] =>
                   /\ snapshots'[other][v].version = v
                   /\ snapshots'[other][v].metadata_hash = snapshots'[other][1].metadata_hash
                   /\ v > 1 => snapshots'[other][v - 1].created_at
                                   <= snapshots'[other][v].created_at
  <2>1. CASE other # id
    <3>1. latest'[other] = latest[other] /\ \A w \in Versions : snapshots'[other][w] = snapshots[other][w]
      BY <1>1, <1>2, <2>1
    <3>2. 1 \in Versions /\ (v > 1 => v - 1 \in Versions)
      BY BoundsAssumption DEF Versions
    <3>. QED
      BY <3>1, <3>2 DEF RegistryInv, CustodyIsUnbroken
  <2>2. CASE other = id /\ v # next
    <3>1. snapshots'[id][v] = snapshots[id][v] /\ latest'[id] = next
      BY <1>1, <1>2, <2>2
    <3>2. v <= latest[id] <=> v <= next
      BY <1>2, <2>2 DEF Versions
    <3>3. v <= latest[id] => snapshots'[id][1] = snapshots[id][1]
      BY <1>1, <1>2, BoundsAssumption DEF Versions
    <3>4. v <= latest[id] /\ v > 1 => snapshots'[id][v - 1] = snapshots[id][v - 1]
      BY <1>1, <1>2, BoundsAssumption DEF Versions
    <3>. QED
      BY <2>2, <3>1, <3>2, <3>3, <3>4 DEF RegistryInv, CustodyIsUnbroken
  <2>3. CASE other = id /\ v = next
    <3>1. snapshots'[id][v] = snap /\ latest'[id] = v
      BY <1>1, <1>2, <2>3
    <3>2. snapshots'[id][1].metadata_hash = metadata_hash
      <4>1. CASE v = 1
        BY <1>3, <3>1, <4>1
      <4>2. CASE v # 1
        BY <1>1, <1>2, <2>3, <4>2, BoundsAssumption DEF Versions
      <4>. QED
        BY <4>1, <4>2
    <3>3. v > 1 => snapshots'[id][v - 1].created_at <= now
      <4>1. SUFFICES ASSUME v > 1 PROVE snapshots'[id][v - 1].created_at <= now
        OBVIOUS
      <4>2. v - 1 \in Versions /\ v - 1 <= latest[id]
        BY <1>2, <2>3, <4>1, BoundsAssumption DEF Versions
      <4>3. snapshots'[id][v - 1] = snapshots[id][v - 1]
        BY <1>1, <1>2, <2>3, <4>2, BoundsAssumption DEF Versions
      <4>. QED
        BY <4>2, <4>3 DEF RegistryInv, CustodyIsUnbroken, SnapshotsAreSealed
    <3>. QED
      BY <1>2, <1>3, <1>4, <2>3, <3>1, <3>2, <3>3 DEF Versions
  <2>. QED
    BY <2>1, <2>2, <2>3
<1>8. CustodyIsUnbroken'
  BY <1>7 DEF CustodyIsUnbroken, Versions
<1>. QED
  BY <1>5, <1>6, <1>8 DEF RegistryInv

LEMMA ClosingKeepsInv ==
    ASSUME RegistryInv, CloseLedger
    PROVE  RegistryInv'
<1>1. /\ now \in 0..MaxTime /\ now' \in 0..MaxTime /\ now <= now'
      /\ latest' = latest /\ snapshots' = snapshots /\ signers' = signers
  BY BoundsAssumption DEF RegistryInv, TypeOK, CloseLedger
<1>2. \A id \in EquipmentIds, v \in Versions :
          snapshots[id][v] # NoSnapshot => snapshots[id][v].created_at \in 0..MaxTime
  BY DEF RegistryInv, TypeOK, EquipmentSnapshot
<1>3. SnapshotsAreSealed'
  BY <1>1, <1>2, BoundsAssumption DEF RegistryInv, SnapshotsAreSealed, Versions, EquipmentHash
<1>. QED
  BY <1>1, <1>3 DEF RegistryInv, TypeOK, CustodyIsUnbroken

LEMMA StepsKeepInv ==
    ASSUME RegistryInv, [Next]_registryVars
    PROVE  RegistryInv'
<1>1. ASSUME NEW id \in EquipmentIds,
             \/ \E owner \in Accounts, metadata_hash \in Metadata :
                   RegisterEquipment(id, owner, metadata_hash)
             \/ \E new_owner, caller \in Accounts : UpdateOwner(id, new_owner, caller)
      PROVE  RegistryInv'
  BY <1>1, CallsAppend, CallsKeepInv
<1>2. ASSUME UNCHANGED registryVars PROVE RegistryInv'
  BY <1>2 DEF registryVars, RegistryInv, TypeOK, CustodyIsUnbroken, SnapshotsAreSealed
<1>. QED
  BY <1>1, <1>2, ClosingKeepsInv DEF Next

LEMMA InitInv ==
    ASSUME Init
    PROVE  RegistryInv
<1>1. TypeOK
  BY BoundsAssumption DEF Init, TypeOK
<1>. QED
  BY <1>1 DEF Init, RegistryInv, CustodyIsUnbroken, SnapshotsAreSealed, Versions

\* The variables keep their types.
THEOREM TypeCorrect == Spec => []TypeOK
<1>1. RegistryInv => TypeOK
  BY DEF RegistryInv
<1>. QED
  BY <1>1, InitInv, StepsKeepInv, PTL DEF Spec

\* The chain of custody of every machine is unbroken, however often it is sold.
THEOREM CustodyUnbroken == Spec => []CustodyIsUnbroken
<1>1. RegistryInv => CustodyIsUnbroken
  BY DEF RegistryInv
<1>. QED
  BY <1>1, InitInv, StepsKeepInv, PTL DEF Spec

\* A hash certifies one snapshot only: its preimage holds the machine and version.
THEOREM HashesDistinct == Spec => []HashesAreDistinct
<1>1. ASSUME RegistryInv, NEW id \in EquipmentIds, NEW v \in Versions,
             snapshots[id][v] # NoSnapshot
      PROVE  /\ snapshots[id][v].equipment_hash.equipment_id = id
             /\ snapshots[id][v].equipment_hash.version = v
  <2>1. PICK metadata_hash, created_at :
            snapshots[id][v].equipment_hash = EquipmentHash(id, metadata_hash, created_at, v)
    BY <1>1 DEF RegistryInv, SnapshotsAreSealed
  <2>2. /\ EquipmentHash(id, metadata_hash, created_at, v).equipment_id = id
        /\ EquipmentHash(id, metadata_hash, created_at, v).version = v
    BY DEF EquipmentHash
  <2>. QED
    BY <2>1, <2>2
<1>2. ASSUME RegistryInv,
             NEW id \in EquipmentIds, NEW other \in EquipmentIds,
             NEW v \in Versions, NEW w \in Versions, <<id, v>> # <<other, w>>,
             snapshots[id][v] # NoSnapshot, snapshots[other][w] # NoSnapshot,
             snapshots[id][v].equipment_hash = snapshots[other][w].equipment_hash
      PROVE  FALSE
  <2>1. id = other /\ v = w
    BY <1>1, <1>2
  <2>. QED
    BY <1>2, <2>1
<1>3. RegistryInv => HashesAreDistinct
  BY <1>2 DEF HashesAreDistinct
<1>. QED
  BY <1>3, InitInv, StepsKeepInv, PTL DEF Spec

\* No step rewrites a stored snapshot.
THEOREM HistoryKept == Spec => HistoryIsKept
<1>. DEFINE Step == \A id \in EquipmentIds, version \in Versions :
          snapshots[id][version] # NoSnapshot => snapshots'[id][version] = snapshots[id][version]
<1>1. ASSUME RegistryInv, NEW id \in EquipmentIds,
             \/ \E owner \in Accounts, metadata_hash \in Metadata :
                   RegisterEquipment(id, owner, metadata_hash)
             \/ \E new_owner, caller \in Accounts : UpdateOwner(id, new_owner, caller)
      PROVE  Step
  <2>1. PICK owner \in Accounts, signer \in Accounts, metadata_hash \in Metadata :
            /\ latest[id] + 1 \in Versions
            /\ Store(id, SnapshotNow(id, latest[id] + 1, owner, metadata_hash), signer)
    BY <1>1, CallsAppend
  <2>2. \A other \in EquipmentIds, v \in Versions :
            other # id \/ v # latest[id] + 1 => snapshots'[other][v] = snapshots[other][v]
    BY <1>1, <2>1, StoreEffect
  <2>3. snapshots[id][latest[id] + 1] = NoSnapshot
    <3>1. ~(latest[id] + 1 <= latest[id])
      BY <1>1 DEF RegistryInv, TypeOK
    <3>. QED
      BY <1>1, <2>1, <3>1 DEF RegistryInv, CustodyIsUnbroken
  <2>. QED
    BY <2>2, <2>3
<1>2. RegistryInv /\ [Next]_registryVars => [Step]_registryVars
  BY <1>1 DEF Next, CloseLedger
<1>. QED
  BY <1>2, InitInv, StepsKeepInv, PTL DEF Spec, HistoryIsKept
-----------------------------------------------------------------------------
(* The registry implements the log of custody. *)

\* A function on 1..n that grows by one value is a sequence to which it is appended.
LEMMA GrowsByAppend ==
    ASSUME NEW S, NEW n \in Nat, NEW f \in [1..n -> S], NEW g \in [1..(n + 1) -> S],
           \A i \in 1..n : g[i] = f[i]
    PROVE  /\ Len(f) = n
           /\ g = Append(f, g[n + 1])
<1>1. f \in Seq(S) /\ g \in Seq(S)
  BY SeqDef
<1>2. Len(f) = n /\ Len(g) = n + 1
  BY <1>1, LenProperties
<1>3. g[n + 1] \in S
  OBVIOUS
<1>4. /\ Append(f, g[n + 1]) \in Seq(S)
      /\ Len(Append(f, g[n + 1])) = n + 1
      /\ \A i \in 1..n : Append(f, g[n + 1])[i] = f[i]
      /\ Append(f, g[n + 1])[n + 1] = g[n + 1]
  BY <1>1, <1>2, <1>3, AppendProperties
<1>5. \A i \in 1..Len(g) : g[i] = Append(f, g[n + 1])[i]
  BY <1>2, <1>4
<1>. QED
  BY <1>1, <1>2, <1>4, <1>5, SeqEqual

AnEntry == [owner: Accounts, data: Metadata, date: 0..MaxTime, by: Accounts \union {NoSnapshot}]

LEMMA EntryType ==
    ASSUME TypeOK, CustodyIsUnbroken, NEW id \in EquipmentIds
    PROVE  /\ latest[id] \in Nat
           /\ History(id) \in [1..latest[id] -> AnEntry]
<1>1. latest[id] \in 0..MaxVersion
  BY DEF TypeOK
<1>2. ASSUME NEW v \in 1..latest[id] PROVE Entry(id, v) \in AnEntry
  <2>1. v \in Versions /\ v <= latest[id]
    BY <1>1, BoundsAssumption DEF Versions
  <2>2. snapshots[id][v] \in EquipmentSnapshot
    BY <2>1 DEF TypeOK, CustodyIsUnbroken
  <2>3. signers[id][v] \in Accounts \union {NoSnapshot}
    BY <2>1 DEF TypeOK
  <2>. QED
    BY <2>2, <2>3 DEF Entry, AnEntry, EquipmentSnapshot
<1>. QED
  BY <1>1, <1>2 DEF History

\* A call appends one entry, dated today, to the log of its machine.
LEMMA CallsEnter ==
    ASSUME RegistryInv, NEW id \in EquipmentIds, NEW owner \in Accounts,
           NEW signer \in Accounts,
           NEW metadata_hash \in Metadata, latest[id] + 1 \in Versions,
           Store(id, SnapshotNow(id, latest[id] + 1, owner, metadata_hash), signer),
           RegistryInv'
    PROVE  Log!Enter(id, owner, metadata_hash, signer)
<1>0. PICK next \in Versions : next = latest[id] + 1
  OBVIOUS
<1>1. /\ latest' = [latest EXCEPT ![id] = next]
      /\ now' = now
      /\ \A other \in EquipmentIds, v \in Versions :
            /\ snapshots'[other][v] = IF other = id /\ v = next
                                         THEN SnapshotNow(id, next, owner, metadata_hash)
                                         ELSE snapshots[other][v]
            /\ signers'[other][v] = IF other = id /\ v = next THEN signer ELSE signers[other][v]
  BY <1>0, StoreEffect
<1>2. /\ latest \in [EquipmentIds -> 0..MaxVersion]
      /\ next \in Versions /\ latest'[id] = next
      /\ \A other \in EquipmentIds : other # id => latest'[other] = latest[other]
  BY <1>0, <1>1 DEF RegistryInv, TypeOK
<1>3. Entry(id, next)' = [owner |-> owner, data |-> metadata_hash, date |-> now, by |-> signer]
  BY <1>1, <1>2 DEF Entry, SnapshotNow
<1>4. ASSUME NEW other \in EquipmentIds, NEW v \in Versions, other # id \/ v # next
      PROVE  Entry(other, v)' = Entry(other, v)
  BY <1>1, <1>4 DEF Entry
<1>5. ASSUME NEW other \in EquipmentIds, other # id
      PROVE  History(other)' = History(other)
  <2>1. \A v \in 1..latest[other] : v \in Versions
    BY <1>2, BoundsAssumption DEF Versions
  <2>2. \A v \in 1..latest[other] : Entry(other, v)' = Entry(other, v)
    BY <1>4, <1>5, <2>1
  <2>3. History(other)' = [v \in 1..latest[other] |-> Entry(other, v)']
    BY <1>2, <1>5 DEF History
  <2>. QED
    BY <2>2, <2>3 DEF History
<1>6. History(id)' = Append(History(id), Entry(id, next)')
  <2>1. latest[id] \in Nat /\ History(id) \in [1..latest[id] -> AnEntry]
    BY EntryType DEF RegistryInv
  <2>2. History(id)' = [v \in 1..next |-> Entry(id, v)']
    BY <1>2 DEF History
  <2>3. \A v \in 1..latest[id] : v \in Versions /\ v # next
    BY <1>0, <1>2, <2>1, BoundsAssumption DEF Versions
  <2>4. \A v \in 1..latest[id] : Entry(id, v)' = History(id)[v]
    BY <1>4, <2>3 DEF History
  <2>5. Entry(id, next)' \in AnEntry
    BY <1>3 DEF AnEntry, RegistryInv, TypeOK
  <2>. DEFINE f == History(id)
              g == [v \in 1..next |-> Entry(id, v)']
  <2>6. g \in [1..next -> AnEntry] /\ g[next] = Entry(id, next)'
    <3>1. \A v \in 1..next : v \in 1..latest[id] \/ v = next
      BY <1>0, <2>1
    <3>2. \A v \in 1..next : Entry(id, v)' \in AnEntry
      BY <2>1, <2>4, <2>5, <3>1
    <3>3. next \in 1..next
      BY <1>0, <2>1
    <3>. QED
      BY <3>2, <3>3
  <2>7. \A v \in 1..latest[id] : g[v] = f[v]
    BY <1>0, <2>1, <2>4
  <2>. HIDE DEF f, g
  <2>8. g = Append(f, g[next])
    BY <1>0, <2>1, <2>6, <2>7, GrowsByAppend DEF f
  <2>. QED
    BY <2>2, <2>6, <2>8 DEF f, g
<1>7. [other \in EquipmentIds |-> History(other)]'
          = [[other \in EquipmentIds |-> History(other)] EXCEPT ![id] =
                Append(@, [owner |-> owner, data |-> metadata_hash, date |-> now,
                           by |-> signer])]
  BY <1>3, <1>5, <1>6
<1>. QED
  BY <1>1, <1>7 DEF Log!Enter

\* The registry is a log of custody: a step of either call appends one entry, signed by
\* the owner named last or opening the log, and no other step touches a log.
THEOREM CustodyLogKept == Spec => KeepsCustodyLog
<1>1. ASSUME Init PROVE Log!Init
  <2>1. ASSUME NEW id \in EquipmentIds PROVE History(id) = <<>>
    <3>1. latest[id] = 0 /\ History(id) = [version \in 1..0 |-> Entry(id, version)]
      BY <1>1 DEF Init, History
    <3>2. History(id) \in [1..0 -> {}]
      BY <3>1
    <3>3. History(id) \in Seq({})
      BY <3>2, SeqDef
    <3>4. Len(History(id)) = 0
      BY <3>2, <3>3, LenProperties
    <3>. QED
      BY <3>3, <3>4, EmptySeq
  <2>. QED
    BY <1>1, <2>1 DEF Log!Init, Init
<1>2. ASSUME RegistryInv, RegistryInv', NEW id \in EquipmentIds,
             \/ \E owner \in Accounts, metadata_hash \in Metadata :
                   RegisterEquipment(id, owner, metadata_hash)
             \/ \E new_owner, caller \in Accounts : UpdateOwner(id, new_owner, caller)
      PROVE  Log!Next
  <2>1. PICK owner \in Accounts, signer \in Accounts, metadata_hash \in Metadata :
            /\ latest[id] + 1 \in Versions
            /\ latest[id] = 0 => signer = owner
            /\ latest[id] > 0 =>
                  /\ latest[id] \in Versions
                  /\ signer = snapshots[id][latest[id]].owner
                  /\ metadata_hash = snapshots[id][latest[id]].metadata_hash
            /\ Store(id, SnapshotNow(id, latest[id] + 1, owner, metadata_hash), signer)
    BY <1>2, CallsAppend
  <2>2. Log!Enter(id, owner, metadata_hash, signer)
    BY <1>2, <2>1, CallsEnter
  <2>. DEFINE logs == [other \in EquipmentIds |-> History(other)]
  <2>3. /\ latest[id] \in Nat
        /\ logs[id] = History(id)
        /\ Len(History(id)) = latest[id]
    <3>1. latest[id] \in Nat /\ History(id) \in [1..latest[id] -> AnEntry]
      BY <1>2, EntryType DEF RegistryInv
    <3>2. History(id) \in Seq(AnEntry)
      BY <3>1, SeqDef
    <3>. QED
      BY <3>1, <3>2, LenProperties
  <2>4. CASE latest[id] = 0
    <3>1. Log!Open(id, owner, metadata_hash)
      BY <2>1, <2>2, <2>3, <2>4 DEF Log!Open
    <3>. QED
      BY <3>1 DEF Log!Next
  <2>5. CASE latest[id] # 0
    <3>1. Log!LastEntry(id) = Entry(id, latest[id])
      BY <2>3, <2>5 DEF Log!LastEntry, History
    <3>2. metadata_hash = Log!LastEntry(id).data /\ signer = Log!LastEntry(id).owner
      BY <2>1, <2>3, <2>5, <3>1 DEF Entry
    <3>3. Log!Sell(id, owner)
      BY <2>2, <2>3, <2>5, <3>2 DEF Log!Sell
    <3>. QED
      BY <3>3 DEF Log!Next
  <2>. QED
    BY <2>4, <2>5
<1>3. ASSUME RegistryInv, CloseLedger PROVE Log!Next
  <2>1. now' > now
    BY <1>3 DEF CloseLedger, RegistryInv, TypeOK
  <2>2. [id \in EquipmentIds |-> History(id)]' = [id \in EquipmentIds |-> History(id)]
    BY <1>3 DEF CloseLedger, History, Entry
  <2>3. Log!NextDay
    BY <2>1, <2>2 DEF Log!NextDay
  <2>. QED
    BY <2>3 DEF Log!Next
<1>4. ASSUME UNCHANGED registryVars PROVE UNCHANGED Log!logVars
  BY <1>4 DEF registryVars, Log!logVars, History, Entry
<1>5. RegistryInv /\ RegistryInv' /\ [Next]_registryVars => [Log!Next]_(Log!logVars)
  BY <1>2, <1>3, <1>4 DEF Next
<1>. QED
  BY <1>1, <1>5, InitInv, StepsKeepInv, PTL DEF Spec, Log!Spec, KeepsCustodyLog

=============================================================================
