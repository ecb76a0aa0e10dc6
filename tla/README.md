# MaintChain: a TLA+ model

MaintChain keeps maintenance records of industrial equipment. A technician opens a
maintenance order and submits evidence, a supervisor approves or rejects it, an auditor
certifies it. Five Soroban (Stellar) contracts hold the decisions, a Rust backend (axum,
sqlx, PostgreSQL) holds the rows and sessions, and a Next.js frontend signs contract calls
with the user's wallet and mirrors each of them to the backend.

This directory holds TLA+ modules translated from that code, TLC configurations that check
them on small instances, and proofs checked by TLAPS for instances of any size.
`PROJECT.json` is the index: components, runs, the source lines behind every definition,
mutants (one plausible bug per property, which its run must catch), hazards, findings and
theorems.

    tlc -workers 2 -config Chain.cfg MCComplianceChain.tla      # one run
    tlapm ComplianceChainProofs.tla                             # one set of proofs

## 1. Inventory

Paths are relative to the repository. "Correct when" names what has to hold of a component.

| Component | State | Operations | Correct when |
|---|---|---|---|
| MultiPartyApproval (`contracts/multi-party-approval`) | `ApprovalState` per maintenance id: three seats, three flags, auditor_required | set_auditor_required, approve_by_technician, approve_by_supervisor, reject_by_supervisor, approve_by_auditor, verify | a seat never changes hands; a flag has a holder; verify is withdrawn only by the supervisor or by asking for an auditor |
| MaintenanceRecords (`contracts/maintenance-records`) | `MaintenanceOrder` per id, the authorized completer | create_record, submit_evidence, update_status, set_authorized_completer, complete | orders keep their technician and evidence; Compliant only through the completer |
| ComplianceAttestation (`contracts/compliance-attestation`) | `Attestation` per id | issue_certificate (calls verify and complete of the contracts its caller names), get_attestation | a certificate that names the deployed contracts stands over a verified, existing, completed order |
| EquipmentRegistry (`contracts/equipment-registry`) | latest version per equipment, every snapshot | register_equipment, update_owner | chain of custody has no gap, the past is never rewritten, hashes are distinct |
| IdentityRegistry (`contracts/identity-registry`) | `VerificationRecord` per wallet | verify_identity (overwrites), get_verification, is_verified | a wallet's record is its own latest |
| Backend: orders, evidence, approvals (`backend/src/main.rs`, `audit.rs`) | tables users, maintenance_records, approvals | create_maintenance_order, submit_evidence, upload_evidence_file, supervisor approve/reject, auditor approve, get_audit_trail, register_user | status and approvals agree whatever interleaves or stops; the trail is append-only; what a handler answers was so |
| Backend: challenges and sessions (`backend/src/auth.rs`) | challenge_nonces | create_challenge, verify_challenge, identity_middleware | a session only for a wallet that signed its challenge; a used challenge serves nobody again |
| Backend: identity mirror (`main.rs` create_verification) | user_verifications | create_verification, get_verification_by_stellar | a wallet's row is what that wallet signed |
| Backend: on-chain queries (`complaint.rs`, `soroban_client.rs`, `soroban_rpc.rs`) | none | check_eligibility, verify_compliance, verify_transaction | the chain is asked only about what the records back |
| Backend: transaction log (`tx_log.rs`), evidence files (`storage.rs`) | transaction_log rows; files on Pinata IPFS | insert, list; upload_to_ipfs, best effort | - |
| Frontend: contract invocation (`lib/soroban.ts`, `hooks/useTransactionState.ts`) | status of one transaction as shown | invokeContract, poll, check again | what the user is told is what the ledger did |
| Frontend: pages approve, upload, audit, register, get-verified | local form state | one contract call, then one or more backend requests | chain and database tell the same story after failures and retries |
| Frontend: session (`hooks/useSoroban.ts`, `app/api/[...proxy]/route.ts`) | session cookie, connected address | connect, verify wallet, check session, proxy, logout | the session belongs to the connected wallet |
| Presentation, static content, analytics, scripts, CI | - | - | no protocol state |

### Interactions

- **Contract to contract.** `issue_certificate` calls `verify` of one contract and `complete`
  of another inside one transaction. A panic in any of them reverts all. Which two contracts
  these are is for the caller to say, who may be anybody; the audit page names the deployed
  MultiPartyApproval and MaintenanceRecords.
- **Frontend to chain to backend.** The approve, upload and audit pages first send a contract
  call, wait for the transaction, then send the backend request that mirrors it. Nothing ties
  the two together. The backend checks a transaction hash only in `approve_by_auditor`, and
  there only that the transaction succeeded.
- **Handler to handler.** Handlers share PostgreSQL and nothing else. No handler opens a SQL
  transaction or takes a lock, so each statement commits by itself and handlers interleave
  between statements.
- **Backend to chain.** Read-only simulation (`verify_compliance`) and `getTransaction`.

### Where the behaviour is hard

1. Sequences of legal contract calls by strangers: seats go to the first caller,
   `update_status` asks for no authorisation, `submit_evidence` works from every status.
2. Interleaved backend handlers that check once and write later, and handlers that stop
   between two statements.
3. Partial failure across the chain and the database, retries of what already happened, a
   timeout that races a late success.
4. Who the user is: every page has its own instance of `useSoroban`, they share an address in
   localStorage and one cookie, and answers to one tab arrive after another has moved on. One
   instance may have several connects under way. The nonce of a login is read, checked and then
   marked.
5. Handlers that go on with the wallet of the render they were clicked in, while another
   instance switches the wallet, and forms whose fields are stored trimmed and used as typed.
6. The pair of keys an equipment snapshot lives under.

`PROJECT.json` lists each at its line under "hazards", with the properties that watch it.

## 2. Modules

| Module | Models | Notes |
|---|---|---|
| `MultiPartyApproval` | the approval contract | one action per mutating call, `Verified` for verify |
| `MaintenanceRecords` | the calls of the records contract | run by `ComplianceChain` |
| `ComplianceChain` | the two above and ComplianceAttestation, composed by INSTANCE | `IssueCertificate` is the atomic cross-contract call with any two contracts; the statuses asked of update_status are a constant |
| `CompliancePromise` | abstract specification: roles, assent, and on whose word a certificate stands | implemented by `ComplianceChain` (`KeepsPromise`) |
| `EquipmentRegistry` | the equipment contract and its hash | the hash is its preimage; implements `CustodyLog` |
| `CustodyLog` | abstract specification: a log per machine, extended by the signature of its last owner | implemented by `EquipmentRegistry` (`KeepsCustodyLog`) |
| `MaintenanceBackend` | the handlers that write records and approvals, and the two that answer from both | one action per SQL statement; implements `RecordPromise` |
| `RecordPromise` | abstract specification: a record's technician, approvals, signatures and certification | implemented by `MaintenanceBackend` (`KeepsRecordPromise`) |
| `ContractPage` | the pages that call a contract and mirror the call, with invokeContract | one action per stretch of JavaScript between two awaits |
| `WalletSession` | the instances of useSoroban, the proxy's cookie, challenge and verify | the same, and one action per statement of verify_challenge; implements `SessionPromise` |
| `SessionPromise` | abstract specification: one wallet signed in per browser, by its own proof to this attempt, for a limited time | implemented by `WalletSession` (`KeepsSessionPromise`) |
| `IdentityRegistry` | the identity contract | run by `IdentityFlow` |
| `IdentityFlow` | Get Verified, the register page's effect, users, user_verifications, the registry (INSTANCE) | one action per await of the page; implements `IdentityPromise` |
| `IdentityPromise` | abstract specification: the file, the signed letters, the chain and the copy of a wallet | implemented by `IdentityFlow` (`KeepsIdentityPromise`) |
| `MC*` | constants and symmetry for TLC | no definition of the model is replaced |
| `*Proofs` | theorems and inductive invariants | |

### Contracts

A contract call is one transaction, so it is one step; a call that panics changes nothing
and is not a step. `require_auth(x)` becomes the choice of the caller `x`. Instance storage
is a function from ids to the stored record or to a sentinel for "no entry". Events, TTL
extension and resource limits are left out: no call reads them. In `ComplianceChain` a user
may sign any call with any argument, in any order, and users may name themselves or the
attestation contract as completer; `scripts/deploy-contracts.mjs` never sets a completer, so
`Init` has none. `decision` of approve_by_supervisor is 32 bytes of which only the first is read:
`FirstBytes` has the value that approves and two others.

`issue_certificate` asks for no authorisation, and its caller passes the ids of the contracts
to ask and to tell, which are neither checked nor stored. `CertificateCall` picks each freely:
the deployed contract (`ApprovalId`, `RecordsId`) or one of `OtherIds`, whose `verify` answers
whatever it likes and whose `complete` touches nothing of ours (`VerifyAt`, `CompleteAt`).
`named` is a history variable, read by no guard: the contracts the last certificate of an id
names. The properties speak of each of the two separately, for the code ties neither to the
other.

`EquipmentRegistry` keeps the two keys of the code apart, the pointer (`latest`) and the
snapshots, since it is their agreement that can go wrong. `signers` is a history variable, read by no
guard: whose `require_auth` stands behind each snapshot. SHA-256 is taken as collision
free: a hash is the record of the fields that enter its preimage, in the code's order.

### Backend

A handler in flight is a record in `request`: the kind of call, its arguments and the
statement it executes next. `Receive` admits a call after the middlewares, the actions
`Identify` ... `Reply` are the statements, `Abandon` ends a handler after any of them (a
database error, a client that hangs up, a restart), and what was committed stays.

| Handler | Walk through the stages |
|---|---|
| create_maintenance_order | identify, insert, reply |
| submit_evidence | update (evidence and SUBMITTED), reply |
| supervisor approve, reject | update (status), resolve (the approver's row), record (insert), reply |
| approve_by_auditor | count (supervisor approvals), verify (the transaction), resolve, record, certify, reply |
| upload_evidence_file | update, and it returns |
| get_audit_trail | read (the record), events (its approvals) |
| check_eligibility | count, count_auditors, simulate |
| register_user | one statement, `RegisterUser` |

The network's answer to `verify_transaction` is external: `succeeded` grows by
`LedgerApplies`. Ids no record exists for are admitted everywhere, as in the code: an update
of such an id succeeds and changes nothing, and the foreign key refuses the insert.

### Frontend

`ContractPage` is one open page: approve, upload or audit (`page.name`); `Load` reloads it or
opens another. JavaScript runs from one
await to the next without interruption, so the state of a running handler is the await it
waits in and its closure (`handler`), and a step takes it to the next await or its end.
Handlers run at the same time when their buttons allow it: "Check again" is in flight while
the action button is enabled. They share what the code lets them share, the state machine
(`page`), the flag that disables buttons (`processing`) and the remembered operation
(`context`). A handler walks like this:

    prepare (upload) -> sequence -> simulate -> sign -> submit -> poll ... -> mirror -> end
    Check again:     recheck -> remirror (only with a remembered operation) -> end

Any await before the mirror may throw (`Fail`), and an answer of `sendTransaction` that gets
lost may leave the transaction behind. `txs` and `mirrors` are external: what the network got
and applied, and how often the backend committed a mirror request. `MaintenanceBackend` has
the inside of such a request; here it commits or not, and its answer arrives or not. The
backend refuses ids that are not UUIDs (`Uuids`), the contract ids of more than 32 bytes
(`FitsContract`), and only the upload page, where the id is typed, can have an id both take:
the audit page sends the constant `REC-DE-4471`, which the backend refuses, and the approve
page the hyphenated UUIDs the backend lists, which the contract refuses.

### Sessions

`WalletSession` has one state per instance of `useSoroban`: what it shows (`hook`) and the
answer of `/api/auth/me` on its way to it (`me`), which only mounting asks for
(useSoroban.ts:396). A running `connectWallet` has a number (`Attempts`) with what its closure
holds (`connect`), the row of `challenge_nonces` made for it (`nonce`) and the count of
verifications of that row between its check and its update (`past`). Nothing in the hook or its
buttons keeps a user from connecting or disconnecting while an earlier connect runs, so one hook
may have several. Instances share `persisted` (localStorage) and `cookie`, and hear of changes
through `notified`: in the same tab at once, in other tabs when the storage event arrives.

| Code | Actions |
|---|---|
| connectWallet: requestAccess, then verifyWallet | `Access` or `Decline`, `Challenge`, `Sign` (or `Fail` at any of them) |
| verify_challenge: select and check of used, expiry and signature; update | `ReadNonce`; `MarkNonce` |
| the proxy's cookie, and the answer to the hook | `Issue` |
| checkSession | `MeArrives`, `MeLost`; the request is sent when a hook is mounted |
| disconnectWallet, and the logout nobody waits for | `Disconnect`, `LogoutEnds` |
| a page that is loaded, a storage event | `Reload`, `StorageEvent` |
| the five minutes of a nonce, the day of a cookie | `Tick`, `CookieExpires` |

A verify request that carries the wallet's signature may be delivered again, while the first is
between its statements, after it was answered, or after the connect has its session (`Sent`).
Each delivery that reads the row unused is one more of `past`, so two of them can both be past
the check before either marks the row: the code allows it and so does the model. What the code
does see to is `ReplayIsRefused`: after the session is issued the row is used, and no further
delivery gets in.

A lifetime is what is left of it, so no clock grows. A challenge keeps its row until its number
is taken by another connect or its connect is given up; a signature is the choice of the
signer, who may use any of the wallets of the user's Freighter. `proved` and the `own` of a
cookie are history, read by no guard of the code's: whether any wallet signed a challenge naming
it, and whether this one did. `own` of a connect decides whether its verify is answered.

### Get Verified

A page of `IdentityFlow` is its step (the names of the code's `Step`) with what its hook
shows (`address`, `verified`) and what its handler holds: `by` is the address of the closure,
`existing` the wallet of existingUser, `profile`, `tx`. One handler runs at a time on a page,
its buttons are gone meanwhile. What other instances of `useSoroban` do is three actions
(`ConnectElsewhere`, `ProveElsewhere`, `ForgetElsewhere`), coarser than in `WalletSession`:
here they matter only as a wallet that changes under a running handler. Each request of the
page is one step with the backend handler it reaches, for each touches one row by one
statement that counts (create_verification's second statement only decides the answer, see
`Mirror`). `Apply` lets the network apply a transaction at any time or never.

A profile is name, role and organization together. Registration sends name and organization
trimmed, and the page goes on to the review with the fields as typed, which are also what it
hashes and signs (get-verified/page.tsx:277, 281, 324): `Trim` is this conversion, `InsertUser`
stores the trimmed profile and reviews the typed one, while a lookup or the reload after a 409
shows the row (`LookUpUser`, `ReloadUser`). Of `Trim` only that it is idempotent is assumed.

## 3. Runs

| Run | Instance | Shows |
|---|---|---|
| `approval` | 2 ids, 2 users | seats are kept, flags have holders, verify is withdrawn in two ways only |
| `chain` | 1 id, 2 users, 2 hashes, 2 certificates, 1 contract besides the deployed ones | `OrdersAreKept`, `CertificatesAreBacked`, `CompleterIsFinal`, `ComplianceIsCertified`, and the refinement `KeepsPromise` |
| `equipment` | 2 machines, 2 owners, 3 versions, 3 ledger times | custody unbroken, hashes distinct, and the refinement `KeepsCustodyLog`: no entry without the consent of the owner before it |
| `backend` | 1 record, 2 users, 2 requests in flight, 3 approval rows | records and approvals agree under every interleaving and every stop; a trail or an eligibility answer put together from several statements was backed by the rows (`AnswersAreBacked`); and the refinement `KeepsRecordPromise` |
| `page_in_turn` | 3 pages, 3 ids, 1 handler, 2 polls, 2 transactions, a node that refuses and answers NOT_FOUND | after a timeout the page remembers the right operation; COMPLETE means mirrored |
| `page_overlap` | as above with 4 ids, 2 handlers | at most one mirror per transaction of an operation; the card comes to rest |
| `page_confirmed`, `page_recheck` | 1 or 2 handlers | violations, see "Findings" |
| `session` | 2 wallets, 2 hooks in 2 tabs, 2 connects of one hook, 2 things under way, challenges of 1 tick and sessions of 2 | a session and a "Verified" badge go back to a wallet that signed (`SessionIsProven`, `BadgeIsProven`); a used challenge serves nobody again (`ReplayIsRefused`); hooks agree on the wallet or are about to; no hook is left without an outcome of checkSession (`NobodyWaitsInVain`); connects and sessions end; and the refinement `KeepsSessionPromise` |
| `identity` | 2 wallets, 3 profiles (one is another with blanks around it), 2 pages, 2 transactions or 1 and a switch elsewhere | a mirror row is what its wallet signed, the profile under review is, up to trimming, the one on file, versions count applied transactions, a success without warning is mirrored; and the refinement `KeepsIdentityPromise` |
| `backend_pending`, `identity_own` | smaller instances of `backend` and `identity` | violations, see "Findings" |

### Bounds

- *Ids.* A contract call reads and writes one id (and the one completer), so one id is
  enough for the properties of `chain`; `approval` and `equipment` use two, so
  that an operation reaching for the wrong id would show.
- *Users.* Every comparison of users in the code is equality with one stored user: a holder
  and a stranger are enough. Two users can fill three seats in every way that matters
  (same, different, empty).
- *Slots, MaxApprovals* (`backend`). Two requests in flight interleave every pair of
  handlers. Three rows allow a supervisor's approval, a second decision and an auditor's
  row. `MaxApprovals` guards the insert alone, so that a handler at the bound can still be
  abandoned.
- *MaxVersion, MaxTime* (`equipment`). Three versions have a first, a middle and a last
  link; with three ledger times both equal and different timestamps occur.
- *MaxPolls, MaxTxs, Slots* (`page_*`). Of the 15 polls the first, which has heard nothing
  yet, and the last, after which the loop ends, differ: two polls have both. Two
  transactions are an operation and its retry, or two operations that meet. Begin is guarded
  by the transactions still to come, so that no handler is stopped by the bound. Two slots
  hold a handler and a re-check, or two re-checks.
- *OtherIds* (`chain`). The code tells a contract that is not ours from ours, and no two of
  the former from each other: one stands for all.
- *Hooks, Attempts, CallersOf, MaxInFlight* (`session`). Two instances in two tabs share
  localStorage and the cookie and nothing else; two in one tab hear of a change at once, which
  leaves fewer interleavings. The hook "header" has both connects; the other one listens,
  disconnects, checks and is reloaded. Connects of both hooks at once would make the run longer
  than is practical: they write less in common than two of one hook, and the theorems are about
  any number of connects of any hooks. Two things under way (a connect, a second delivery of its
  signature, a logout, an answer of `/api/auth/me`, a storage event) meet in every pair; nothing
  bounds how many follow one another.
- *NonceTTL, SessionTTL* (`session`). A challenge is alive or expired: one tick has both. A
  session of two ticks is new, older (`GrowOlder` of `SessionPromise`) or expired.
- *MaxTxs, MaxSwitches, MaxStarted* (`identity`). Two transactions are a retry of one page or one
  of each of two pages; one transaction and one switch elsewhere have the wallet change under a
  running handler (`MaxStarted` bounds the two together). A second switch comes from the pages
  themselves, whose `Connected` is not bounded. `Execute` counts the pages about to submit, so that no handler is stopped by the
  bound.
- *Profiles, Typed, Trim* (`identity`). "padded" is "technician" with blanks, typed by somebody;
  the trimmed "technician" is only ever read back from its row; "supervisor" is typed as stored.
- *Ids* (`page_*`). One id that contract and backend take, one the backend refuses, and
  one (two in `page_overlap`, for two handlers of the approve page) the contract refuses.

The theorems do not depend on these sizes. Deadlock checking is off for `equipment` and
`backend`, where the bounds (or a system nobody calls) stop the model; the code does not.

### Fairness

For contracts and backend none is assumed: no call has to be made by anybody, and a handler
may stop at any await. `ContractPage` assumes weak fairness of `Answered(s)` for every
handler: a fetch is answered or throws, and the one-second timer between polls fires, as the
browser guarantees. It covers the awaits from the submission on; the wallet's signature waits
for a person, and neither the user nor the network is assumed to do anything (`Apply` is
unfair: a transaction may never be applied). Under it `SpinnerEnds` holds: the attempts are
counted, and every branch of the handlers ends in a state that is not a spinner.

`WalletSession` assumes it of `Served(a)` (a request of a connectWallet is answered or fails) for
every connect, and of `TimePasses` (time goes on, and the browser drops what is past its
Max-Age). `Access`, `Sign` and `Disconnect` are the user's and unfair, so a connect may wait at
Freighter's prompt for ever: `ConnectEnds` is about every other await. Nothing is assumed of the
answers of `/api/auth/me` and `/api/auth/logout`. `IdentityFlow` has no liveness property.

## 4. Findings

Each is a run that TLC ends with a counterexample, for a statement quoted from the
repository.

| Run | The repository says | The code does |
|---|---|---|
| `backend_pending` | "Record supervisor approval + set status to PENDING_APPROVAL" (main.rs:507) | the status is committed first; if the approver has no row, or the handler stops, nothing is recorded |
| `page_confirmed` | "Always 'SUCCESS' — invokeContract throws on failure" (soroban.ts:111) | only PENDING and FAILED throw: a refused transaction, or one the node answers NOT_FOUND for after the last poll, is returned as SUCCESS and mirrored |
| `page_recheck` | the context lets "Check again" "resume the backend DB mirror" (upload/page.tsx:31) | it is read after the poll's await; an upload started meanwhile clears it, and the re-check ends in COMPLETE without a mirror |
| `identity_own` | Get Verified writes "your identity", one that "travels with your Stellar wallet" (ONBOARDING.md:61); connectWallet's result spares "reading stale state from the closure" (get-verified/page.tsx:167) | the lookup reads the address of the closure: when Freighter returns another wallet than the one shown, the profile of the old one is loaded and signed with the new one |

`page_confirmed` rests on what the node answers for a transaction it has not applied. The
code expects PENDING; the RPC of Soroban documents NOT_FOUND, which every run of the pages
uses (`MissAnswer`). A refusal by `sendTransaction` (ERROR, TRY_AGAIN_LATER) takes the same
path: it is in the other three runs, and `page_confirmed` does without it. No passing run and no
theorem says that COMPLETE means applied, for the code does not see to it.

What three of the violations need is itself proved, in theorems that add one condition to `Spec`
and conclude the violated property:

| Run | Theorem | Condition |
|---|---|---|
| `backend_pending` | `PendingApproved` | no approval ends between its update of the status and its insert (`DecisionsFinish`) |
| `page_recheck` | `CompleteMirrored` | no action is started while a handler runs (`ActionsWait`) |
| `identity_own` | `OwnUnlessSwitched`, `OwnWithOneWallet` | the wallet is not switched while a profile is up for review; there is one wallet (blanks around the fields never violate it, see below) |

Other divergences were met and have no run of their own.

Contracts and backend:

- "No off-chain logic can mark a record compliant without going through this contract"
  (STELLAR_INTEGRATION.md:264), that is, without MultiPartyApproval. There are two ways around
  it. update_status sets any status, Compliant included, for any caller (maintenance-records
  lib.rs:114): `ComplianceIsCertified` is therefore checked and proved for systems in which
  nobody asks update_status for it. And issue_certificate asks whichever approval contract its
  caller names (compliance-attestation lib.rs:32): with another one an order nobody approved is
  certified and completed, and with another records contract a certificate is stored for an id
  that has no order, while the comment at lib.rs:29 has it issued "if the maintenance record is
  eligible". `CertificatesAreBacked`, `ComplianceIsCertified` and `CompliancePromise` say what is
  left: what a certificate is worth if it names the deployed contracts. The contract does not
  store which ones were named, so a reader of an attestation has to look at its transaction.
- The supervisor reviews "exactly what the technician submitted" (PROJECT_GUIDE.md:78):
  submit_evidence replaces the hash after the approval, which stands (lib.rs:101).
- The auditors' "certification is the terminal state" (PROJECT_GUIDE.md:108): evidence and
  decisions of the backend move a COMPLIANT record to another status (main.rs:434, 539).
- "independent roles" (README.md:7): a caller is compared with the holder of the same seat
  only, so one address can be technician and supervisor of a certified record.
- Certificates are "Permanently on-chain" (README.md:152): when an order is brought back to
  PendingApproval, a second issue_certificate overwrites the attestation. `CompliancePromise`
  therefore promises that a certified id stays certified, by a later certificate if need be.
- check_eligibility asks the chain about the 16 bytes of a record's UUID extended by zeros
  (soroban_rpc.rs:57), while the pages write the id as a string (`FitsContract`): the two never
  name the same entry.
- create_verification "Persists a successful on-chain verification" (main.rs:904): the hash
  it is given is stored unchecked. Verifying a wallet a second time updates its old row and
  then selects by the new id: the change is committed and the answer is 500, so the page warns
  of a failed mirror (`Mirror` of `IdentityFlow`).
- The dashboard counts records that are REJECTED, a status nothing writes (main.rs:1045).
- The transaction log "Mirrors frontend on-chain transaction status events" (SYSTEM_DESIGN.md:276):
  the pages send no error, so post_tx_log stores RPC_ERROR and TIMEOUT as PREPARING
  (tx_log.rs:74), and the hash they send is the one of the last render (audit/page.tsx:94).

Frontend:

- DATABASE_SYNC_FAILED is "on-chain succeeded, mirror failed" (useTransactionState.ts:95):
  outside of Check again a failed mirror is shown as RPC_ERROR (`Mirror`).
- toBytesN32 makes a BytesN<32> of "maintenance IDs" (soroban.ts:340): a hyphenated UUID
  gives 36 bytes, and the simulation of the call fails (`FitsContract`).
- The approve page sends the decision `0x00...01`, of which the contract reads the first byte
  and records a rejection, while STELLAR_INTEGRATION.md:253 says 1 is an approval.
- Get Verified hashes name and organization as typed, while registration stored them trimmed
  (get-verified/page.tsx:277, 324): the profile hash a wallet signs need not be that of its row,
  and a later visit, which loads the row, signs another one. `ReviewIsOnFile`, `IdentityIsOwn`
  and `IdentityPromise` compare profiles after trimming, and say that they differ by no more.
- The nonce is marked "as used (prevents replay)" (auth.rs:236) some statements after it was read
  as unused, and the update does not look again: two deliveries of one answer can both be
  answered "verified". `ReplayIsRefused` has what holds.
- Get Verified started without a wallet connects one and then reports "Session Required":
  the address it tests is that of the closure, still null (get-verified/page.tsx:181).
- "your wallet signature has been validated" (WalletConnectPanel.tsx:66): checkSession does not
  compare whose session it is with the address shown (useSoroban.ts:209), so after a connect
  elsewhere the badge may speak of another wallet. `BadgeIsProven` is what does hold.
- The proxy, for an expired session, "clears the cookie and returns 401"
  (STELLAR_INTEGRATION.md:454): only `/api/auth/me` clears it, and answers 200.
- "Check again" after a confirmation timeout (README.md:449): Get Verified has Try Again
  only, which signs once more, and the mirror of the first transaction is never resumed.

## 5. Proofs

All theorems are about the specifications themselves, for every value of the constants that
meets the modules' ASSUMEs (sentinels differ from values, bounds are natural numbers).

- `MultiPartyApprovalProofs`: `TypeCorrect`, `SeatsKept`, `HoldersOnRecord`, `VerifyStands`.
  `ApprovalsHaveHolders` with `TypeOK` is inductive as it stands; the action properties
  follow from `TypeOK` and one case per call.
- `ComplianceChainProofs`: `TypeCorrect`, `CertificatesBacked`, `CompleterFinal`, `OrdersKept`,
  `ComplianceCertified`, and the refinement `ChainKeepsPromise`. `CertificatesAreBacked` is not
  inductive alone: that a certificate on the deployed approval contract's word had a supervisor
  on record needs `ApprovalsHaveHolders` of the composed contract, and that it keeps one needs
  that seats are kept; the inductive invariant `ChainInv` joins the three. `CompleterFinal`
  needs that no user is the attestation contract (an ASSUME of the module).
  `ComplianceCertified` holds under the hypothesis `"Compliant" \notin StatusUpdates`; without
  it a call of update_status by anybody is the counterexample. The refinement maps the flags to
  the set of assenting roles, `auditor_required` to the set of needed roles and `named` to
  whoever vouches; each call is an `Assent`, `Dissent` or `Require` step, `IssueCertificate` is
  `Certify` on the word of the contract it names, and the calls of MaintenanceRecords are
  stutters. None of the theorems assumes which contracts are named, by whom, or that an earlier
  certificate of the same id named the same ones.
- `EquipmentRegistryProofs`: `TypeCorrect`, `CustodyUnbroken`, `HistoryKept`,
  `HashesDistinct`, and the refinement `CustodyLogKept`. The inductive invariant `RegistryInv`
  adds that every stored snapshot is sealed: its hash is that of its own id and version, and
  it is not dated later than now. `HistoryKept` has no run of its own: a log that only grows
  (`KeepsCustodyLog`) is the stronger statement of the two.
  The refinement reads the snapshots up to `latest` as the log of a machine: a registration is
  `Open`, a transfer `Sell`. That each appends exactly one entry needs `CustodyIsUnbroken`; that
  an entry is signed by the owner before it needs the signers kept with the snapshots.
- `MaintenanceBackendProofs`: `TypeCorrect`, `CompliantApproved`, `AuditorsSecond`,
  `TxBooked`, `AnswersBacked`, `AppendOnly` and the refinement `BackendKeepsPromise`, for any
  number of requests in flight (`AppendOnly` has no run of its own; every insert appends). The
  statuses and rows alone are not inductive, since a handler acts on what it read earlier.
  `BackendInv` therefore says what a handler knows at each stage (`HandlerKnows`: past "count" the
  supervisor's row exists, past "verify" the transaction succeeded, past "record" its own
  row exists), which stays true while others run because rows are only appended.
  The refinement reads the tables as the promise's variables: an insert of a record is `Open`
  (that its id is still free needs `IdsAreFresh`), an appended row `Approve` or `Sign`, the
  auditor's last update `Certify`, every other write `Reopen` or a stutter.
  `PendingApproved` is about runs in which no approval is cut off (`DecisionsFinish`). Its
  invariant `ApprovalsAreComing` says that a record pending approval has the approval or a
  handler at "resolve" or "record" on its way to it (`Deciding`).
- `ContractPageProofs`: `TypeCorrect` and `MirroredPerTx`, for any number of handlers and any
  answers of the node, finite `Slots` being all that is assumed. The inductive invariant
  `PageInv` keeps an account (`Accounted`): the mirrors of an operation, the handlers on their
  way to one and the one "Check again" may resume are together at most its transactions.
  `TimeoutRemembered` and `CompleteMirrored` are about behaviours in which no action button is
  used while a handler runs (`ActionsWait`; "Check again" may be). `page_recheck` is the
  counterexample without it. Their invariant `TellInv` also says that at most one handler runs
  (`Alone`), since "Check again" is offered only when none does.
- `WalletSessionProofs`: `TypeCorrect`, `SessionProven`, `BadgeProven`, `HooksInAgreement`,
  `NobodyWaits`, `ReplayRefused`, for any number of hooks, tabs, wallets, connects in flight and
  copies of a request. `SessionInv` adds what is still on its way: a connect past its
  verification has its wallet's signature and a row that is marked (`ConnectIsProven`), whatever
  is past the check of a row came with a signature, and the row of a connect that has its session
  stays marked (`RowIsProven`); every answer to `/api/auth/me` that names a user goes back to a
  wallet that signed. Each step moves every connect in one of nine ways (`Moves`), so that the
  invariant is proved of one connect at a time. `ReplayRefused` is about the step after the
  session, where `RowIsProven` refuses the check. The refinement `SessionPromiseKept` takes
  what a running connect has been signed by its own wallet as the proof of the promise
  (`Proof`): `Sign` is `Prove`, `Issue` is `SignIn`, a failed connect or a reload `Waste`, logouts
  and expiries `End`. The promise gives a proof to one attempt, which ends with its session; it
  does not say that nobody else could use it.
- `IdentityFlowProofs`: `TypeCorrect`, `MirrorOwnTx`, `ReviewOnFile`, `SyncedMirrored`,
  `VersionsCount`, for any number of wallets and of (finitely many) pages. `FlowInv` says what
  a page holds at each step (`PageKnows`): past the submission, a transaction of its own wallet
  and profile. It survives the steps of others because transactions keep their wallet and
  profile and rows of users are never changed. `VersionCounts` is inductive with `TypeOK`. The
  refinement `IdentityPromiseKept` reads the table of users as the file, the transactions as
  letters, the registry as the chain and user_verifications as the copy. That a letter is about
  a profile on file, and that only filed wallets sign (`SignersFiled`), come from `PageKnows`;
  `Submit` is `Sign`, `Apply` is `Honour` or `Refuse`, `Mirror` is `Copy`, and both ways to
  register are `Enrol`. All of them compare a profile with a row after `Trim`, which a row
  survives unchanged since `Trim` is idempotent (an ASSUME). `OwnUnlessSwitched` adds to
  `FlowInv` that a page about to sign holds its signer's own profile (`SignersReviewed`), which
  the condition `ReviewedWalletStays` keeps; with one wallet that condition follows from
  `FlowInv` (`OwnWithOneWallet`).

Out of the prover's reach: liveness under fairness and ENABLED, induction over data, and
recursive operators. Of these the project uses the first alone: `SpinnerEnds`, `ConnectEnds` and
`SessionEnds` stay with TLC. Every other property of the runs that pass is a theorem, and so is,
under its condition, each one that a run shows violated, but for `CompleteIsApplied`, which holds
only of a node that answers as the RPC does not.

## 6. Not modelled

- Events, storage TTL, fees and size limits of the contracts: no call reads them.
- `register_equipment` of the backend (an upsert nothing else waits on), the read-only lists
  and dashboards.
- The transaction log: rows are inserted and listed, and no code decides by them. IPFS: the
  upload is best effort and its result is stored as it is.
- Of the hook: balances, the network check, sendXlm. Of the pages: forms, banners, retry
  counts, and a page left by a link, whose handlers run on with nobody looking.
- Rendering, static pages and data, analytics, feedback mail, deployment scripts, CI. These are
  most of the lines of the repository: what is left for a model, contracts and handlers
  included, is a few thousand lines, so the share of all lines the modules stand for stays low.
- Cryptography: a signature is the choice of the signer, a hash is its preimage.

## 7. Plan

Done: the contracts and their composition over `CompliancePromise`, the backend's records and
approvals over `RecordPromise`, custody over `CustodyLog`, the pages with "Check again",
sessions over `SessionPromise`, Get Verified over `IdentityPromise`, and the theorems about each.
Left, in order of importance:

1. An abstract specification of what a page and its mirror promise together, for `ContractPage`.
2. `ContractPage` over `ComplianceChain` and `MaintenanceBackend` in place of their outlines
   `txs` and `mirrors`, in an instance of one record and one handler.
