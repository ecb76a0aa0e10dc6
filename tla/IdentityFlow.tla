---------------------------- MODULE IdentityFlow ----------------------------
(***************************************************************************)
(* Get Verified: the pages open on it, the backend's users and             *)
(* user_verifications, and the identity registry.  A page runs one handler *)
(* at a time, its buttons are gone while it does, but a handler works with *)
(* the wallet of the render it was clicked in while other instances of     *)
(* useSoroban connect, fail to and disconnect (WalletSession has their     *)
(* steps; here they change the address of every page at once).  Requests   *)
(* and answers get lost.  Network and contract ids are configured.         *)
(***************************************************************************)
EXTENDS Integers, Sequences, FiniteSets

CONSTANTS
    Wallets,        \* the accounts of the user's Freighter
    Profiles,       \* name, role and organization, as typed or as stored
    Typed,          \* those that are typed
    Trim,           \* name.trim() and organization.trim() || undefined of a profile
    Pages,          \* the Get Verified pages open in the browser
    MaxTxs,         \* bound on transactions submitted
    MaxSwitches,    \* bound on what other instances of useSoroban start
    MaxStarted,     \* bound on both together
    None

ASSUME FlowAssumption ==
    /\ MaxTxs \in Nat /\ MaxSwitches \in Nat /\ MaxStarted \in Nat
    /\ None \notin Wallets \union Profiles
    /\ Typed \subseteq Profiles
    /\ Trim \in [Profiles -> Profiles]
    /\ \A profile \in Profiles : Trim[Trim[profile]] = Trim[profile]
    /\ IsFiniteSet(Pages)

VARIABLES
    page,           \* page -> its step and what its hook and its handler hold
    persisted,      \* the address in localStorage
    session,        \* whom the proxy takes the user for, by the cookie
    switches,       \* how often another instance connected or let go of a wallet
    users,          \* wallet -> its row of users
    mirrored,       \* wallet -> its row of user_verifications
    txs,            \* external: what the network got, a hash is an index into it
    verification    \* the state of IdentityRegistry

flowVars == <<page, persisted, session, switches, users, mirrored, txs, verification>>
ledger == <<txs, verification>>
database == <<users, mirrored>>
browser == <<persisted, session, switches>>

Registry == INSTANCE IdentityRegistry

\* A row of user_verifications.
MirrorRow == [profile: Profiles, tx: 1..MaxTxs]

ASSUME AbsentAssumption == None \notin MirrorRow /\ None \notin Registry!VerificationRecord

\* Where the user acts, and where a handler runs: "reloading_user" is the lookup after
\* a 409, "signing_transaction" all from computing_hashes to submitting_transaction.
Resting == {"idle", "user_form", "review_verification", "success", "error"}

Working == {"connecting_wallet", "checking_readiness", "checking_user", "registering_user",
            "reloading_user", "signing_transaction", "confirming_transaction",
            "syncing_backend"}

\* address and verified are the hook's; by is the address in the closure of the handler;
\* existing is the wallet of existingUser; what the next handler sets first is None.
Page ==
    [step: Resting \union Working, address: Wallets \union {None}, verified: BOOLEAN,
     by: Wallets \union {None}, existing: Wallets \union {None},
     profile: Profiles \union {None}, tx: (1..MaxTxs) \union {None}, synced: BOOLEAN]

At(p, step) == page[p].step = step

\* A page as its hook leaves it, with nothing of a handler's in it.
Blank(address, verified) ==
    [step |-> "idle", address |-> address, verified |-> verified, by |-> None,
     existing |-> None, profile |-> None, tx |-> None, synced |-> FALSE]

Reset(p) == Blank(page[p].address, page[p].verified)

Rest(p, step) == page' = [page EXCEPT ![p] = [Reset(p) EXCEPT !.step = step]]

Review(p, wallet, profile) ==
    page' = [page EXCEPT ![p] = [Reset(p) EXCEPT
        !.step = "review_verification", !.existing = wallet, !.profile = profile]]

Goto(p, step) == page' = [page EXCEPT ![p].step = step]

\* proxyRequest wants a session, identity_middleware looks at stellar_address in a JSON
\* body: a GET is forwarded for whatever address is in its path.
GetForwarded == session # None

PostForwarded(wallet) == session = wallet

\* Transactions, those about to be submitted included.
Signing == {p \in Pages : At(p, "signing_transaction")}

Submitted == Len(txs) + Cardinality(Signing)

-----------------------------------------------------------------------------
(* Other instances of useSoroban, and a page that is loaded *)

Switch ==
    /\ switches < MaxSwitches /\ switches + Submitted < MaxStarted
    /\ switches' = switches + 1

Everywhere(wallet) == [p \in Pages |-> [page[p] EXCEPT !.address = wallet]]

\* connectWallet in the header or another tab: the address first, the session later.
ConnectElsewhere(wallet) ==
    /\ Switch
    /\ persisted' = wallet
    /\ page' = Everywhere(wallet)
    /\ UNCHANGED <<session, database, ledger>>

ProveElsewhere ==
    /\ persisted # None /\ session # persisted
    /\ session' = persisted
    /\ UNCHANGED <<page, persisted, switches, database, ledger>>

\* It fails, or disconnectWallet: the pages keep the address they show.
ForgetElsewhere ==
    /\ Switch /\ persisted # None
    /\ persisted' = None
    /\ session' \in {session, None}
    /\ UNCHANGED <<page, database, ledger>>

\* The page is loaded: checkSession has not answered or failed, or found a session.
Load(p) ==
    /\ \E verified \in {FALSE, session # None} :
          page' = [page EXCEPT ![p] = Blank(persisted, verified)]
    /\ UNCHANGED <<browser, database, ledger>>

-----------------------------------------------------------------------------
(* handleConnectAndCheck *)

\* "Start Verification", "Try Again", or the effect of an idle page with a wallet.
Start(p) ==
    /\ At(p, "idle") \/ At(p, "error")
    /\ page' = [page EXCEPT ![p] = [Reset(p) EXCEPT
          !.by = page[p].address,
          !.step = IF page[p].address # None /\ page[p].verified THEN "checking_readiness"
                                                                 ELSE "connecting_wallet"]]
    /\ UNCHANGED <<browser, database, ledger>>

\* connectWallet returns true; soroban.address is still the one of the click.
Connected(p, wallet) ==
    /\ At(p, "connecting_wallet")
    /\ persisted' = wallet /\ session' = wallet
    /\ page' = [Everywhere(wallet) EXCEPT ![p] =
          IF page[p].by = None THEN [Blank(wallet, TRUE) EXCEPT !.step = "error"]
          ELSE [Blank(wallet, TRUE) EXCEPT !.step = "checking_readiness", !.by = page[p].by]]
    /\ UNCHANGED <<switches, database, ledger>>

\* It returns false, and has forgotten the wallet.
NotConnected(p) ==
    /\ At(p, "connecting_wallet")
    /\ persisted' = None
    /\ page' = [page EXCEPT ![p] = [Blank(None, FALSE) EXCEPT !.step = "error"]]
    /\ UNCHANGED <<session, switches, database, ledger>>

\* verification_readiness.
Ready(p) ==
    /\ At(p, "checking_readiness") /\ GetForwarded
    /\ Goto(p, "checking_user")
    /\ UNCHANGED <<browser, database, ledger>>

\* get_user_by_stellar answers 404 for any database error, too.
LookUpUser(p) ==
    /\ At(p, "checking_user") /\ GetForwarded
    /\ \/ users[page[p].by] # None /\ Review(p, page[p].by, users[page[p].by])
       \/ Rest(p, "user_form")
    /\ UNCHANGED <<browser, database, ledger>>

-----------------------------------------------------------------------------
(* handleRegisterUser, and the register page *)

\* "Back" of the form and "Cancel" of the review.
Back(p) ==
    /\ At(p, "user_form") \/ At(p, "review_verification")
    /\ Rest(p, "idle")
    /\ UNCHANGED <<browser, database, ledger>>

Register(p, profile) ==
    /\ At(p, "user_form")
    /\ IF page[p].address = None THEN Rest(p, "error")
       ELSE page' = [page EXCEPT ![p].step = "registering_user", ![p].by = page[p].address,
                                 ![p].profile = profile]
    /\ UNCHANGED <<browser, database, ledger>>

\* register_user: the row is new, and the answer arrives or not.  The request has the
\* trimmed fields; what goes on to the review are the fields as typed.
InsertUser(p) ==
    /\ At(p, "registering_user") /\ PostForwarded(page[p].by)
    /\ users[page[p].by] = None
    /\ users' = [users EXCEPT ![page[p].by] = Trim[page[p].profile]]
    /\ Review(p, page[p].by, page[p].profile) \/ Rest(p, "error")
    /\ UNCHANGED <<browser, mirrored, ledger>>

\* Mutant of Conflict: the 409 is taken for the answer to one's own registration.
ConflictIgnored(p) ==
    /\ At(p, "registering_user") /\ PostForwarded(page[p].by)
    /\ users[page[p].by] # None
    /\ Review(p, page[p].by, page[p].profile)
    /\ UNCHANGED <<browser, database, ledger>>

\* register_user: stellar_address is UNIQUE.
Conflict(p) ==
    /\ At(p, "registering_user") /\ PostForwarded(page[p].by)
    /\ users[page[p].by] # None
    /\ Goto(p, "reloading_user")
    /\ UNCHANGED <<browser, database, ledger>>

ReloadUser(p) ==
    /\ At(p, "reloading_user") /\ GetForwarded /\ users[page[p].by] # None
    /\ Review(p, page[p].by, users[page[p].by])
    /\ UNCHANGED <<browser, database, ledger>>

\* Mutant of RegisterElsewhere: an upsert, as create_verification's.
RegisterElsewhereAgain(wallet, profile) ==
    /\ persisted = wallet /\ PostForwarded(wallet)
    /\ users' = [users EXCEPT ![wallet] = Trim[profile]]
    /\ UNCHANGED <<page, browser, mirrored, ledger>>

\* handleRegister of the register page: whatever it shows, the row is there or not.
RegisterElsewhere(wallet, profile) ==
    /\ persisted = wallet /\ PostForwarded(wallet) /\ users[wallet] = None
    /\ users' = [users EXCEPT ![wallet] = Trim[profile]]
    /\ UNCHANGED <<page, browser, mirrored, ledger>>

-----------------------------------------------------------------------------
(* handleExecuteVerification *)

\* The hashes are computed from the fields under review, not from the row on file.
Execute(p) ==
    /\ At(p, "review_verification")
    /\ Submitted < MaxTxs /\ switches + Submitted < MaxStarted
    /\ IF page[p].address = None THEN Rest(p, "error")
       ELSE page' = [page EXCEPT ![p] = [Reset(p) EXCEPT !.step = "signing_transaction",
                !.by = page[p].address, !.profile = page[p].profile]]
    /\ UNCHANGED <<browser, database, ledger>>

\* invokeContract up to the answer of sendTransaction, which may get lost.  What the
\* node refuses is returned like what it takes: it is sent and never applied.
Submit(p) ==
    /\ At(p, "signing_transaction")
    /\ txs' = Append(txs, [wallet |-> page[p].by, profile |-> page[p].profile,
                           fate |-> "sent"])
    /\ \/ page' = [page EXCEPT ![p].step = "confirming_transaction", ![p].tx = Len(txs')]
       \/ Rest(p, "error")
    /\ UNCHANGED <<browser, database, verification>>

\* invokeContract returns for whatever it has not heard FAILED or only PENDING of.
Confirmed(p) ==
    /\ At(p, "confirming_transaction") /\ txs[page[p].tx].fate # "FAILED"
    /\ Goto(p, "syncing_backend")
    /\ UNCHANGED <<browser, database, ledger>>

\* Success, "synced" unless the mirror request threw.
Finish(p, synced) ==
    page' = [page EXCEPT ![p] = [Reset(p) EXCEPT
                 !.step = "success", !.tx = page[p].tx, !.synced = synced]]

\* Mutant of Mirror: the row is for the wallet that is connected by now.
MirrorLive(p) ==
    /\ At(p, "syncing_backend") /\ PostForwarded(page[p].address)
    /\ users[page[p].address] # None
    /\ mirrored' = [mirrored EXCEPT ![page[p].address] =
                       [profile |-> page[p].profile, tx |-> page[p].tx]]
    /\ Finish(p, FALSE) \/ (mirrored[page[p].address] = None /\ Finish(p, TRUE))
    /\ UNCHANGED <<browser, users, ledger>>

\* Mutant of Mirror: the hash is the txHash of the render, still null.
MirrorHashless(p) ==
    /\ At(p, "syncing_backend") /\ PostForwarded(page[p].by)
    /\ users[page[p].by] # None
    /\ mirrored' = [mirrored EXCEPT ![page[p].by] =
                       [profile |-> page[p].profile, tx |-> None]]
    /\ Finish(p, FALSE) \/ (mirrored[page[p].by] = None /\ Finish(p, TRUE))
    /\ UNCHANGED <<browser, users, ledger>>

\* create_verification: the upsert, then the row of the new id, which only an insert
\* leaves to be found.  The answer arrives or not.
Mirror(p) ==
    /\ At(p, "syncing_backend") /\ PostForwarded(page[p].by)
    /\ users[page[p].by] # None
    /\ mirrored' = [mirrored EXCEPT ![page[p].by] =
                       [profile |-> page[p].profile, tx |-> page[p].tx]]
    /\ Finish(p, FALSE) \/ (mirrored[page[p].by] = None /\ Finish(p, TRUE))
    /\ UNCHANGED <<browser, users, ledger>>

\* Mutant of NotMirrored: the failure is not noted.
NotMirroredSilently(p) ==
    /\ At(p, "syncing_backend")
    /\ Finish(p, TRUE)
    /\ UNCHANGED <<browser, database, ledger>>

\* The request is refused or lost: "partial success".
NotMirrored(p) ==
    /\ At(p, "syncing_backend")
    /\ Finish(p, FALSE)
    /\ UNCHANGED <<browser, database, ledger>>

\* Any other await throws, 401 and 403 included, or the polling fails or times out; the
\* catch blocks show the error.  A page in error forgets the transaction it waited for.
Fail(p) ==
    /\ page[p].step \in Working \ {"connecting_wallet", "syncing_backend"}
    /\ Rest(p, "error")
    /\ UNCHANGED <<browser, database, ledger>>

\* The network applies a transaction, successfully or not, at any time or never.
Apply(tx) ==
    /\ txs[tx].fate = "sent"
    /\ \/ /\ txs' = [txs EXCEPT ![tx].fate = "SUCCESS"]
          /\ Registry!VerifyIdentity(txs[tx].wallet, txs[tx].profile)
       \/ txs' = [txs EXCEPT ![tx].fate = "FAILED"] /\ UNCHANGED verification
    /\ UNCHANGED <<page, browser, database>>

-----------------------------------------------------------------------------
Init ==
    /\ page = [p \in Pages |-> Blank(None, FALSE)]
    /\ persisted = None /\ session = None /\ switches = 0
    /\ users = [wallet \in Wallets |-> None]
    /\ mirrored = [wallet \in Wallets |-> None]
    /\ txs = <<>>
    /\ Registry!Init

Next ==
    \/ \E p \in Pages :
          \/ Load(p) \/ Start(p) \/ NotConnected(p) \/ Back(p) \/ Execute(p) \/ Submit(p)
          \/ (\E wallet \in Wallets : Connected(p, wallet))
          \/ (\E profile \in Typed : Register(p, profile))
          \/ Ready(p) \/ LookUpUser(p) \/ InsertUser(p) \/ Conflict(p) \/ ReloadUser(p)
          \/ Confirmed(p) \/ Mirror(p) \/ NotMirrored(p) \/ Fail(p)
    \/ \E wallet \in Wallets :
          \/ ConnectElsewhere(wallet)
          \/ \E profile \in Typed : RegisterElsewhere(wallet, profile)
    \/ ProveElsewhere \/ ForgetElsewhere
    \/ \E tx \in DOMAIN txs : Apply(tx)

Spec == Init /\ [][Next]_flowVars

-----------------------------------------------------------------------------
TypeOK ==
    /\ page \in [Pages -> Page]
    /\ persisted \in Wallets \union {None} /\ session \in Wallets \union {None}
    /\ switches \in 0..MaxSwitches
    /\ users \in [Wallets -> Profiles \union {None}]
    /\ mirrored \in [Wallets -> MirrorRow \union {None}]
    /\ txs \in Seq([wallet: Wallets, profile: Profiles,
                    fate: {"sent", "SUCCESS", "FAILED"}])
    /\ Len(txs) <= MaxTxs
    /\ verification \in [Wallets -> Registry!VerificationRecord \union {None}]

\* What create_verification stores for a wallet is what that wallet signed, however
\* wallets are switched while the transaction is on its way (main.rs:904).
MirrorIsOwnTx ==
    \A w \in Wallets : mirrored[w] # None =>
        /\ txs[mirrored[w].tx].wallet = w
        /\ txs[mirrored[w].tx].profile = mirrored[w].profile

\* Whoever registers a wallet first, here, in another tab or on the register page: what
\* is up for review is the profile the backend keeps of it, or one that differs from it
\* by the blanks that were typed around it (get-verified/page.tsx:277, 284).
ReviewIsOnFile ==
    \A p \in Pages : At(p, "review_verification") =>
        page[p].existing # None /\ Trim[page[p].profile] = users[page[p].existing]

\* Timeouts, retries and lost answers verify a wallet again and again: its version counts
\* every one of its transactions that was applied (identity-registry lib.rs:38).
VersionCounts ==
    \A w \in Wallets :
        (IF Registry!IsVerified(w) THEN verification[w].version ELSE 0)
            = Cardinality({i \in DOMAIN txs : txs[i].wallet = w /\ txs[i].fate = "SUCCESS"})

\* "The proof is stored on-chain and mirrored in the backend" (get-verified/page.tsx:711):
\* without the warning about the mirror, there is one for the wallet that signed.
SyncedIsMirrored ==
    \A p \in Pages : At(p, "success") /\ page[p].synced => mirrored[txs[page[p].tx].wallet] # None

Promise == INSTANCE IdentityPromise WITH
    file <- users, letters <- txs, chain <- verification, copy <- mirrored

\* Refinement: seen from the tables and the chain, whatever pages do, in which order, with
\* which wallet connected, and whatever gets lost, a wallet keeps its profile on file, each
\* signature counts for its own wallet and once at most, and what is signed is a profile on
\* file, in the spelling that was typed.
KeepsIdentityPromise == Promise!Spec

-----------------------------------------------------------------------------
(* What is said of the flow and the code does not see to *)

\* docs/ONBOARDING.md:61, Get Verified writes "your identity (role, organization, and a
\* SHA-256 hash of your profile)" as "a portable identity that travels with your Stellar
\* wallet": what a wallet signs is the profile the backend keeps of that wallet, whatever
\* blanks were typed around it.
IdentityIsOwn == \A i \in DOMAIN txs : Trim[txs[i].profile] = users[txs[i].wallet]
=============================================================================
