--------------------------- MODULE IdentityFlowProofs ---------------------------
(***************************************************************************)
(* Theorems about IdentityFlow for any number of wallets, profiles, pages, *)
(* transactions and switches of the wallet.                                *)
(***************************************************************************)
EXTENDS IdentityFlow, FiniteSetTheorems, TLAPS

TxRecord == [wallet: Wallets, profile: Profiles, fate: {"sent", "SUCCESS", "FAILED"}]

\* Steps at which the handler has taken the wallet of its render, and the profile, along.
HasWallet == {"checking_readiness", "checking_user", "registering_user", "reloading_user",
              "signing_transaction", "confirming_transaction", "syncing_backend"}

HasProfile == {"registering_user", "review_verification", "signing_transaction",
               "confirming_transaction", "syncing_backend"}

HasTx == {"confirming_transaction", "syncing_backend"}

\* What a page holds on to, whatever other pages and wallets do meanwhile.
PageKnows(p) ==
    /\ page[p].step \in HasWallet => page[p].by \in Wallets
    /\ page[p].step \in HasProfile => page[p].profile \in Profiles
    /\ page[p].step \in HasTx \union {"success"} => page[p].tx \in DOMAIN txs
    /\ page[p].step \in HasTx =>
          /\ txs[page[p].tx].wallet = page[p].by
          /\ txs[page[p].tx].profile = page[p].profile
    /\ page[p].step = "review_verification" =>
          /\ page[p].existing \in Wallets
          /\ Trim[page[p].profile] = users[page[p].existing]
    /\ page[p].step = "success" /\ page[p].synced => mirrored[txs[page[p].tx].wallet] # None

MirrorsAreSigned ==
    \A w \in Wallets : mirrored[w] # None =>
        /\ mirrored[w].tx \in DOMAIN txs
        /\ txs[mirrored[w].tx].wallet = w
        /\ txs[mirrored[w].tx].profile = mirrored[w].profile

\* What is filed of a user has no blanks around it.
RowsAreTrimmed == \A w \in Wallets : users[w] # None => Trim[users[w]] = users[w]

\* The bound of the model is kept by counting the pages about to submit.
WithinBound == Submitted <= MaxTxs

FlowInv ==
    /\ TypeOK
    /\ \A p \in Pages : PageKnows(p)
    /\ MirrorsAreSigned
    /\ RowsAreTrimmed
    /\ WithinBound

-----------------------------------------------------------------------------
(* The records of a page *)

LEMMA Trimmed ==
    ASSUME NEW profile \in Profiles
    PROVE  /\ Trim[profile] \in Profiles /\ Trim[profile] # None
           /\ Trim[Trim[profile]] = Trim[profile]
  BY FlowAssumption

LEMMA TypedIsProfile ==
    ASSUME NEW profile \in Typed
    PROVE  profile \in Profiles
  BY FlowAssumption

LEMMA BlankType ==
    ASSUME NEW address \in Wallets \union {None}, NEW verified \in BOOLEAN,
           NEW step \in Resting \union Working
    PROVE  /\ Blank(address, verified) \in Page
           /\ [Blank(address, verified) EXCEPT !.step = step] \in Page
  BY DEF Blank, Page, Resting

LEMMA ResetType ==
    ASSUME TypeOK, NEW p \in Pages
    PROVE  /\ Reset(p) \in Page
           /\ Reset(p).step = "idle" /\ Reset(p).synced = FALSE
           /\ Reset(p).address = page[p].address
  BY DEF TypeOK, Reset, Blank, Page, Resting

\* Steps that come to rest on one page.
LEMMA RestKnows ==
    ASSUME TypeOK, NEW p \in Pages, NEW step \in {"idle", "user_form", "error"}, Rest(p, step)
    PROVE  /\ page' = [page EXCEPT ![p] = page'[p]]
           /\ page'[p] \in Page /\ page'[p].step = step
<1>. DEFINE P == [Reset(p) EXCEPT !.step = step]
<1>1. P \in Page /\ P.step = step
  BY ResetType DEF Page, Resting
<1>2. page' = [page EXCEPT ![p] = P] /\ p \in DOMAIN page
  BY DEF Rest, TypeOK
<1>. QED
  BY <1>1, <1>2

LEMMA ReviewKnows ==
    ASSUME TypeOK, NEW p \in Pages, NEW wallet \in Wallets, NEW profile \in Profiles,
           Review(p, wallet, profile)
    PROVE  /\ page' = [page EXCEPT ![p] = page'[p]]
           /\ page'[p] \in Page /\ page'[p].step = "review_verification"
           /\ page'[p].existing = wallet /\ page'[p].profile = profile
<1>. DEFINE P == [Reset(p) EXCEPT !.step = "review_verification", !.existing = wallet,
                                  !.profile = profile]
<1>1. /\ P \in Page /\ P.step = "review_verification"
      /\ P.existing = wallet /\ P.profile = profile
  BY ResetType DEF Page, Resting
<1>2. page' = [page EXCEPT ![p] = P] /\ p \in DOMAIN page
  BY DEF Review, TypeOK
<1>. QED
  BY <1>1, <1>2

LEMMA GotoKnows ==
    ASSUME TypeOK, NEW p \in Pages, NEW step \in Resting \union Working, Goto(p, step)
    PROVE  /\ page' = [page EXCEPT ![p] = page'[p]]
           /\ page'[p] \in Page /\ page'[p].step = step
           /\ page'[p] = [page[p] EXCEPT !.step = step]
<1>. DEFINE P == [page[p] EXCEPT !.step = step]
<1>0. page[p] \in Page
  BY DEF TypeOK
<1>1. P \in Page /\ P.step = step
  BY <1>0 DEF Page
<1>2. page' = [page EXCEPT ![p] = P] /\ p \in DOMAIN page
  BY DEF Goto, TypeOK
<1>. QED
  BY <1>1, <1>2

-----------------------------------------------------------------------------
(* What is stored stays *)

Quiet == UNCHANGED <<txs, users, mirrored, verification>>

LEMMA FewStepsWrite ==
    ASSUME [Next]_flowVars
    PROVE  \/ Quiet
           \/ \E p \in Pages : Submit(p) \/ InsertUser(p) \/ Mirror(p)
           \/ \E wallet \in Wallets, profile \in Typed : RegisterElsewhere(wallet, profile)
           \/ \E tx \in DOMAIN txs : Apply(tx)
<1>1. ASSUME NEW p \in Pages,
             Load(p) \/ Start(p) \/ NotConnected(p) \/ Back(p) \/ Execute(p)
      PROVE  Quiet
  BY <1>1 DEF Load, Start, NotConnected, Back, Execute, Quiet, ledger, database
<1>2. ASSUME NEW p \in Pages, NEW wallet, NEW profile,
             Connected(p, wallet) \/ Register(p, profile) \/ Ready(p) \/ LookUpUser(p)
      PROVE  Quiet
  BY <1>2 DEF Connected, Register, Ready, LookUpUser, Quiet, ledger, database
<1>3. ASSUME NEW p \in Pages,
             Conflict(p) \/ ReloadUser(p) \/ Confirmed(p) \/ NotMirrored(p) \/ Fail(p)
      PROVE  Quiet
  BY <1>3 DEF Conflict, ReloadUser, Confirmed, NotMirrored, Fail, Quiet, ledger, database
<1>4. ASSUME NEW wallet, ConnectElsewhere(wallet) \/ ProveElsewhere \/ ForgetElsewhere
      PROVE  Quiet
  BY <1>4 DEF ConnectElsewhere, ProveElsewhere, ForgetElsewhere, Quiet, ledger, database
<1>5. ASSUME UNCHANGED flowVars PROVE Quiet
  BY <1>5 DEF flowVars, Quiet
<1>. QED
  BY <1>1, <1>2, <1>3, <1>4, <1>5 DEF Next

\* A transaction keeps its signer and what was signed, a user keeps his row, a wallet
\* once mirrored stays so.
LEMMA FactsStay ==
    ASSUME TypeOK, \A p \in Pages : PageKnows(p), [Next]_flowVars
    PROVE  /\ txs' \in Seq(TxRecord) /\ DOMAIN txs \subseteq DOMAIN txs'
           /\ \A i \in DOMAIN txs : /\ txs'[i].wallet = txs[i].wallet
                                    /\ txs'[i].profile = txs[i].profile
           /\ users' \in [Wallets -> Profiles \union {None}]
           /\ \A w \in Wallets : users[w] # None => users'[w] = users[w]
           /\ mirrored' \in [Wallets -> MirrorRow \union {None}]
           /\ \A w \in Wallets : mirrored[w] # None => mirrored'[w] # None
<1>. DEFINE Goal ==
           /\ txs' \in Seq(TxRecord) /\ DOMAIN txs \subseteq DOMAIN txs'
           /\ \A i \in DOMAIN txs : /\ txs'[i].wallet = txs[i].wallet
                                    /\ txs'[i].profile = txs[i].profile
           /\ users' \in [Wallets -> Profiles \union {None}]
           /\ \A w \in Wallets : users[w] # None => users'[w] = users[w]
           /\ mirrored' \in [Wallets -> MirrorRow \union {None}]
           /\ \A w \in Wallets : mirrored[w] # None => mirrored'[w] # None
<1>0. /\ txs \in Seq(TxRecord) /\ users \in [Wallets -> Profiles \union {None}]
      /\ mirrored \in [Wallets -> MirrorRow \union {None}]
  BY DEF TypeOK, TxRecord
<1>1. ASSUME Quiet PROVE Goal
  BY <1>0, <1>1 DEF Quiet
<1>2. ASSUME NEW p \in Pages, Submit(p) PROVE Goal
  <2>. DEFINE T == [wallet |-> page[p].by, profile |-> page[p].profile, fate |-> "sent"]
  <2>1. T \in TxRecord
    BY <1>2 DEF Submit, At, PageKnows, HasWallet, HasProfile, TxRecord
  <2>2. txs' = Append(txs, T) /\ users' = users /\ mirrored' = mirrored
    BY <1>2 DEF Submit, database
  <2>. HIDE DEF T
  <2>3. txs' \in Seq(TxRecord) /\ DOMAIN txs \subseteq DOMAIN txs'
        /\ \A i \in DOMAIN txs : txs'[i] = txs[i]
    BY <1>0, <2>1, <2>2
  <2>. QED
    BY <1>0, <2>2, <2>3
<1>3. ASSUME NEW p \in Pages, InsertUser(p) PROVE Goal
  <2>1. page[p].profile \in Profiles /\ page[p].by \in Wallets
    BY <1>3 DEF InsertUser, At, PageKnows, HasWallet, HasProfile
  <2>2. /\ txs' = txs /\ mirrored' = mirrored /\ users[page[p].by] = None
        /\ users' = [users EXCEPT ![page[p].by] = Trim[page[p].profile]]
    BY <1>3 DEF InsertUser, ledger
  <2>. QED
    BY <1>0, <2>1, <2>2, Trimmed
<1>4. ASSUME NEW p \in Pages, Mirror(p) PROVE Goal
  <2>. DEFINE M == [profile |-> page[p].profile, tx |-> page[p].tx]
  <2>1. M \in MirrorRow /\ M # None
    <3>1. page[p].profile \in Profiles /\ page[p].tx \in DOMAIN txs
      BY <1>4 DEF Mirror, At, PageKnows, HasProfile, HasTx
    <3>2. DOMAIN txs \subseteq 1..MaxTxs
      BY <1>0, FlowAssumption DEF TypeOK
    <3>. QED
      BY <3>1, <3>2, AbsentAssumption DEF MirrorRow
  <2>2. /\ txs' = txs /\ users' = users
        /\ mirrored' = [mirrored EXCEPT ![page[p].by] = M]
    BY <1>4 DEF Mirror, ledger
  <2>. HIDE DEF M
  <2>. QED
    BY <1>0, <2>1, <2>2
<1>5. ASSUME NEW w \in Wallets, NEW profile \in Typed, RegisterElsewhere(w, profile)
      PROVE  Goal
  BY <1>0, <1>5, Trimmed, TypedIsProfile DEF RegisterElsewhere, ledger
<1>6. ASSUME NEW tx \in DOMAIN txs, Apply(tx) PROVE Goal
  <2>1. PICK fate \in {"SUCCESS", "FAILED"} : txs' = [txs EXCEPT ![tx].fate = fate]
    BY <1>6 DEF Apply
  <2>2. [txs[tx] EXCEPT !.fate = fate] \in TxRecord
    <3>1. txs[tx] \in TxRecord
      BY <1>0
    <3>. QED
      BY <3>1 DEF TxRecord
  <2>3. txs' = [txs EXCEPT ![tx] = [txs[tx] EXCEPT !.fate = fate]]
    BY <1>0, <2>1
  <2>4. txs' \in Seq(TxRecord) /\ DOMAIN txs' = DOMAIN txs
    BY <1>0, <2>2, <2>3
  <2>5. \A i \in DOMAIN txs : txs'[i].wallet = txs[i].wallet /\ txs'[i].profile = txs[i].profile
    BY <1>0, <2>3 DEF TxRecord
  <2>6. users' = users /\ mirrored' = mirrored
    BY <1>6 DEF Apply, database
  <2>. QED
    BY <1>0, <2>4, <2>5, <2>6
<1>. QED
  BY <1>1, <1>2, <1>3, <1>4, <1>5, <1>6, FewStepsWrite

\* So a page that a step leaves alone, but for the wallet its hook shows, still knows.
Kept(q) ==
    /\ page'[q].step = page[q].step /\ page'[q].by = page[q].by
    /\ page'[q].existing = page[q].existing /\ page'[q].profile = page[q].profile
    /\ page'[q].tx = page[q].tx /\ page'[q].synced = page[q].synced

LEMMA KeptKnows ==
    ASSUME TypeOK, \A p \in Pages : PageKnows(p), [Next]_flowVars, NEW q \in Pages, Kept(q)
    PROVE  PageKnows(q)'
<1>0. PageKnows(q)
  OBVIOUS
<1>1. ASSUME NEW i \in DOMAIN txs PROVE txs[i].wallet \in Wallets
  <2>1. txs \in Seq(TxRecord)
    BY DEF TypeOK, TxRecord
  <2>2. txs[i] \in TxRecord
    BY <2>1
  <2>. QED
    BY <2>2 DEF TxRecord
<1>2. page[q].step = "review_verification" => users[page[q].existing] # None
  <2>1. page[q].step = "review_verification" => page[q].profile \in Profiles
    BY <1>0 DEF PageKnows, HasProfile
  <2>. QED
    BY <1>0, <2>1, Trimmed DEF PageKnows
<1>. QED
  BY <1>0, <1>1, <1>2, FactsStay DEF PageKnows, Kept, HasTx

-----------------------------------------------------------------------------
(* Every step leaves pages that know what they should *)

PagesKnow == page \in [Pages -> Page] /\ \A p \in Pages : PageKnows(p)

LEMMA OnePageMoves ==
    ASSUME TypeOK, \A q \in Pages : PageKnows(q), [Next]_flowVars, NEW p \in Pages,
           page' = [page EXCEPT ![p] = page'[p]], page'[p] \in Page, PageKnows(p)'
    PROVE  PagesKnow'
<1>0. page \in [Pages -> Page]
  BY DEF TypeOK
<1>1. page' \in [Pages -> Page]
  BY <1>0
<1>2. ASSUME NEW q \in Pages, q # p PROVE Kept(q)
  <2>1. page'[q] = page[q]
    BY <1>0, <1>2
  <2>. QED
    BY <2>1 DEF Kept
<1>3. \A q \in Pages : PageKnows(q)'
  BY <1>2, KeptKnows
<1>. QED
  BY <1>1, <1>3 DEF PagesKnow

LEMMA NoPageMoves ==
    ASSUME TypeOK, \A q \in Pages : PageKnows(q), [Next]_flowVars, page' = page
    PROVE  PagesKnow'
<1>1. \A q \in Pages : Kept(q)
  BY DEF Kept
<1>. QED
  BY <1>1, KeptKnows DEF PagesKnow, TypeOK

LEMMA EverywhereKeeps ==
    ASSUME TypeOK, NEW wallet \in Wallets \union {None}
    PROVE  /\ Everywhere(wallet) \in [Pages -> Page]
           /\ \A q \in Pages : Everywhere(wallet)[q] = [page[q] EXCEPT !.address = wallet]
<1>1. ASSUME NEW q \in Pages PROVE [page[q] EXCEPT !.address = wallet] \in Page
  <2>1. page[q] \in Page
    BY DEF TypeOK
  <2>. QED
    BY <2>1 DEF Page
<1>. QED
  BY <1>1 DEF Everywhere

\* A page with nothing of a handler's in it knows nothing.
Idle == {"idle", "user_form", "error", "connecting_wallet"}

LEMMA IdleKnows ==
    ASSUME NEW p \in Pages, page'[p].step \in Idle
    PROVE  PageKnows(p)'
  BY DEF PageKnows, Idle, HasWallet, HasProfile, HasTx

LEMMA RestStep ==
    ASSUME TypeOK, \A q \in Pages : PageKnows(q), [Next]_flowVars, NEW p \in Pages,
           NEW step \in {"idle", "user_form", "error"}, Rest(p, step)
    PROVE  PagesKnow'
<1>1. /\ page' = [page EXCEPT ![p] = page'[p]]
      /\ page'[p] \in Page /\ page'[p].step = step
  BY RestKnows
<1>2. PageKnows(p)'
  BY <1>1, IdleKnows DEF Idle
<1>. QED
  BY <1>1, <1>2, OnePageMoves

LEMMA ReviewStep ==
    ASSUME TypeOK, \A q \in Pages : PageKnows(q), [Next]_flowVars, NEW p \in Pages,
           NEW wallet \in Wallets, NEW profile \in Profiles,
           Review(p, wallet, profile), users'[wallet] = Trim[profile]
    PROVE  PagesKnow'
<1>1. /\ page' = [page EXCEPT ![p] = page'[p]]
      /\ page'[p] \in Page /\ page'[p].step = "review_verification"
      /\ page'[p].existing = wallet /\ page'[p].profile = profile
  BY ReviewKnows
<1>2. PageKnows(p)'
  BY <1>1 DEF PageKnows, HasWallet, HasProfile, HasTx
<1>. QED
  BY <1>1, <1>2, OnePageMoves

\* The handler goes on with what it holds.
LEMMA GotoStep ==
    ASSUME TypeOK, \A q \in Pages : PageKnows(q), [Next]_flowVars, NEW p \in Pages,
           NEW step \in {"checking_user", "reloading_user", "syncing_backend"},
           Goto(p, step),
           page[p].step \in HasWallet,
           step = "syncing_backend" => page[p].step = "confirming_transaction"
    PROVE  PagesKnow'
<1>0. page[p] \in Page /\ PageKnows(p)
  BY DEF TypeOK
<1>1. /\ page' = [page EXCEPT ![p] = page'[p]]
      /\ page'[p] \in Page /\ page'[p].step = step
      /\ page'[p] = [page[p] EXCEPT !.step = step]
  BY GotoKnows DEF Resting, Working
<1>2. /\ page'[p].by = page[p].by /\ page'[p].profile = page[p].profile
      /\ page'[p].tx = page[p].tx
  BY <1>0, <1>1 DEF Page
<1>3. PageKnows(p)'
  BY <1>0, <1>1, <1>2, FactsStay DEF PageKnows, HasWallet, HasProfile, HasTx
<1>. QED
  BY <1>1, <1>3, OnePageMoves

LEMMA StartStep ==
    ASSUME TypeOK, \A q \in Pages : PageKnows(q), [Next]_flowVars, NEW p \in Pages, Start(p)
    PROVE  PagesKnow'
<1>. DEFINE ready == page[p].address # None /\ page[p].verified
            P == [Reset(p) EXCEPT !.by = page[p].address,
                     !.step = IF ready THEN "checking_readiness" ELSE "connecting_wallet"]
<1>0. page[p] \in Page /\ page[p].address \in Wallets \union {None}
  BY DEF TypeOK, Page
<1>1. /\ P \in Page /\ P.by = page[p].address
      /\ P.step = IF ready THEN "checking_readiness" ELSE "connecting_wallet"
  BY <1>0, ResetType DEF Page, Working
<1>2. page' = [page EXCEPT ![p] = P]
  BY DEF Start
<1>. HIDE DEF P
<1>3. page'[p] = P
  BY <1>2 DEF TypeOK
<1>4. PageKnows(p)'
  <2>1. CASE ready
    BY <1>0, <1>1, <1>3, <2>1 DEF PageKnows, HasWallet, HasProfile, HasTx
  <2>2. CASE ~ready
    BY <1>1, <1>3, <2>2, IdleKnows DEF Idle
  <2>. QED
    BY <2>1, <2>2
<1>. QED
  BY <1>1, <1>2, <1>3, <1>4, OnePageMoves

\* An answer of connectWallet changes the wallet of all pages, and moves one.
LEMMA ConnectStep ==
    ASSUME TypeOK, \A q \in Pages : PageKnows(q), [Next]_flowVars, NEW p \in Pages,
           NEW wallet \in Wallets, Connected(p, wallet)
    PROVE  PagesKnow'
<1>. DEFINE P == IF page[p].by = None THEN [Blank(wallet, TRUE) EXCEPT !.step = "error"]
          ELSE [Blank(wallet, TRUE) EXCEPT !.step = "checking_readiness", !.by = page[p].by]
<1>0. page[p] \in Page /\ page[p].by \in Wallets \union {None} /\ p \in DOMAIN page
  BY DEF TypeOK, Page
<1>1. /\ P \in Page
      /\ P.step = "error" \/ (P.step = "checking_readiness" /\ P.by \in Wallets)
  BY <1>0 DEF Blank, Page, Resting, Working
<1>2. page' = [Everywhere(wallet) EXCEPT ![p] = P]
  BY DEF Connected
<1>. HIDE DEF P
<1>3. page' \in [Pages -> Page] /\ page'[p] = P
  BY <1>1, <1>2, EverywhereKeeps
<1>4. ASSUME NEW q \in Pages, q # p PROVE Kept(q)
  <2>1. page'[q] = [page[q] EXCEPT !.address = wallet]
    BY <1>2, <1>4, EverywhereKeeps
  <2>2. page[q] \in Page
    BY DEF TypeOK
  <2>. QED
    BY <2>1, <2>2 DEF Kept, Page
<1>5. PageKnows(p)'
  BY <1>1, <1>3 DEF PageKnows, HasWallet, HasProfile, HasTx
<1>. QED
  BY <1>3, <1>4, <1>5, KeptKnows DEF PagesKnow

LEMMA ConnectElsewhereStep ==
    ASSUME TypeOK, \A q \in Pages : PageKnows(q), [Next]_flowVars,
           NEW wallet \in Wallets, ConnectElsewhere(wallet)
    PROVE  PagesKnow'
<1>1. page' = Everywhere(wallet)
  BY DEF ConnectElsewhere
<1>2. ASSUME NEW q \in Pages PROVE Kept(q)
  <2>1. page'[q] = [page[q] EXCEPT !.address = wallet]
    BY <1>1, EverywhereKeeps
  <2>2. page[q] \in Page
    BY DEF TypeOK
  <2>. QED
    BY <2>1, <2>2 DEF Kept, Page
<1>. QED
  BY <1>1, <1>2, KeptKnows, EverywhereKeeps DEF PagesKnow

LEMMA ForgetStep ==
    ASSUME TypeOK, \A q \in Pages : PageKnows(q), [Next]_flowVars, NEW p \in Pages,
           Load(p) \/ NotConnected(p)
    PROVE  PagesKnow'
<1>1. PICK P \in Page : page' = [page EXCEPT ![p] = P] /\ P.step \in {"idle", "error"}
  <2>1. CASE Load(p)
    <3>1. persisted \in Wallets \union {None}
      BY DEF TypeOK
    <3>2. PICK verified \in BOOLEAN : page' = [page EXCEPT ![p] = Blank(persisted, verified)]
      BY <2>1 DEF Load
    <3>3. Blank(persisted, verified) \in Page /\ Blank(persisted, verified).step = "idle"
      BY <3>1 DEF Blank, Page, Resting
    <3>. QED
      BY <3>2, <3>3
  <2>2. CASE NotConnected(p)
    <3>1. LET P == [Blank(None, FALSE) EXCEPT !.step = "error"]
          IN  P \in Page /\ P.step = "error"
      BY DEF Blank, Page, Resting
    <3>. QED
      BY <2>2, <3>1 DEF NotConnected
  <2>. QED
    BY <2>1, <2>2
<1>2. page'[p] = P
  BY <1>1 DEF TypeOK
<1>3. PageKnows(p)'
  BY <1>1, <1>2, IdleKnows DEF Idle
<1>. QED
  BY <1>1, <1>2, <1>3, OnePageMoves

LEMMA RegisterStep ==
    ASSUME TypeOK, \A q \in Pages : PageKnows(q), [Next]_flowVars, NEW p \in Pages,
           NEW profile \in Typed, Register(p, profile)
    PROVE  PagesKnow'
<1>. DEFINE P == [page[p] EXCEPT !.step = "registering_user", !.by = page[p].address,
                                 !.profile = profile]
<1>0. page[p] \in Page
  BY DEF TypeOK
<1>1. CASE page[p].address = None
  BY <1>1, RestStep DEF Register
<1>2. CASE page[p].address # None
  <2>1. /\ P \in Page /\ P.step = "registering_user"
        /\ P.by \in Wallets /\ P.profile \in Profiles
    BY <1>0, <1>2, TypedIsProfile DEF Page, Working
  <2>2. page' = [page EXCEPT ![p] = P]
    BY <1>2 DEF Register, TypeOK
  <2>. HIDE DEF P
  <2>3. page'[p] = P
    BY <2>2 DEF TypeOK
  <2>4. PageKnows(p)'
    BY <2>1, <2>3 DEF PageKnows, HasWallet, HasProfile, HasTx
  <2>. QED
    BY <2>1, <2>2, <2>3, <2>4, OnePageMoves
<1>. QED
  BY <1>1, <1>2

LEMMA ExecuteStep ==
    ASSUME TypeOK, \A q \in Pages : PageKnows(q), [Next]_flowVars, NEW p \in Pages, Execute(p)
    PROVE  PagesKnow'
<1>. DEFINE P == [Reset(p) EXCEPT !.step = "signing_transaction", !.by = page[p].address,
                                  !.profile = page[p].profile]
<1>0. page[p] \in Page /\ page[p].profile \in Profiles
  BY DEF TypeOK, Execute, At, PageKnows, HasProfile
<1>1. CASE page[p].address = None
  BY <1>1, RestStep DEF Execute
<1>2. CASE page[p].address # None
  <2>1. /\ P \in Page /\ P.step = "signing_transaction"
        /\ P.by \in Wallets /\ P.profile \in Profiles
    BY <1>0, <1>2, ResetType DEF Page, Working
  <2>2. page' = [page EXCEPT ![p] = P]
    BY <1>2 DEF Execute
  <2>. HIDE DEF P
  <2>3. page'[p] = P
    BY <2>2 DEF TypeOK
  <2>4. PageKnows(p)'
    BY <2>1, <2>3 DEF PageKnows, HasWallet, HasProfile, HasTx
  <2>. QED
    BY <2>1, <2>2, <2>3, <2>4, OnePageMoves
<1>. QED
  BY <1>1, <1>2
LEMMA SubmitStep ==
    ASSUME TypeOK, \A q \in Pages : PageKnows(q), [Next]_flowVars,
           NEW p \in Pages, Submit(p), Len(txs) < MaxTxs
    PROVE  PagesKnow'
<1>. DEFINE T == [wallet |-> page[p].by, profile |-> page[p].profile, fate |-> "sent"]
            P == [page[p] EXCEPT !.step = "confirming_transaction", !.tx = Len(txs')]
<1>0. /\ page[p] \in Page /\ page[p].by \in Wallets /\ page[p].profile \in Profiles
      /\ txs \in Seq(TxRecord)
  BY DEF TypeOK, TxRecord, Submit, At, PageKnows, HasWallet, HasProfile
<1>1. T \in TxRecord /\ T.wallet = page[p].by /\ T.profile = page[p].profile
  BY <1>0 DEF TxRecord
<1>2. txs' = Append(txs, T)
  BY DEF Submit
<1>. HIDE DEF T
<1>3. Len(txs') = Len(txs) + 1 /\ txs'[Len(txs')] = T /\ Len(txs') \in DOMAIN txs'
      /\ Len(txs') \in 1..MaxTxs
  BY <1>0, <1>1, <1>2, FlowAssumption
<1>4. CASE page' = [page EXCEPT ![p].step = "confirming_transaction", ![p].tx = Len(txs')]
  <2>1. /\ P \in Page /\ P.step = "confirming_transaction" /\ P.by = page[p].by
        /\ P.profile = page[p].profile /\ P.tx = Len(txs')
    BY <1>0, <1>3 DEF Page, Working
  <2>2. page' = [page EXCEPT ![p] = P]
    BY <1>4 DEF TypeOK
  <2>. HIDE DEF P
  <2>3. page'[p] = P
    BY <2>2 DEF TypeOK
  <2>4. PageKnows(p)'
    BY <1>0, <1>1, <1>3, <2>1, <2>3 DEF PageKnows, HasWallet, HasProfile, HasTx
  <2>. QED
    BY <2>1, <2>2, <2>3, <2>4, OnePageMoves
<1>5. CASE Rest(p, "error")
  BY <1>5, RestStep
<1>. QED
  BY <1>4, <1>5 DEF Submit

LEMMA FinishStep ==
    ASSUME TypeOK, \A q \in Pages : PageKnows(q), [Next]_flowVars, NEW p \in Pages,
           At(p, "syncing_backend"), NEW synced \in BOOLEAN, Finish(p, synced),
           synced => mirrored'[page[p].by] # None
    PROVE  PagesKnow'
<1>. DEFINE P == [Reset(p) EXCEPT !.step = "success", !.tx = page[p].tx, !.synced = synced]
<1>0. page[p] \in Page /\ page[p].tx \in DOMAIN txs /\ txs[page[p].tx].wallet = page[p].by
  BY DEF TypeOK, At, PageKnows, HasTx
<1>1. P \in Page /\ P.step = "success" /\ P.tx = page[p].tx /\ P.synced = synced
  BY <1>0, ResetType DEF Page, Resting
<1>2. page' = [page EXCEPT ![p] = P]
  BY DEF Finish
<1>. HIDE DEF P
<1>3. page'[p] = P
  BY <1>2 DEF TypeOK
<1>4. PageKnows(p)'
  BY <1>0, <1>1, <1>3, FactsStay DEF PageKnows, HasWallet, HasProfile, HasTx
<1>. QED
  BY <1>1, <1>2, <1>3, <1>4, OnePageMoves

LEMMA MirrorStep ==
    ASSUME TypeOK, \A q \in Pages : PageKnows(q), NEW p \in Pages, Mirror(p)
    PROVE  LET M == [profile |-> page[p].profile, tx |-> page[p].tx]
           IN  /\ M \in MirrorRow /\ M # None /\ page[p].by \in Wallets
               /\ mirrored' = [mirrored EXCEPT ![page[p].by] = M]
               /\ mirrored'[page[p].by] = M
<1>. DEFINE M == [profile |-> page[p].profile, tx |-> page[p].tx]
<1>1. /\ page[p].profile \in Profiles /\ page[p].tx \in DOMAIN txs
      /\ page[p].by \in Wallets
  BY DEF Mirror, At, PageKnows, HasWallet, HasProfile, HasTx
<1>2. DOMAIN txs \subseteq 1..MaxTxs
  BY FlowAssumption DEF TypeOK
<1>3. M \in MirrorRow /\ M # None
  BY <1>1, <1>2, AbsentAssumption DEF MirrorRow
<1>4. mirrored' = [mirrored EXCEPT ![page[p].by] = M]
  BY DEF Mirror
<1>. QED
  BY <1>1, <1>3, <1>4 DEF TypeOK

LEMMA PagesKnowStep ==
    ASSUME TypeOK, \A q \in Pages : PageKnows(q), RowsAreTrimmed, [Next]_flowVars,
           \A p \in Pages : Submit(p) => Len(txs) < MaxTxs
    PROVE  PagesKnow'
<1>1. ASSUME NEW p \in Pages, Ready(p) \/ Conflict(p) \/ Confirmed(p) PROVE PagesKnow'
  <2>1. page[p].step \in HasWallet
    BY <1>1 DEF Ready, Conflict, Confirmed, At, HasWallet
  <2>2. CASE Ready(p)
    BY <2>1, <2>2, GotoStep DEF Ready
  <2>3. CASE Conflict(p)
    BY <2>1, <2>3, GotoStep DEF Conflict
  <2>4. CASE Confirmed(p)
    BY <2>1, <2>4, GotoStep DEF Confirmed, At
  <2>. QED
    BY <1>1, <2>2, <2>3, <2>4
<1>2. ASSUME NEW p \in Pages, LookUpUser(p) \/ ReloadUser(p) PROVE PagesKnow'
  <2>1. CASE Rest(p, "user_form")
    BY <2>1, RestStep
  <2>2. CASE users[page[p].by] # None /\ Review(p, page[p].by, users[page[p].by])
    <3>1. page[p].by \in Wallets /\ users' = users
      BY <1>2 DEF LookUpUser, ReloadUser, At, PageKnows, HasWallet, database
    <3>2. /\ users[page[p].by] \in Profiles
          /\ users'[page[p].by] = Trim[users[page[p].by]]
      BY <2>2, <3>1 DEF TypeOK, RowsAreTrimmed
    <3>. QED
      BY <2>2, <3>1, <3>2, ReviewStep
  <2>. QED
    BY <1>2, <2>1, <2>2 DEF LookUpUser, ReloadUser
<1>3. ASSUME NEW p \in Pages, InsertUser(p) PROVE PagesKnow'
  <2>1. CASE Rest(p, "error")
    BY <2>1, RestStep
  <2>2. CASE Review(p, page[p].by, page[p].profile)
    <3>1. page[p].by \in Wallets /\ page[p].profile \in Profiles
      BY <1>3 DEF InsertUser, At, PageKnows, HasWallet, HasProfile
    <3>2. users'[page[p].by] = Trim[page[p].profile]
      BY <1>3, <3>1 DEF InsertUser, TypeOK
    <3>. QED
      BY <2>2, <3>1, <3>2, ReviewStep
  <2>. QED
    BY <1>3, <2>1, <2>2 DEF InsertUser
<1>4. ASSUME NEW p \in Pages, Back(p) \/ Fail(p) PROVE PagesKnow'
  BY <1>4, RestStep DEF Back, Fail
<1>5. ASSUME NEW p \in Pages, Mirror(p) PROVE PagesKnow'
  <2>1. mirrored'[page[p].by] # None
    BY <1>5, MirrorStep
  <2>2. PICK synced \in BOOLEAN : Finish(p, synced)
    BY <1>5 DEF Mirror
  <2>. QED
    BY <1>5, <2>1, <2>2, FinishStep DEF Mirror
<1>6. ASSUME NEW p \in Pages, NotMirrored(p) PROVE PagesKnow'
  BY <1>6, FinishStep DEF NotMirrored
<1>7. ASSUME NEW w \in Wallets, NEW profile \in Typed, RegisterElsewhere(w, profile)
      PROVE  PagesKnow'
  BY <1>7, NoPageMoves DEF RegisterElsewhere
<1>8. ASSUME \/ ProveElsewhere \/ ForgetElsewhere \/ UNCHANGED flowVars
             \/ \E tx \in DOMAIN txs : Apply(tx)
      PROVE  PagesKnow'
  BY <1>8, NoPageMoves DEF ProveElsewhere, ForgetElsewhere, Apply, flowVars
<1>. QED
  BY <1>1, <1>2, <1>3, <1>4, <1>5, <1>6, <1>7, <1>8, StartStep, ConnectStep,
     ConnectElsewhereStep, ForgetStep, RegisterStep, ExecuteStep, SubmitStep DEF Next

-----------------------------------------------------------------------------
(* Rows, mirrors, and the bound *)

LEMMA RowsAreTrimmedStep ==
    ASSUME TypeOK, \A q \in Pages : PageKnows(q), RowsAreTrimmed, [Next]_flowVars
    PROVE  RowsAreTrimmed'
<1>0. users \in [Wallets -> Profiles \union {None}]
  BY DEF TypeOK
<1>1. ASSUME users' = users PROVE RowsAreTrimmed'
  BY <1>1 DEF RowsAreTrimmed
<1>2. ASSUME NEW w \in Wallets, NEW profile \in Profiles,
             users' = [users EXCEPT ![w] = Trim[profile]]
      PROVE  RowsAreTrimmed'
  BY <1>0, <1>2, Trimmed DEF RowsAreTrimmed
<1>3. ASSUME NEW p \in Pages, InsertUser(p) PROVE RowsAreTrimmed'
  <2>1. page[p].profile \in Profiles /\ page[p].by \in Wallets
    BY <1>3 DEF InsertUser, At, PageKnows, HasWallet, HasProfile
  <2>. QED
    BY <1>2, <1>3, <2>1 DEF InsertUser
<1>4. ASSUME NEW w \in Wallets, NEW profile \in Typed, RegisterElsewhere(w, profile)
      PROVE  RowsAreTrimmed'
  BY <1>2, <1>4, TypedIsProfile DEF RegisterElsewhere
<1>5. ASSUME Quiet \/ (\E p \in Pages : Submit(p) \/ Mirror(p))
             \/ \E tx \in DOMAIN txs : Apply(tx)
      PROVE  users' = users
  BY <1>5 DEF Quiet, Submit, Mirror, Apply, database
<1>. QED
  BY <1>1, <1>3, <1>4, <1>5, FewStepsWrite

LEMMA MirrorsAreSignedStep ==
    ASSUME TypeOK, \A q \in Pages : PageKnows(q), MirrorsAreSigned, [Next]_flowVars
    PROVE  MirrorsAreSigned'
<1>1. ASSUME mirrored' = mirrored PROVE MirrorsAreSigned'
  BY <1>1, FactsStay DEF MirrorsAreSigned
<1>2. ASSUME NEW p \in Pages, Mirror(p) PROVE MirrorsAreSigned'
  <2>. DEFINE M == [profile |-> page[p].profile, tx |-> page[p].tx]
  <2>1. /\ page[p].tx \in DOMAIN txs /\ txs[page[p].tx].wallet = page[p].by
        /\ txs[page[p].tx].profile = page[p].profile /\ txs' = txs
    BY <1>2 DEF Mirror, At, PageKnows, HasTx, ledger
  <2>2. page[p].by \in Wallets /\ mirrored' = [mirrored EXCEPT ![page[p].by] = M]
    BY <1>2, MirrorStep
  <2>3. ASSUME NEW w \in Wallets, mirrored'[w] # None
        PROVE  /\ mirrored'[w].tx \in DOMAIN txs'
               /\ txs'[mirrored'[w].tx].wallet = w
               /\ txs'[mirrored'[w].tx].profile = mirrored'[w].profile
    <3>1. CASE w = page[p].by
      BY <2>1, <2>2, <3>1 DEF TypeOK
    <3>2. CASE w # page[p].by
      BY <2>1, <2>2, <2>3, <3>2 DEF MirrorsAreSigned, TypeOK
    <3>. QED
      BY <3>1, <3>2
  <2>. QED
    BY <2>3 DEF MirrorsAreSigned
<1>3. ASSUME NEW p \in Pages, Submit(p) \/ InsertUser(p) PROVE mirrored' = mirrored
  BY <1>3 DEF Submit, InsertUser, database
<1>4. ASSUME NEW w \in Wallets, NEW profile \in Typed, RegisterElsewhere(w, profile)
      PROVE  mirrored' = mirrored
  BY <1>4 DEF RegisterElsewhere
<1>5. ASSUME NEW tx \in DOMAIN txs, Apply(tx) PROVE mirrored' = mirrored
  BY <1>5 DEF Apply, database
<1>. QED
  BY <1>1, <1>2, <1>3, <1>4, <1>5, FewStepsWrite DEF Quiet

\* Only Execute brings a page to signing, or settles what it is to sign with which wallet.
NoNewSigner ==
    \A q \in Pages : page'[q].step = "signing_transaction" =>
        /\ page[q].step = "signing_transaction"
        /\ page'[q].by = page[q].by /\ page'[q].profile = page[q].profile

LEMMA OneMoves ==
    ASSUME TypeOK, NEW p \in Pages, NEW P,
           page' = [page EXCEPT ![p] = P], P.step # "signing_transaction"
    PROVE  NoNewSigner
  BY DEF TypeOK, NoNewSigner

LEMMA FewStepsSign ==
    ASSUME TypeOK, \A q \in Pages : PageKnows(q), [Next]_flowVars
    PROVE  NoNewSigner \/ \E p \in Pages : Execute(p)
<1>1. ASSUME NEW p \in Pages, NEW step \in {"idle", "user_form", "error"}, Rest(p, step)
      PROVE  NoNewSigner
  <2>1. [Reset(p) EXCEPT !.step = step].step = step
    BY DEF Reset, Blank
  <2>2. step # "signing_transaction"
    OBVIOUS
  <2>3. page' = [page EXCEPT ![p] = [Reset(p) EXCEPT !.step = step]]
    BY <1>1 DEF Rest
  <2>. QED
    BY <2>1, <2>2, <2>3, OneMoves
<1>2. ASSUME NEW p \in Pages, NEW step \in (Resting \union Working) \ {"signing_transaction"},
             Goto(p, step)
      PROVE  NoNewSigner
  <2>1. /\ page' = [page EXCEPT ![p] = page'[p]]
        /\ page'[p].step = step
    BY <1>2, GotoKnows
  <2>2. page'[p].step # "signing_transaction"
    BY <2>1
  <2>. QED
    BY <2>1, <2>2, OneMoves
<1>3. ASSUME NEW p \in Pages, NEW wallet, NEW profile, Review(p, wallet, profile)
      PROVE  NoNewSigner
  <2>1. [Reset(p) EXCEPT !.step = "review_verification", !.existing = wallet,
                         !.profile = profile].step = "review_verification"
    BY DEF Reset, Blank
  <2>. QED
    BY <1>3, <2>1, OneMoves DEF Review
<1>4. ASSUME NEW wallet \in Wallets \union {None}, NEW q \in Pages
      PROVE  /\ Everywhere(wallet)[q].step = page[q].step
             /\ Everywhere(wallet)[q].by = page[q].by
             /\ Everywhere(wallet)[q].profile = page[q].profile
  <2>1. page[q] \in Page
    BY DEF TypeOK
  <2>2. Everywhere(wallet)[q] = [page[q] EXCEPT !.address = wallet]
    BY EverywhereKeeps
  <2>. QED
    BY <2>1, <2>2 DEF Page
<1>5. ASSUME NEW p \in Pages, Load(p) \/ NotConnected(p) PROVE NoNewSigner
  <2>1. CASE Load(p)
    <3>1. PICK verified : page' = [page EXCEPT ![p] = Blank(persisted, verified)]
      BY <2>1 DEF Load
    <3>2. Blank(persisted, verified).step # "signing_transaction"
      BY DEF Blank
    <3>. QED
      BY <3>1, <3>2, OneMoves
  <2>2. CASE NotConnected(p)
    <3>1. [Blank(None, FALSE) EXCEPT !.step = "error"].step # "signing_transaction"
      BY DEF Blank
    <3>2. page' = [page EXCEPT ![p] = [Blank(None, FALSE) EXCEPT !.step = "error"]]
      BY <2>2 DEF NotConnected
    <3>. QED
      BY <3>1, <3>2, OneMoves
  <2>. QED
    BY <1>5, <2>1, <2>2
<1>6. ASSUME NEW p \in Pages, Start(p) PROVE NoNewSigner
  <2>. DEFINE step == IF page[p].address # None /\ page[p].verified THEN "checking_readiness"
                                                                   ELSE "connecting_wallet"
  <2>1. [Reset(p) EXCEPT !.by = page[p].address, !.step = step].step = step
    BY DEF Reset, Blank
  <2>2. step # "signing_transaction"
    OBVIOUS
  <2>3. page' = [page EXCEPT ![p] =
                    [Reset(p) EXCEPT !.by = page[p].address, !.step = step]]
    BY <1>6 DEF Start
  <2>. HIDE DEF step
  <2>. QED
    BY <2>1, <2>2, <2>3, OneMoves
<1>7. ASSUME NEW p \in Pages, NEW w \in Wallets, Connected(p, w) PROVE NoNewSigner
  <2>. DEFINE P == IF page[p].by = None THEN [Blank(w, TRUE) EXCEPT !.step = "error"]
          ELSE [Blank(w, TRUE) EXCEPT !.step = "checking_readiness", !.by = page[p].by]
  <2>1. P.step # "signing_transaction"
    BY DEF Blank
  <2>2. page' = [Everywhere(w) EXCEPT ![p] = P]
    BY <1>7 DEF Connected
  <2>. HIDE DEF P
  <2>. QED
    BY <1>4, <2>1, <2>2, EverywhereKeeps DEF NoNewSigner
<1>8. ASSUME NEW w \in Wallets, ConnectElsewhere(w) PROVE NoNewSigner
  BY <1>4, <1>8 DEF ConnectElsewhere, NoNewSigner
<1>9. ASSUME NEW p \in Pages, NEW profile \in Typed, Register(p, profile) PROVE NoNewSigner
  <2>1. CASE Rest(p, "error")
    BY <1>1, <2>1
  <2>2. CASE page' = [page EXCEPT ![p].step = "registering_user", ![p].by = page[p].address,
                                 ![p].profile = profile]
    <3>1. page[p] \in Page /\ page \in [Pages -> Page]
      BY DEF TypeOK
    <3>2. [page[p] EXCEPT !.step = "registering_user", !.by = page[p].address,
                          !.profile = profile].step = "registering_user"
      BY <3>1 DEF Page
    <3>3. page' = [page EXCEPT ![p] = [page[p] EXCEPT !.step = "registering_user",
                                           !.by = page[p].address, !.profile = profile]]
      BY <2>2, <3>1
    <3>. QED
      BY <3>2, <3>3, OneMoves
  <2>. QED
    BY <1>9, <2>1, <2>2 DEF Register
<1>10. ASSUME NEW p \in Pages, Submit(p) PROVE NoNewSigner
  <2>1. CASE Rest(p, "error")
    BY <1>1, <2>1
  <2>2. CASE page' = [page EXCEPT ![p].step = "confirming_transaction", ![p].tx = Len(txs')]
    <3>1. page[p] \in Page /\ page \in [Pages -> Page]
      BY DEF TypeOK
    <3>2. [page[p] EXCEPT !.step = "confirming_transaction", !.tx = Len(txs')].step
              = "confirming_transaction"
      BY <3>1 DEF Page
    <3>3. page' = [page EXCEPT ![p] = [page[p] EXCEPT !.step = "confirming_transaction",
                                                     !.tx = Len(txs')]]
      BY <2>2, <3>1
    <3>. QED
      BY <3>2, <3>3, OneMoves
  <2>. QED
    BY <1>10, <2>1, <2>2 DEF Submit
<1>11. ASSUME NEW p \in Pages, NEW synced \in BOOLEAN, Finish(p, synced) PROVE NoNewSigner
  <2>1. [Reset(p) EXCEPT !.step = "success", !.tx = page[p].tx, !.synced = synced].step
            = "success"
    BY DEF Reset, Blank
  <2>. QED
    BY <1>11, <2>1, OneMoves DEF Finish
<1>12. ASSUME page' = page PROVE NoNewSigner
  BY <1>12 DEF NoNewSigner
<1>13. ASSUME NEW p \in Pages, Ready(p) \/ Conflict(p) \/ Confirmed(p) PROVE NoNewSigner
  BY <1>2, <1>13 DEF Ready, Conflict, Confirmed, Resting, Working
<1>14. ASSUME NEW p \in Pages, LookUpUser(p) \/ ReloadUser(p) \/ InsertUser(p) PROVE NoNewSigner
  BY <1>1, <1>3, <1>14 DEF LookUpUser, ReloadUser, InsertUser
<1>15. ASSUME NEW p \in Pages, Back(p) \/ Fail(p) PROVE NoNewSigner
  BY <1>1, <1>15 DEF Back, Fail
<1>16. ASSUME NEW p \in Pages, Mirror(p) \/ NotMirrored(p) PROVE NoNewSigner
  BY <1>11, <1>16 DEF Mirror, NotMirrored
<1>17. ASSUME NEW w \in Wallets, NEW profile \in Typed, RegisterElsewhere(w, profile)
       PROVE  NoNewSigner
  BY <1>12, <1>17 DEF RegisterElsewhere
<1>18. ASSUME \/ ProveElsewhere \/ ForgetElsewhere \/ UNCHANGED flowVars
              \/ \E tx \in DOMAIN txs : Apply(tx)
       PROVE  NoNewSigner
  BY <1>12, <1>18 DEF ProveElsewhere, ForgetElsewhere, Apply, flowVars
<1>. QED
  BY <1>5, <1>6, <1>7, <1>8, <1>9, <1>10, <1>13, <1>14, <1>15, <1>16, <1>17, <1>18 DEF Next

\* Everything but Execute and Submit leaves the count where it is, or lower.
LEMMA SigningIsFinite ==
    /\ IsFiniteSet(Signing) /\ Cardinality(Signing) \in Nat
    /\ IsFiniteSet(Signing') /\ Cardinality(Signing') \in Nat
<1>1. Signing \subseteq Pages /\ Signing' \subseteq Pages
  BY DEF Signing
<1>. QED
  BY <1>1, FlowAssumption, FS_Subset, FS_CardinalityType

LEMMA SubmitHasRoom ==
    ASSUME TypeOK, WithinBound, NEW p \in Pages, Submit(p)
    PROVE  Len(txs) < MaxTxs
<1>1. p \in Signing
  BY DEF Submit, Signing
<1>2. Cardinality(Signing) # 0
  BY <1>1, SigningIsFinite, FS_EmptySet
<1>3. Len(txs) \in Nat /\ MaxTxs \in Nat
  BY FlowAssumption DEF TypeOK
<1>. QED
  BY <1>2, <1>3, SigningIsFinite DEF WithinBound, Submitted

LEMMA BoundStep ==
    ASSUME TypeOK, \A q \in Pages : PageKnows(q), WithinBound, [Next]_flowVars
    PROVE  WithinBound'
<1>0. Len(txs) \in Nat /\ MaxTxs \in Nat
  BY FlowAssumption DEF TypeOK
<1>1. ASSUME NEW p \in Pages, Execute(p) PROVE WithinBound'
  <2>1. Signing' \subseteq Signing \union {p}
    <3>1. \A q \in Pages \ {p} : page'[q] = page[q]
      BY <1>1 DEF Execute, Rest, TypeOK
    <3>. QED
      BY <3>1 DEF Signing, At
  <2>2. /\ IsFiniteSet(Signing \union {p})
        /\ Cardinality(Signing \union {p}) <= Cardinality(Signing) + 1
    BY SigningIsFinite, FS_AddElement
  <2>3. Cardinality(Signing') <= Cardinality(Signing \union {p})
    BY <2>1, <2>2, FS_Subset
  <2>4. Cardinality(Signing \union {p}) \in Nat
    BY <2>2, FS_CardinalityType
  <2>5. txs' = txs /\ Len(txs) + Cardinality(Signing) < MaxTxs
    BY <1>1 DEF Execute, Submitted, ledger
  <2>. QED
    BY <1>0, <2>2, <2>3, <2>4, <2>5, SigningIsFinite DEF WithinBound, Submitted
<1>2. ASSUME NEW p \in Pages, Submit(p) PROVE WithinBound'
  <2>1. p \in Signing /\ \A q \in Pages \ {p} : page'[q] = page[q]
    BY <1>2 DEF Submit, Signing, Rest, TypeOK
  <2>2. page'[p].step # "signing_transaction"
    <3>1. CASE Rest(p, "error")
      BY <3>1, RestKnows
    <3>2. CASE page' = [page EXCEPT ![p].step = "confirming_transaction", ![p].tx = Len(txs')]
      <4>1. page[p] \in Page /\ page \in [Pages -> Page]
        BY DEF TypeOK
      <4>. QED
        BY <3>2, <4>1 DEF Page
    <3>. QED
      BY <1>2, <3>1, <3>2 DEF Submit
  <2>3. Signing' \subseteq Signing \ {p}
    BY <2>1, <2>2 DEF Signing, At
  <2>4. IsFiniteSet(Signing \ {p}) /\ Cardinality(Signing \ {p}) = Cardinality(Signing) - 1
    BY <2>1, SigningIsFinite, FS_RemoveElement
  <2>5. Cardinality(Signing') <= Cardinality(Signing \ {p})
    BY <2>3, <2>4, FS_Subset
  <2>6. Len(txs') = Len(txs) + 1
    BY <1>2 DEF Submit, TypeOK
  <2>. QED
    BY <1>0, <2>4, <2>5, <2>6, SigningIsFinite DEF WithinBound, Submitted
<1>3. ASSUME NoNewSigner, Len(txs') = Len(txs) PROVE WithinBound'
  <2>1. Signing' \subseteq Signing
    BY <1>3 DEF Signing, At, NoNewSigner
  <2>2. Cardinality(Signing') <= Cardinality(Signing)
    BY <2>1, SigningIsFinite, FS_Subset
  <2>. QED
    BY <1>0, <1>3, <2>2, SigningIsFinite DEF WithinBound, Submitted
<1>4. Len(txs') = Len(txs) \/ \E p \in Pages : Submit(p)
  <2>1. ASSUME NEW p \in Pages, InsertUser(p) \/ Mirror(p) PROVE txs' = txs
    BY <2>1 DEF InsertUser, Mirror, ledger
  <2>2. ASSUME NEW w \in Wallets, NEW profile \in Typed, RegisterElsewhere(w, profile)
        PROVE  txs' = txs
    BY <2>2 DEF RegisterElsewhere, ledger
  <2>3. ASSUME NEW tx \in DOMAIN txs, Apply(tx) PROVE Len(txs') = Len(txs)
    BY <2>3 DEF Apply, TypeOK
  <2>. QED
    BY <2>1, <2>2, <2>3, FewStepsWrite DEF Quiet
<1>. QED
  BY <1>1, <1>2, <1>3, <1>4, FewStepsSign

-----------------------------------------------------------------------------
(* What the type invariant says of the rest *)

LEMMA BrowserStep ==
    ASSUME TypeOK, \A q \in Pages : PageKnows(q), [Next]_flowVars
    PROVE  /\ persisted' \in Wallets \union {None} /\ session' \in Wallets \union {None}
           /\ switches' \in 0..MaxSwitches
<1>. DEFINE Goal == /\ persisted' \in Wallets \union {None}
                    /\ session' \in Wallets \union {None} /\ switches' \in 0..MaxSwitches
<1>0. /\ persisted \in Wallets \union {None} /\ session \in Wallets \union {None}
      /\ switches \in 0..MaxSwitches /\ MaxSwitches \in Nat
  BY FlowAssumption DEF TypeOK
<1>1. ASSUME UNCHANGED browser PROVE Goal
  BY <1>0, <1>1 DEF browser
<1>2. ASSUME NEW p \in Pages, NEW w \in Wallets, Connected(p, w) PROVE Goal
  BY <1>0, <1>2 DEF Connected
<1>3. ASSUME NEW p \in Pages, NotConnected(p) PROVE Goal
  BY <1>0, <1>3 DEF NotConnected
<1>4. ASSUME NEW w \in Wallets, ConnectElsewhere(w) PROVE Goal
  BY <1>0, <1>4 DEF ConnectElsewhere, Switch
<1>5. ASSUME ProveElsewhere PROVE Goal
  BY <1>0, <1>5 DEF ProveElsewhere
<1>6. ASSUME ForgetElsewhere PROVE Goal
  BY <1>0, <1>6 DEF ForgetElsewhere, Switch
<1>7. ASSUME NEW p \in Pages, Load(p) \/ Start(p) \/ Back(p) \/ Execute(p) \/ Submit(p)
      PROVE  UNCHANGED browser
  BY <1>7 DEF Load, Start, Back, Execute, Submit
<1>8. ASSUME NEW p \in Pages, Ready(p) \/ LookUpUser(p) \/ InsertUser(p) \/ Conflict(p)
                              \/ ReloadUser(p)
      PROVE  UNCHANGED browser
  BY <1>8 DEF Ready, LookUpUser, InsertUser, Conflict, ReloadUser
<1>9. ASSUME NEW p \in Pages, Confirmed(p) \/ Mirror(p) \/ NotMirrored(p) \/ Fail(p)
      PROVE  UNCHANGED browser
  BY <1>9 DEF Confirmed, Mirror, NotMirrored, Fail
<1>10. ASSUME NEW p \in Pages, NEW profile \in Typed, Register(p, profile)
       PROVE  UNCHANGED browser
  BY <1>10 DEF Register
<1>11. ASSUME NEW w \in Wallets, NEW profile \in Typed, RegisterElsewhere(w, profile)
       PROVE  UNCHANGED browser
  BY <1>11 DEF RegisterElsewhere
<1>12. ASSUME UNCHANGED flowVars \/ \E tx \in DOMAIN txs : Apply(tx) PROVE UNCHANGED browser
  BY <1>12 DEF Apply, flowVars, browser
<1>. QED
  BY <1>1, <1>2, <1>3, <1>4, <1>5, <1>6, <1>7, <1>8, <1>9, <1>10, <1>11, <1>12 DEF Next

LEMMA VerificationStep ==
    ASSUME TypeOK, \A q \in Pages : PageKnows(q), [Next]_flowVars
    PROVE  verification' \in [Wallets -> Registry!VerificationRecord \union {None}]
<1>. DEFINE Goal == verification' \in [Wallets -> Registry!VerificationRecord \union {None}]
<1>0. verification \in [Wallets -> Registry!VerificationRecord \union {None}]
  BY DEF TypeOK
<1>1. ASSUME UNCHANGED verification PROVE Goal
  BY <1>0, <1>1
<1>2. ASSUME NEW tx \in DOMAIN txs,
             Registry!VerifyIdentity(txs[tx].wallet, txs[tx].profile)
      PROVE  Goal
  <2>. DEFINE w == txs[tx].wallet
              version == IF Registry!IsVerified(w) THEN verification[w].version + 1 ELSE 1
              V == [profile |-> txs[tx].profile, version |-> version]
  <2>1. w \in Wallets /\ txs[tx].profile \in Profiles
    <3>1. txs \in Seq(TxRecord)
      BY DEF TypeOK, TxRecord
    <3>2. txs[tx] \in TxRecord
      BY <3>1
    <3>. QED
      BY <3>2 DEF TxRecord
  <2>2. version \in Nat \ {0}
    <3>1. CASE Registry!IsVerified(w)
      <4>1. verification[w] \in Registry!VerificationRecord
        BY <1>0, <2>1, <3>1 DEF Registry!IsVerified
      <4>2. verification[w].version \in Nat \ {0}
        BY <4>1 DEF Registry!VerificationRecord
      <4>. QED
        BY <3>1, <4>2
    <3>2. CASE ~Registry!IsVerified(w)
      BY <3>2
    <3>. QED
      BY <3>1, <3>2
  <2>. HIDE DEF version
  <2>3. V \in Registry!VerificationRecord
    BY <2>1, <2>2 DEF Registry!VerificationRecord
  <2>4. verification' = [verification EXCEPT ![w] = V]
    BY <1>2 DEF Registry!VerifyIdentity, Registry!Store, version
  <2>. HIDE DEF V, w
  <2>. QED
    BY <1>0, <2>3, <2>4
<1>3. ASSUME NEW tx \in DOMAIN txs, Apply(tx) PROVE Goal
  BY <1>1, <1>2, <1>3 DEF Apply
<1>4. ASSUME NEW p \in Pages, Submit(p) \/ InsertUser(p) \/ Mirror(p)
      PROVE  UNCHANGED verification
  BY <1>4 DEF Submit, InsertUser, Mirror, ledger
<1>5. ASSUME NEW w \in Wallets, NEW profile \in Typed, RegisterElsewhere(w, profile)
      PROVE  UNCHANGED verification
  BY <1>5 DEF RegisterElsewhere, ledger
<1>. QED
  BY <1>1, <1>3, <1>4, <1>5, FewStepsWrite DEF Quiet

-----------------------------------------------------------------------------
(* The invariant, and what it is for *)

LEMMA FlowInit == Init => FlowInv
<1>. SUFFICES ASSUME Init PROVE FlowInv
  OBVIOUS
<1>1. ASSUME NEW p \in Pages PROVE page[p] \in Page /\ page[p].step = "idle"
  <2>1. page[p] = Blank(None, FALSE)
    BY DEF Init
  <2>2. Blank(None, FALSE) \in Page /\ Blank(None, FALSE).step = "idle"
    BY DEF Blank, Page, Resting
  <2>. QED
    BY <2>1, <2>2
<1>2. TypeOK
  <2>1. page \in [Pages -> Page]
    BY <1>1 DEF Init
  <2>2. txs \in Seq([wallet: Wallets, profile: Profiles, fate: {"sent", "SUCCESS", "FAILED"}])
        /\ Len(txs) <= MaxTxs
    BY FlowAssumption DEF Init
  <2>3. /\ persisted = None /\ session = None /\ switches \in 0..MaxSwitches
        /\ users \in [Wallets -> Profiles \union {None}]
        /\ mirrored \in [Wallets -> MirrorRow \union {None}]
        /\ verification \in [Wallets -> Registry!VerificationRecord \union {None}]
    BY FlowAssumption DEF Init, Registry!Init
  <2>. QED
    BY <2>1, <2>2, <2>3 DEF TypeOK
<1>3. \A p \in Pages : PageKnows(p)
  BY <1>1 DEF PageKnows, HasWallet, HasProfile, HasTx
<1>4. MirrorsAreSigned
  BY DEF Init, MirrorsAreSigned
<1>5. WithinBound
  <2>1. Signing = {}
    BY <1>1 DEF Signing, At
  <2>. QED
    BY <2>1, FS_EmptySet, FlowAssumption DEF Init, WithinBound, Submitted
<1>6. RowsAreTrimmed
  BY DEF Init, RowsAreTrimmed
<1>. QED
  BY <1>2, <1>3, <1>4, <1>5, <1>6 DEF FlowInv

LEMMA FlowStep == FlowInv /\ [Next]_flowVars => FlowInv'
<1>. SUFFICES ASSUME FlowInv, [Next]_flowVars PROVE FlowInv'
  OBVIOUS
<1>0. TypeOK /\ (\A p \in Pages : PageKnows(p)) /\ MirrorsAreSigned
      /\ RowsAreTrimmed /\ WithinBound
  BY DEF FlowInv
<1>1. PagesKnow'
  BY <1>0, SubmitHasRoom, PagesKnowStep
<1>2. MirrorsAreSigned'
  BY <1>0, MirrorsAreSignedStep
<1>3. WithinBound'
  BY <1>0, BoundStep
<1>4. RowsAreTrimmed'
  BY <1>0, RowsAreTrimmedStep
<1>5. TypeOK'
  <2>1. txs' \in Seq([wallet: Wallets, profile: Profiles, fate: {"sent", "SUCCESS", "FAILED"}])
    BY <1>0, FactsStay DEF TxRecord
  <2>2. Len(txs') <= MaxTxs
    BY <1>3, <2>1, SigningIsFinite, FlowAssumption DEF WithinBound, Submitted
  <2>3. /\ users' \in [Wallets -> Profiles \union {None}]
        /\ mirrored' \in [Wallets -> MirrorRow \union {None}]
    BY <1>0, FactsStay
  <2>. QED
    BY <1>0, <1>1, <2>1, <2>2, <2>3, BrowserStep, VerificationStep DEF TypeOK, PagesKnow
<1>. QED
  BY <1>1, <1>2, <1>3, <1>4, <1>5 DEF FlowInv, PagesKnow

\* FlowInv is inductive.
THEOREM Inductive == Spec => []FlowInv
  BY FlowInit, FlowStep, PTL DEF Spec

\* Every state of the flow is well-typed: the guard of Execute keeps the count of the
\* transactions within the model's bound.
THEOREM TypeCorrect == Spec => []TypeOK
<1>1. FlowInv => TypeOK
  BY DEF FlowInv
<1>. QED
  BY <1>1, Inductive, PTL

\* What create_verification stores for a wallet is what that wallet signed (main.rs:904),
\* for any number of wallets, pages and switches of the wallet.
THEOREM MirrorOwnTx == Spec => []MirrorIsOwnTx
<1>1. FlowInv => MirrorIsOwnTx
  BY DEF FlowInv, MirrorsAreSigned, MirrorIsOwnTx
<1>. QED
  BY <1>1, Inductive, PTL

\* What is up for review is the profile the backend keeps, but for the blanks around its
\* fields, which the request loses and the form does not (get-verified/page.tsx:277, 284),
\* whoever registered the wallet first.
THEOREM ReviewOnFile == Spec => []ReviewIsOnFile
<1>1. FlowInv => ReviewIsOnFile
  BY FlowAssumption DEF FlowInv, PageKnows, ReviewIsOnFile, At
<1>. QED
  BY <1>1, Inductive, PTL

\* Success without the warning means the wallet that signed is mirrored
\* (get-verified/page.tsx:711), whatever happens to it later.
THEOREM SyncedMirrored == Spec => []SyncedIsMirrored
<1>1. FlowInv => SyncedIsMirrored
  BY DEF FlowInv, PageKnows, SyncedIsMirrored, At
<1>. QED
  BY <1>1, Inductive, PTL

-----------------------------------------------------------------------------
(* Versions *)

Applied(w) == {i \in DOMAIN txs : txs[i].wallet = w /\ txs[i].fate = "SUCCESS"}

Version(w) == IF Registry!IsVerified(w) THEN verification[w].version ELSE 0

LEMMA AppliedIsFinite ==
    ASSUME TypeOK, NEW w
    PROVE  IsFiniteSet(Applied(w)) /\ Cardinality(Applied(w)) \in Nat
<1>1. Applied(w) \subseteq 1..Len(txs) /\ Len(txs) \in Nat
  BY DEF Applied, TypeOK
<1>2. IsFiniteSet(1..Len(txs))
  BY <1>1, FS_Interval
<1>3. IsFiniteSet(Applied(w))
  BY <1>1, <1>2, FS_Subset
<1>. QED
  BY <1>3, FS_CardinalityType

\* A step that applies nothing leaves what has been applied.
LEMMA AppliedStays ==
    ASSUME UNCHANGED verification,
           \A i \in DOMAIN txs : i \in DOMAIN txs' /\ txs'[i] = txs[i],
           \A i \in DOMAIN txs' \ DOMAIN txs : txs'[i].fate = "sent",
           VersionCounts
    PROVE  VersionCounts'
<1>1. ASSUME NEW w \in Wallets PROVE Applied(w)' = Applied(w)
  BY DEF Applied
<1>. QED
  BY <1>1 DEF VersionCounts, Applied, Registry!IsVerified

LEMMA VersionStep ==
    ASSUME TypeOK, VersionCounts, [Next]_flowVars
    PROVE  VersionCounts'
<1>0. txs \in Seq(TxRecord)
  BY DEF TypeOK, TxRecord
<1>1. ASSUME UNCHANGED <<txs, verification>> PROVE VersionCounts'
  BY <1>1, AppliedStays
<1>2. ASSUME NEW p \in Pages, Submit(p) PROVE VersionCounts'
  <2>. DEFINE T == [wallet |-> page[p].by, profile |-> page[p].profile, fate |-> "sent"]
  <2>1. txs' = Append(txs, T) /\ T.fate = "sent" /\ UNCHANGED verification
    BY <1>2 DEF Submit
  <2>. HIDE DEF T
  <2>2. /\ \A i \in DOMAIN txs : i \in DOMAIN txs' /\ txs'[i] = txs[i]
        /\ \A i \in DOMAIN txs' \ DOMAIN txs : txs'[i] = T
    BY <1>0, <2>1
  <2>. QED
    BY <2>1, <2>2, AppliedStays
<1>3. ASSUME NEW tx \in DOMAIN txs, Apply(tx) PROVE VersionCounts'
  <2>. DEFINE Fated(fate) == [txs[tx] EXCEPT !.fate = fate]
  <2>0. txs[tx] \in TxRecord /\ txs[tx].fate = "sent"
    BY <1>0, <1>3 DEF Apply
  <2>1. PICK fate \in {"SUCCESS", "FAILED"} :
           /\ txs' = [txs EXCEPT ![tx] = Fated(fate)]
           /\ IF fate = "SUCCESS" THEN Registry!VerifyIdentity(txs[tx].wallet, txs[tx].profile)
                                  ELSE UNCHANGED verification
    BY <1>0, <1>3 DEF Apply
  <2>2. Fated(fate).wallet = txs[tx].wallet /\ Fated(fate).fate = fate
    BY <2>0 DEF TxRecord
  <2>. HIDE DEF Fated
  <2>3. /\ DOMAIN txs' = DOMAIN txs /\ txs'[tx] = Fated(fate)
        /\ \A i \in DOMAIN txs \ {tx} : txs'[i] = txs[i]
    BY <1>0, <2>1
  <2>4. ASSUME NEW w \in Wallets, fate = "FAILED" \/ w # txs[tx].wallet
        PROVE  Applied(w)' = Applied(w) /\ Version(w)' = Version(w)
    <3>1. Applied(w)' = Applied(w)
      BY <2>0, <2>2, <2>3, <2>4 DEF Applied
    <3>2. verification'[w] = verification[w]
      BY <2>1, <2>4 DEF TypeOK, Registry!VerifyIdentity, Registry!Store
    <3>. QED
      BY <3>1, <3>2 DEF Version, Registry!IsVerified
  <2>5. ASSUME NEW w \in Wallets, fate = "SUCCESS", w = txs[tx].wallet
        PROVE  /\ Cardinality(Applied(w)') = Cardinality(Applied(w)) + 1
               /\ Version(w)' = Version(w) + 1
    <3>1. Applied(w)' = Applied(w) \union {tx} /\ tx \notin Applied(w)
      BY <2>0, <2>2, <2>3, <2>5 DEF Applied
    <3>2. Cardinality(Applied(w)') = Cardinality(Applied(w)) + 1
      BY <3>1, AppliedIsFinite, FS_AddElement
    <3>. DEFINE V == [profile |-> txs[tx].profile, version |-> Version(w) + 1]
    <3>3. verification' = [verification EXCEPT ![w] = V]
      BY <2>1, <2>5 DEF Registry!VerifyIdentity, Registry!Store, Version
    <3>4. Version(w) \in Nat
      BY DEF Version, TypeOK, Registry!IsVerified, Registry!VerificationRecord
    <3>5. V \in Registry!VerificationRecord /\ V.version = Version(w) + 1
      BY <2>0, <3>4 DEF TxRecord, Registry!VerificationRecord
    <3>. HIDE DEF V
    <3>6. verification'[w] = V /\ V # None
      BY <3>3, <3>5, AbsentAssumption DEF TypeOK
    <3>7. Version(w)' = Version(w) + 1
      BY <3>5, <3>6 DEF Version, Registry!IsVerified
    <3>. QED
      BY <3>2, <3>7
  <2>6. ASSUME NEW w \in Wallets PROVE Version(w)' = Cardinality(Applied(w)')
    <3>1. Version(w) = Cardinality(Applied(w))
      BY DEF VersionCounts, Version, Applied
    <3>. QED
      BY <2>4, <2>5, <3>1
  <2>. QED
    BY <2>6 DEF VersionCounts, Version, Applied
<1>4. ASSUME NEW p \in Pages, InsertUser(p) \/ Mirror(p) PROVE UNCHANGED <<txs, verification>>
  BY <1>4 DEF InsertUser, Mirror, ledger
<1>5. ASSUME NEW w \in Wallets, NEW profile \in Typed, RegisterElsewhere(w, profile)
      PROVE  UNCHANGED <<txs, verification>>
  BY <1>5 DEF RegisterElsewhere, ledger
<1>. QED
  BY <1>1, <1>2, <1>3, <1>4, <1>5, FewStepsWrite DEF Quiet

\* A wallet's version counts its applied transactions (identity-registry lib.rs:38), however
\* often timeouts and lost answers have it verified again.
THEOREM VersionsCount == Spec => []VersionCounts
<1>1. Init => VersionCounts
  <2>. SUFFICES ASSUME Init, NEW w \in Wallets
                PROVE  /\ ~Registry!IsVerified(w)
                       /\ {i \in DOMAIN txs : txs[i].wallet = w /\ txs[i].fate = "SUCCESS"} = {}
    BY FS_EmptySet DEF VersionCounts
  <2>. QED
    BY DEF Init, Registry!Init, Registry!IsVerified
<1>2. TypeOK /\ VersionCounts /\ [Next]_flowVars => VersionCounts'
  BY VersionStep
<1>. QED
  BY <1>1, <1>2, TypeCorrect, PTL DEF Spec

-----------------------------------------------------------------------------
(* Whose profile a wallet signs *)

\* While a profile is up for review, the wallet that is connected is the one it was
\* looked up for: nobody switches the wallet then.
ReviewedWalletStays ==
    \A p \in Pages : At(p, "review_verification") =>
        page[p].address \in {None, page[p].existing}

SignersReviewed ==
    \A p \in Pages : At(p, "signing_transaction") => Trim[page[p].profile] = users[page[p].by]

LEMMA SignersReviewedStep ==
    ASSUME FlowInv, ReviewedWalletStays, SignersReviewed, [Next]_flowVars
    PROVE  SignersReviewed'
<1>0. TypeOK /\ \A q \in Pages : PageKnows(q)
  BY DEF FlowInv
<1>1. \A w \in Wallets : users[w] # None => users'[w] = users[w]
  BY <1>0, FactsStay
<1>2. ASSUME NEW q \in Pages, At(q, "signing_transaction")
      PROVE  users'[page[q].by] = users[page[q].by]
  <2>1. page[q].by \in Wallets /\ page[q].profile \in Profiles
    BY <1>0, <1>2 DEF At, PageKnows, HasWallet, HasProfile
  <2>2. users[page[q].by] # None
    BY <1>2, <2>1, Trimmed DEF SignersReviewed
  <2>. QED
    BY <1>1, <2>1, <2>2
<1>3. CASE NoNewSigner
  BY <1>2, <1>3 DEF NoNewSigner, SignersReviewed, At
<1>4. ASSUME NEW p \in Pages, Execute(p) PROVE SignersReviewed'
  <2>. DEFINE P == [Reset(p) EXCEPT !.step = "signing_transaction", !.by = page[p].address,
                                    !.profile = page[p].profile]
  <2>0. users' = users /\ page \in [Pages -> Page]
    BY <1>0, <1>4 DEF Execute, database, TypeOK
  <2>1. CASE page[p].address = None
    <3>1. page' = [page EXCEPT ![p] = page'[p]] /\ page'[p].step = "error"
      BY <1>0, <1>4, <2>1, RestKnows DEF Execute
    <3>. QED
      BY <2>0, <3>1 DEF SignersReviewed, At
  <2>2. CASE page[p].address # None
    <3>1. page' = [page EXCEPT ![p] = P]
      BY <1>4, <2>2 DEF Execute
    <3>2. P.by = page[p].address /\ P.profile = page[p].profile
      BY DEF Reset, Blank
    <3>3. Trim[page[p].profile] = users[page[p].address]
      BY <1>0, <1>4, <2>2 DEF Execute, At, PageKnows, ReviewedWalletStays
    <3>. HIDE DEF P
    <3>4. page'[p] = P
      BY <2>0, <3>1
    <3>5. \A q \in Pages : q # p => page'[q] = page[q]
      BY <2>0, <3>1
    <3>. QED
      BY <2>0, <3>2, <3>3, <3>4, <3>5 DEF SignersReviewed, At
  <2>. QED
    BY <2>1, <2>2
<1>. QED
  BY <1>0, <1>3, <1>4, FewStepsSign

LEMMA IdentityIsOwnStep ==
    ASSUME FlowInv, SignersReviewed, IdentityIsOwn, [Next]_flowVars
    PROVE  IdentityIsOwn'
<1>0. TypeOK /\ (\A q \in Pages : PageKnows(q)) /\ txs \in Seq(TxRecord)
  BY DEF FlowInv, TypeOK, TxRecord
<1>1. ASSUME NEW i \in DOMAIN txs PROVE Trim[txs'[i].profile] = users'[txs'[i].wallet]
  <2>1. txs[i] \in TxRecord
    BY <1>0
  <2>2. txs[i].wallet \in Wallets /\ txs[i].profile \in Profiles
    BY <2>1 DEF TxRecord
  <2>3. users[txs[i].wallet] # None /\ users[txs[i].wallet] = Trim[txs[i].profile]
    BY <2>2, Trimmed, FlowAssumption DEF IdentityIsOwn
  <2>. QED
    BY <1>0, <2>2, <2>3, FactsStay
<1>2. CASE DOMAIN txs' \subseteq DOMAIN txs
  BY <1>1, <1>2 DEF IdentityIsOwn
<1>3. ASSUME NEW p \in Pages, Submit(p) PROVE IdentityIsOwn'
  <2>. DEFINE T == [wallet |-> page[p].by, profile |-> page[p].profile, fate |-> "sent"]
  <2>1. T \in TxRecord /\ T.wallet = page[p].by /\ T.profile = page[p].profile
    BY <1>0, <1>3 DEF Submit, At, PageKnows, HasWallet, HasProfile, TxRecord
  <2>2. txs' = Append(txs, T) /\ users' = users
    BY <1>3 DEF Submit, database
  <2>3. Trim[T.profile] = users[T.wallet]
    BY <1>3, <2>1 DEF Submit, SignersReviewed
  <2>. HIDE DEF T
  <2>4. \A i \in DOMAIN txs' : i \in DOMAIN txs \/ txs'[i] = T
    BY <1>0, <2>1, <2>2
  <2>. QED
    BY <1>1, <2>2, <2>3, <2>4 DEF IdentityIsOwn
<1>4. ASSUME Quiet \/ (\E p \in Pages : InsertUser(p) \/ Mirror(p))
             \/ \E wallet \in Wallets, profile \in Typed : RegisterElsewhere(wallet, profile)
      PROVE  txs' = txs
  BY <1>4 DEF Quiet, InsertUser, Mirror, RegisterElsewhere, ledger
<1>5. ASSUME NEW tx \in DOMAIN txs, Apply(tx) PROVE DOMAIN txs' \subseteq DOMAIN txs
  BY <1>0, <1>5 DEF Apply
<1>. QED
  BY <1>2, <1>3, <1>4, <1>5, FewStepsWrite

\* A wallet signs the profile the backend keeps of it, but for blanks around the fields, as
\* long as the wallet is not switched while a profile is up for review: whatever else is
\* lost, repeated or runs in other tabs, blanks and the switch are the only ways to what
\* docs/ONBOARDING.md:61 rules out.
THEOREM OwnUnlessSwitched == Spec /\ []ReviewedWalletStays => []IdentityIsOwn
<1>1. Init => SignersReviewed /\ IdentityIsOwn
  BY DEF Init, Blank, At, SignersReviewed, IdentityIsOwn
<1>2. FlowInv /\ ReviewedWalletStays /\ SignersReviewed /\ IdentityIsOwn /\ [Next]_flowVars
          => SignersReviewed' /\ IdentityIsOwn'
  BY SignersReviewedStep, IdentityIsOwnStep
<1>. QED
  BY <1>1, <1>2, Inductive, PTL DEF Spec

\* So what a user of one wallet signs is always his own profile, but for blanks.
THEOREM OwnWithOneWallet ==
    ASSUME \A v, w \in Wallets : v = w
    PROVE  Spec => []IdentityIsOwn
<1>1. FlowInv => ReviewedWalletStays
  BY DEF FlowInv, TypeOK, Page, PageKnows, At, ReviewedWalletStays
<1>. QED
  BY <1>1, Inductive, OwnUnlessSwitched, PTL

-----------------------------------------------------------------------------
(* IdentityFlow implements IdentityPromise *)

\* A wallet is asked to sign a profile that is on file when its blanks are trimmed, if not
\* always as its own.
SignersFiled ==
    \A p \in Pages : At(p, "signing_transaction") =>
        \E v \in Wallets : users[v] = Trim[page[p].profile]

LEMMA SignersFiledStep ==
    ASSUME FlowInv, SignersFiled, [Next]_flowVars
    PROVE  SignersFiled'
<1>0. TypeOK /\ \A q \in Pages : PageKnows(q)
  BY DEF FlowInv
<1>1. ASSUME NEW v \in Wallets, users[v] # None PROVE users'[v] = users[v]
  BY <1>0, <1>1, FactsStay
<1>2. ASSUME NEW q \in Pages, At(q, "signing_transaction")
      PROVE  \E v \in Wallets : users'[v] = Trim[page[q].profile]
  <2>1. page[q].profile \in Profiles
    BY <1>0, <1>2 DEF At, PageKnows, HasProfile
  <2>2. PICK v \in Wallets : users[v] = Trim[page[q].profile]
    BY <1>2 DEF SignersFiled
  <2>. QED
    BY <1>1, <2>1, <2>2, Trimmed
<1>3. CASE NoNewSigner
  BY <1>2, <1>3 DEF NoNewSigner, SignersFiled, At
<1>4. ASSUME NEW p \in Pages, Execute(p) PROVE SignersFiled'
  <2>. DEFINE P == [Reset(p) EXCEPT !.step = "signing_transaction", !.by = page[p].address,
                                    !.profile = page[p].profile]
  <2>0. users' = users /\ page \in [Pages -> Page]
    BY <1>0, <1>4 DEF Execute, database, TypeOK
  <2>1. CASE page[p].address = None
    <3>1. page' = [page EXCEPT ![p] = page'[p]] /\ page'[p].step = "error"
      BY <1>0, <1>4, <2>1, RestKnows DEF Execute
    <3>2. \A q \in Pages : At(q, "signing_transaction")' => q # p /\ page'[q] = page[q]
      BY <2>0, <3>1 DEF At
    <3>. QED
      BY <1>2, <3>2 DEF SignersFiled, At
  <2>2. CASE page[p].address # None
    <3>1. page' = [page EXCEPT ![p] = P] /\ P.profile = page[p].profile
      BY <1>4, <2>2 DEF Execute, Reset, Blank
    <3>2. page[p].existing \in Wallets /\ Trim[page[p].profile] = users[page[p].existing]
      BY <1>0, <1>4 DEF Execute, At, PageKnows
    <3>. HIDE DEF P
    <3>3. page'[p] = P /\ \A q \in Pages : q # p => page'[q] = page[q]
      BY <2>0, <3>1
    <3>. QED
      BY <1>2, <2>0, <3>1, <3>2, <3>3 DEF SignersFiled, At
  <2>. QED
    BY <2>1, <2>2
<1>. QED
  BY <1>0, <1>3, <1>4, FewStepsSign

\* Steps that write no table and no chain stutter.
LEMMA QuietMaps ==
    ASSUME Quiet
    PROVE  UNCHANGED Promise!promiseVars
  BY DEF Quiet, Promise!promiseVars

LEMMA EnrolMaps ==
    ASSUME TypeOK, NEW w \in Wallets, NEW profile \in Profiles, users[w] = None,
           users' = [users EXCEPT ![w] = Trim[profile]], UNCHANGED <<mirrored, txs, verification>>
    PROVE  [Promise!Next]_(Promise!promiseVars)
<1>1. Promise!Enrol(w, profile)
  BY DEF Promise!Enrol
<1>. QED
  BY <1>1 DEF Promise!Next

LEMMA SubmitMaps ==
    ASSUME FlowInv, SignersFiled, NEW p \in Pages, Submit(p)
    PROVE  [Promise!Next]_(Promise!promiseVars)
<1>1. /\ page[p].by \in Wallets /\ page[p].profile \in Profiles
      /\ \E v \in Wallets : users[v] = Trim[page[p].profile]
  BY DEF FlowInv, PageKnows, SignersFiled, Submit, At, HasWallet, HasProfile
<1>2. Promise!Sign(page[p].by, page[p].profile)
  BY <1>1 DEF Promise!Sign, Submit, database
<1>. QED
  BY <1>1, <1>2 DEF Promise!Next

LEMMA MirrorMaps ==
    ASSUME FlowInv, NEW p \in Pages, Mirror(p)
    PROVE  [Promise!Next]_(Promise!promiseVars)
<1>1. /\ page[p].tx \in DOMAIN txs /\ txs[page[p].tx].wallet = page[p].by
      /\ txs[page[p].tx].profile = page[p].profile
  BY DEF FlowInv, PageKnows, Mirror, At, HasTx
<1>2. Promise!Copy(page[p].tx)
  BY <1>1 DEF Promise!Copy, Mirror, ledger
<1>. QED
  BY <1>1, <1>2 DEF Promise!Next

LEMMA ApplyMaps ==
    ASSUME TypeOK, NEW tx \in DOMAIN txs, Apply(tx)
    PROVE  [Promise!Next]_(Promise!promiseVars)
<1>1. txs[tx].fate = "sent" /\ UNCHANGED <<users, mirrored>>
  BY DEF Apply, database
<1>2. CASE /\ txs' = [txs EXCEPT ![tx].fate = "SUCCESS"]
           /\ Registry!VerifyIdentity(txs[tx].wallet, txs[tx].profile)
  <2>1. Promise!Honour(tx)
    BY <1>1, <1>2 DEF Promise!Honour, Promise!Edition, Registry!VerifyIdentity, Registry!Store,
                      Registry!IsVerified
  <2>. QED
    BY <2>1 DEF Promise!Next
<1>3. CASE txs' = [txs EXCEPT ![tx].fate = "FAILED"] /\ UNCHANGED verification
  <2>1. Promise!Refuse(tx)
    BY <1>1, <1>3 DEF Promise!Refuse
  <2>. QED
    BY <2>1 DEF Promise!Next
<1>. QED
  BY <1>2, <1>3 DEF Apply

LEMMA StepsMap ==
    ASSUME FlowInv, SignersFiled, [Next]_flowVars
    PROVE  [Promise!Next]_(Promise!promiseVars)
<1>0. TypeOK /\ \A q \in Pages : PageKnows(q)
  BY DEF FlowInv
<1>1. ASSUME NEW p \in Pages, InsertUser(p) PROVE [Promise!Next]_(Promise!promiseVars)
  <2>1. page[p].by \in Wallets /\ page[p].profile \in Profiles
    BY <1>0, <1>1 DEF InsertUser, At, PageKnows, HasWallet, HasProfile
  <2>. QED
    BY <1>0, <1>1, <2>1, EnrolMaps DEF InsertUser, ledger
<1>2. ASSUME NEW w \in Wallets, NEW profile \in Typed, RegisterElsewhere(w, profile)
      PROVE  [Promise!Next]_(Promise!promiseVars)
  BY <1>0, <1>2, EnrolMaps, TypedIsProfile DEF RegisterElsewhere, ledger
<1>. QED
  BY <1>0, <1>1, <1>2, QuietMaps, SubmitMaps, MirrorMaps, ApplyMaps, FewStepsWrite

\* Refinement, for any number of wallets, pages and switches of the wallet: what pages,
\* backend and contract do together is what IdentityPromise allows.
THEOREM IdentityPromiseKept == Spec => KeepsIdentityPromise
<1>1. Init => Promise!Init /\ SignersFiled
  BY DEF Init, Registry!Init, Promise!Init, Blank, At, SignersFiled
<1>2. FlowInv /\ SignersFiled /\ [Next]_flowVars
          => SignersFiled' /\ [Promise!Next]_(Promise!promiseVars)
  BY SignersFiledStep, StepsMap
<1>. QED
  BY <1>1, <1>2, Inductive, PTL DEF Spec, KeepsIdentityPromise, Promise!Spec
=============================================================================
