--------------------------- MODULE WalletSession ---------------------------
(***************************************************************************)
(* Who the user is: the instances of useSoroban (the header has one and    *)
(* every page another) in the tabs of one browser, the address they share  *)
(* in localStorage, the session cookie the proxy issues, and the backend's *)
(* challenges.  A step takes a connectWallet from one await to the next,   *)
(* or the backend's verify_challenge from one statement to the next.       *)
(* Requests get lost or are delivered again, answers get lost or are late, *)
(* and one hook may have several connectWallets and logouts under way.     *)
(* Freighter is installed.  Time is what lifetimes have left, so no clock  *)
(* grows, and nothing bounds how often a user connects.                    *)
(***************************************************************************)
EXTENDS Integers, FiniteSets, Functions

CONSTANTS
    Wallets,        \* the accounts of the user's Freighter
    Hooks,          \* mounted instances of useSoroban
    TabOf,          \* hook -> the browser tab it lives in
    Attempts,       \* numbers for calls of connectWallet, one for each that is in flight
    CallersOf,      \* bound: attempt -> the hooks that connect under this number
    NonceTTL,       \* lifetime of a challenge (5 minutes)
    SessionTTL,     \* SESSION_MAX_AGE_SECONDS (24 hours)
    MaxInFlight,    \* bound on what is under way at once
    None

ASSUME SessionAssumption ==
    /\ NonceTTL \in Nat \ {0} /\ SessionTTL \in Nat \ {0}
    /\ Attempts \subseteq Nat /\ MaxInFlight \in Nat
    /\ \A a \in Attempts : CallersOf[a] \subseteq Hooks
    /\ None \notin Wallets

VARIABLES
    hook,           \* hook -> address, sessionVerified and sessionChecked
    connect,        \* attempt -> the connectWallet in flight
    nonce,          \* attempt -> the row of challenge_nonces that was made for it
    past,           \* attempt -> verifications of that row between its check and its update
    me,             \* hook -> the answer of /api/auth/me on its way to it
    logout,         \* hook -> how many of its /api/auth/logout are in flight
    persisted,      \* localStorage: maintchain:freighter:address
    notified,       \* the hooks a storage event is on its way to
    cookie,         \* maintchain-session, as the browser keeps it
    proved          \* history: whether a wallet ever signed a challenge naming it

attempts == <<connect, nonce, past>>
sessionVars == <<hook, attempts, me, logout, persisted, notified, cookie, proved>>

Hook == [address: Wallets \union {None}, verified: BOOLEAN, checked: BOOLEAN]

\* Whose connectWallet it is, the await it is at, the address the wallet gave, and
\* whether that wallet has signed the challenge.
Connecting ==
    [hook: Hooks, stage: {"challenge", "sign", "verify", "issue"}, address: Wallets,
     own: BOOLEAN]

\* What is left until expires_at, and whether the challenge has been used.
Nonce == [ttl: 0..NonceTTL, used: BOOLEAN]

\* maintchain-session: whose it is, what is left of it, and (history) whether this wallet
\* had signed the challenge the session was issued for.
Cookie == [address: Wallets, ttl: 0..SessionTTL, own: BOOLEAN]

\* null is neither a request nor a row nor a session nor an answer.
ASSUME NoneAssumption ==
    /\ None \notin Connecting \union Nonce \union Cookie
    /\ None \notin {"session", "expired", "nobody"}

At(a, stage) == connect[a] # None /\ connect[a].stage = stage

\* A challenge whose connectWallet has got its session: the row stays, with its signature.
Honoured(a) == connect[a] = None /\ nonce[a] # None

\* validateSessionCookie: whom the proxy takes the user for, None without a session.
SessionUser == IF cookie # None /\ cookie.ttl > 0 THEN cookie.address ELSE None

\* handleAuthMe: always 200, and a cookie that has expired is cleared; checkSession does
\* not look at whose session it is.
MeAnswer == IF SessionUser # None THEN "session"
            ELSE IF cookie # None THEN "expired" ELSE "nobody"

\* A bound of the model: what is under way, and room for something more.
InFlight ==
    SumFunction([a \in Attempts |-> IF connect[a] # None /\ past[a] = 0 THEN 1 ELSE past[a]])
        + Cardinality({g \in Hooks : me[g] # None}) + SumFunction(logout) + Cardinality(notified)

Room == InFlight < MaxInFlight

\* Rows nobody will see anything more of.
Forget(gone) ==
    /\ nonce' = [a \in Attempts |-> IF a \in gone THEN None ELSE nonce[a]]
    /\ past' = [a \in Attempts |-> IF a \in gone THEN 0 ELSE past[a]]

\* A new connectWallet gets the first number that is free; the rows of those that have
\* ended are followed until then.
Begin(a, h, w) ==
    /\ connect[a] = None /\ Room
    /\ \A b \in Attempts : b < a => connect[b] # None
    /\ connect' = [connect EXCEPT ![a] =
                      [hook |-> h, stage |-> "challenge", address |-> w, own |-> FALSE]]
    /\ Forget({b \in Attempts : connect[b] = None})

\* Connects come to nothing.
GiveUp(gone) ==
    /\ connect' = [a \in Attempts |-> IF a \in gone THEN None ELSE connect[a]]
    /\ Forget(gone)

\* Mutant of Access: the other tabs are not told.
AccessSilent(a, h, w) ==
    /\ Begin(a, h, w)
    /\ hook' = [hook EXCEPT ![h].address = w]
    /\ persisted' = w
    /\ UNCHANGED <<me, logout, notified, cookie, proved>>

\* Mutant of Access: accessResult.error is not looked at, there is no address.
AccessUnchecked(a, h, w) ==
    /\ Begin(a, h, None)
    /\ hook' = [hook EXCEPT ![h].address = None]
    /\ persisted' = None
    /\ UNCHANGED <<me, logout, notified, cookie, proved>>

\* connectWallet: requestAccess names the account; persistAddress stores it, the hooks of
\* this tab read it at once, those of other tabs when the storage event reaches them.
\* Nothing keeps the user from connecting while an earlier connectWallet is under way.
Access(a, h, w) ==
    /\ Begin(a, h, w)
    /\ hook' = [g \in Hooks |-> IF TabOf[g] = TabOf[h] THEN [hook[g] EXCEPT !.address = w]
                                                       ELSE hook[g]]
    /\ persisted' = w
    /\ notified' = IF persisted = w THEN notified
                   ELSE notified \union {g \in Hooks : TabOf[g] # TabOf[h]}
    /\ UNCHANGED <<me, logout, cookie, proved>>

\* requestAccess is declined: the wallet is forgotten, the session is not.
Decline(h) ==
    /\ hook' = [hook EXCEPT ![h].address = None]
    /\ persisted' = None
    /\ UNCHANGED <<attempts, me, logout, notified, cookie, proved>>

\* readPersistedAddress, on the storage event: it takes an address, never drops one.
StorageEvent(h) ==
    /\ h \in notified
    /\ notified' = notified \ {h}
    /\ hook' = IF persisted = None THEN hook ELSE [hook EXCEPT ![h].address = persisted]
    /\ UNCHANGED <<attempts, me, logout, persisted, cookie, proved>>

\* create_challenge, after validateNetwork and refreshBalance, whose outcome is ignored.
Challenge(a) ==
    /\ At(a, "challenge")
    /\ connect' = [connect EXCEPT ![a].stage = "sign"]
    /\ nonce' = [nonce EXCEPT ![a] = [ttl |-> NonceTTL, used |-> FALSE]]
    /\ UNCHANGED <<hook, past, me, logout, persisted, notified, cookie, proved>>

\* signMessage names no address: Freighter signs with the account selected by now.
Sign(a, w) ==
    /\ At(a, "sign")
    /\ proved' = (proved \/ w = connect[a].address)
    /\ connect' = [connect EXCEPT ![a].stage = "verify",
                                 ![a].own = w = connect[a].address]
    /\ UNCHANGED <<hook, nonce, past, me, logout, persisted, notified, cookie>>

\* /api/auth/verify with a signature of the wallet was sent, and may be delivered again,
\* by then or later.
Sent(a) ==
    \/ (At(a, "verify") \/ At(a, "issue")) /\ connect[a].own
    \/ Honoured(a)

\* Mutant of ReadNonce: the signature is not looked at.
ReadNonceTrusting(a) ==
    /\ Sent(a) \/ At(a, "verify")
    /\ ~nonce[a].used /\ nonce[a].ttl > 0
    /\ (At(a, "verify") /\ past[a] = 0) \/ Room
    /\ past' = [past EXCEPT ![a] = @ + 1]
    /\ UNCHANGED <<hook, connect, nonce, me, logout, persisted, notified, cookie, proved>>

\* verify_challenge, 1 and 2: the row is unused and alive, the signature its wallet's.
ReadNonce(a) ==
    /\ Sent(a)
    /\ ~nonce[a].used /\ nonce[a].ttl > 0
    /\ (At(a, "verify") /\ past[a] = 0) \/ Room
    /\ past' = [past EXCEPT ![a] = @ + 1]
    /\ UNCHANGED <<hook, connect, nonce, me, logout, persisted, notified, cookie, proved>>

\* The answer of verify_challenge, which the hook waits for, reaches the proxy.
Answered(a) ==
    connect' = IF At(a, "verify") THEN [connect EXCEPT ![a].stage = "issue"] ELSE connect

\* Mutant of MarkNonce: an UPDATE that fails is logged, and the answer is still "verified".
MarkNonceLogged(a) ==
    /\ past[a] > 0
    /\ past' = [past EXCEPT ![a] = @ - 1]
    /\ nonce' \in {nonce, [nonce EXCEPT ![a] = [ttl |-> 0, used |-> TRUE]]}
    /\ Answered(a)
    /\ UNCHANGED <<hook, me, logout, persisted, notified, cookie, proved>>

\* verify_challenge, 3: the row is used, whether or not another verification has marked
\* it since it was read.  What it had left does not matter any more.
MarkNonce(a) ==
    /\ past[a] > 0
    /\ past' = [past EXCEPT ![a] = @ - 1]
    /\ nonce' = [nonce EXCEPT ![a] = [ttl |-> 0, used |-> TRUE]]
    /\ Answered(a)
    /\ UNCHANGED <<hook, me, logout, persisted, notified, cookie, proved>>

Session(a) == [address |-> connect[a].address, ttl |-> SessionTTL, own |-> connect[a].own]

\* Mutant of Issue: the session is for the wallet the browser shows by now.
IssueLive(a) ==
    /\ At(a, "issue") /\ persisted # None
    /\ cookie' = [Session(a) EXCEPT !.address = persisted]
    /\ hook' = [hook EXCEPT ![connect[a].hook].verified = TRUE]
    /\ connect' = [connect EXCEPT ![a] = None]
    /\ UNCHANGED <<nonce, past, me, logout, persisted, notified, proved>>

\* Mutant of Issue: the hook does not end its connectWallet.
IssueForgotten(a) ==
    /\ At(a, "issue")
    /\ cookie' = Session(a)
    /\ hook' = [hook EXCEPT ![connect[a].hook].verified = TRUE]
    /\ UNCHANGED <<attempts, me, logout, persisted, notified, proved>>

\* handleAuthVerify attaches the cookie; verifyWallet and connectWallet return true.
Issue(a) ==
    /\ At(a, "issue")
    /\ cookie' = Session(a)
    /\ hook' = [hook EXCEPT ![connect[a].hook].verified = TRUE]
    /\ connect' = [connect EXCEPT ![a] = None]
    /\ UNCHANGED <<nonce, past, me, logout, persisted, notified, proved>>

\* A later await throws: the user declines, the backend refuses, a request or its answer
\* is lost (with or without effect).  The catch blocks forget the wallet.
Fail(a) ==
    /\ connect[a] # None
    /\ hook' = [hook EXCEPT ![connect[a].hook].address = None,
                            ![connect[a].hook].verified = FALSE]
    /\ persisted' = None
    /\ GiveUp({a})
    /\ UNCHANGED <<me, logout, notified, cookie, proved>>

\* disconnectWallet; clearSession is not awaited, and no connectWallet is called off.
Disconnect(h) ==
    /\ hook[h].address # None /\ Room
    /\ hook' = [hook EXCEPT ![h].address = None]
    /\ persisted' = None
    /\ logout' = [logout EXCEPT ![h] = @ + 1]
    /\ UNCHANGED <<attempts, me, notified, cookie, proved>>

\* handleAuthLogout's answer, or none: "best-effort".
LogoutEnds(h) ==
    /\ logout[h] > 0
    /\ logout' = [logout EXCEPT ![h] = @ - 1]
    /\ cookie' \in {None, cookie}
    /\ hook' = [hook EXCEPT ![h].verified = FALSE]
    /\ UNCHANGED <<attempts, me, persisted, notified, proved>>

\* Mutant of MeArrives: every answer that is ok counts as a session.
MeArrivesOk(h) ==
    /\ me[h] # None
    /\ hook' = [hook EXCEPT ![h].verified = TRUE, ![h].checked = TRUE]
    /\ cookie' = IF me[h] = "expired" THEN None ELSE cookie
    /\ me' = [me EXCEPT ![h] = None]
    /\ UNCHANGED <<attempts, logout, persisted, notified, proved>>

\* checkSession.
MeArrives(h) ==
    /\ me[h] # None
    /\ hook' = [hook EXCEPT ![h].verified = me[h] = "session", ![h].checked = TRUE]
    /\ cookie' = IF me[h] = "expired" THEN None ELSE cookie
    /\ me' = [me EXCEPT ![h] = None]
    /\ UNCHANGED <<attempts, logout, persisted, notified, proved>>

\* Mutant of MeLost: "finally" is missing.
MeLostSilently(h) ==
    /\ me[h] # None
    /\ hook' = [hook EXCEPT ![h].verified = FALSE]
    /\ me' = [me EXCEPT ![h] = None]
    /\ UNCHANGED <<attempts, logout, persisted, notified, cookie, proved>>

MeLost(h) ==
    /\ me[h] # None
    /\ hook' = [hook EXCEPT ![h].verified = FALSE, ![h].checked = TRUE]
    /\ me' = [me EXCEPT ![h] = None]
    /\ UNCHANGED <<attempts, logout, persisted, notified, cookie, proved>>

\* A tab is loaded again: its hooks read the persisted address and ask for the session.
Reload(h) ==
    LET inTab == {g \in Hooks : TabOf[g] = TabOf[h]}
    IN  /\ hook' = [g \in Hooks |->
              IF g \in inTab THEN [address |-> persisted, verified |-> FALSE, checked |-> FALSE]
                             ELSE hook[g]]
        /\ GiveUp({a \in Attempts : connect[a] # None /\ connect[a].hook \in inTab})
        /\ me' = [g \in Hooks |-> IF g \in inTab THEN MeAnswer ELSE me[g]]
        /\ logout' = [g \in Hooks |-> IF g \in inTab THEN 0 ELSE logout[g]]
        /\ notified' = notified \ inTab
        /\ InFlight' <= MaxInFlight
        /\ UNCHANGED <<persisted, cookie, proved>>

Less(ttl) == IF ttl = 0 THEN 0 ELSE ttl - 1

Aging ==
    /\ \/ SessionUser # None
       \/ \E a \in Attempts : nonce[a] # None /\ nonce[a].ttl > 0
    /\ nonce' = [a \in Attempts |-> IF nonce[a] = None THEN None
                                   ELSE [nonce[a] EXCEPT !.ttl = Less(@)]]

\* Mutant of Tick: the session slides, it is renewed while it is alive.
TickSliding ==
    /\ Aging
    /\ UNCHANGED <<hook, connect, past, me, logout, persisted, notified, cookie, proved>>

\* Time passes.
Tick ==
    /\ Aging
    /\ cookie' = IF cookie = None THEN None ELSE [cookie EXCEPT !.ttl = Less(@)]
    /\ UNCHANGED <<hook, connect, past, me, logout, persisted, notified, proved>>

\* Max-Age, which the browser counts from the arrival, a little after expires_at.
CookieExpires ==
    /\ cookie # None /\ SessionUser = None
    /\ cookie' = None
    /\ UNCHANGED <<hook, attempts, me, logout, persisted, notified, proved>>

-----------------------------------------------------------------------------
Init ==
    /\ persisted = None /\ cookie = None
    /\ hook = [h \in Hooks |-> [address |-> None, verified |-> FALSE, checked |-> FALSE]]
    /\ connect = [a \in Attempts |-> None]
    /\ nonce = [a \in Attempts |-> None]
    /\ past = [a \in Attempts |-> 0]
    /\ me = [h \in Hooks |-> MeAnswer]
    /\ logout = [h \in Hooks |-> 0] /\ notified = {}
    /\ proved = FALSE

\* What happens to a request without the user: an answer, or an error.
Served(a) ==
    \/ Challenge(a) \/ ReadNonce(a) \/ MarkNonce(a) \/ Issue(a)
    \/ ~At(a, "sign") /\ Fail(a)

Checked(h) == MeArrives(h) \/ MeLost(h)

TimePasses == Tick \/ CookieExpires

Next ==
    \/ \E a \in Attempts :
          \/ (\E h \in CallersOf[a] : Decline(h) \/ \E w \in Wallets : Access(a, h, w))
          \/ (\E w \in Wallets : Sign(a, w))
          \/ Served(a) \/ (At(a, "sign") /\ Fail(a))
    \/ \E h \in Hooks :
          \/ StorageEvent(h) \/ Disconnect(h) \/ LogoutEnds(h) \/ Checked(h)
          \/ Reload(h)
    \/ TimePasses

\* Requests of a connectWallet are answered or fail, time passes and the browser drops old
\* cookies.  Nothing is assumed of the user, who may leave Freighter's prompt open, or of
\* the answers of /api/auth/me and /api/auth/logout.
Spec ==
    /\ Init /\ [][Next]_sessionVars
    /\ \A a \in Attempts : WF_sessionVars(Served(a))
    /\ WF_sessionVars(TimePasses)

-----------------------------------------------------------------------------
TypeOK ==
    /\ hook \in [Hooks -> Hook]
    /\ connect \in [Attempts -> Connecting \union {None}]
    /\ nonce \in [Attempts -> Nonce \union {None}]
    /\ past \in [Attempts -> Nat]
    /\ me \in [Hooks -> {"session", "expired", "nobody", None}]
    /\ logout \in [Hooks -> Nat] /\ notified \subseteq Hooks
    /\ persisted \in Wallets \union {None}
    /\ cookie \in Cookie \union {None}
    /\ proved \in BOOLEAN

\* README.md:92, the session "Proves the browser user owns their wallet": whatever is
\* lost, repeated, late or reloaded, and however many connectWallets run, the browser holds
\* a session of a wallet only if that wallet signed the challenge it was issued for.
SessionIsProven == cookie # None => cookie.own

\* "Mark nonce as used (prevents replay)" (auth.rs:236): once a connectWallet has got its
\* session, a verification of its challenge that is delivered again never passes the
\* check.  (Two that are both past it before either has marked the row do pass.)
ReplayIsRefused == [][\A a \in Attempts : Honoured(a) => past'[a] <= past[a]]_sessionVars

\* No hook shows "Verified" in a browser in which no wallet ever proved itself
\* (checkSession reads a body, the status of /api/auth/me is always 200).
BadgeIsProven == (\E h \in Hooks : hook[h].verified) => proved

\* Every instance of the hook shows the persisted wallet, or is about to hear of it
\* (WALLET_CHANGED_EVENT and the storage event).
HooksAgree ==
    persisted # None => \A h \in Hooks : hook[h].address = persisted \/ h \in notified

\* Pages wait for sessionChecked before they do anything (get-verified/page.tsx:457): no
\* hook is left without it once its request has ended, whatever became of the request and
\* however often the tab was loaded.
NobodyWaitsInVain == \A h \in Hooks : hook[h].checked \/ me[h] # None

\* "Verifying..." (WalletConnectPanel.tsx:77) does not stay: a connectWallet waits for
\* the user at Freighter's prompt, but never for ever for the backend.
ConnectEnds ==
    \A a \in Attempts :
        connect[a] # None /\ ~At(a, "sign") ~> connect[a] = None \/ At(a, "sign")

\* useSoroban.ts:310, a logout that fails is made good, "the cookie will expire
\* eventually", unless someone is connecting again.
SessionEnds == cookie # None ~> cookie = None \/ \E a \in Attempts : connect[a] # None

\* The wallet that has been proved to a connectWallet, which verify may still refuse.
Proof(a) == IF connect[a] # None /\ connect[a].own THEN connect[a].address ELSE None

Promise == INSTANCE SessionPromise WITH
    Parties <- Attempts, Lifetime <- SessionTTL,
    proof <- [a \in Attempts |-> Proof(a)], holder <- SessionUser,
    left <- IF cookie = None THEN 0 ELSE cookie.ttl

\* The hooks of all tabs, the proxy and the backend together sign a wallet in only with a
\* signature made for this very connectWallet, which takes one session and ends, and no
\* late answer, reload or other request renews a session or hands it to another wallet.
KeepsSessionPromise == Promise!Spec

=============================================================================
