-------------------------- MODULE WalletSessionProofs --------------------------
(***************************************************************************)
(* Theorems about WalletSession for any number of hooks, tabs, wallets and *)
(* connects in flight, any lifetimes and any number of copies of a request. *)
(***************************************************************************)
EXTENDS WalletSession, TLAPS

\* A connectWallet has a challenge from its second await on, and nothing is proved to it
\* before its wallet signed that challenge; what it is issued rests on the challenge it
\* has used up.
ConnectIsProven(a) ==
    connect[a] # None =>
        /\ connect[a].own => proved
        /\ connect[a].stage \in {"challenge", "sign"} => ~connect[a].own
        /\ connect[a].stage # "challenge" => nonce[a] # None
        /\ connect[a].stage = "issue" => connect[a].own /\ nonce[a].used

\* What is past the check of verify_challenge came with a signature of the wallet, and the
\* challenge of a connectWallet that has ended is marked.
RowIsProven(a) ==
    /\ past[a] > 0 => \/ (At(a, "verify") \/ At(a, "issue")) /\ connect[a].own
                      \/ Honoured(a)
    /\ Honoured(a) => nonce[a].used

AttemptsAreProven == \A a \in Attempts : ConnectIsProven(a) /\ RowIsProven(a)

\* Whoever holds a session, shows one or is told of one does so after a proof.
SessionsAreProven ==
    /\ cookie # None => cookie.own /\ proved
    /\ \A h \in Hooks : me[h] = "session" \/ hook[h].verified => proved

SessionInv ==
    /\ TypeOK
    /\ AttemptsAreProven
    /\ SessionsAreProven
    /\ HooksAgree
    /\ NobodyWaitsInVain

-----------------------------------------------------------------------------
(* How one connectWallet and its challenge move *)

Kept(a) == connect'[a] = connect[a] /\ nonce'[a] = nonce[a] /\ past'[a] = past[a]

Gone(a) == connect'[a] = None /\ nonce'[a] = None /\ past'[a] = 0

Begun(a) ==
    /\ connect[a] = None
    /\ \E h \in Hooks, w \in Wallets :
          connect'[a] = [hook |-> h, stage |-> "challenge", address |-> w, own |-> FALSE]
    /\ nonce'[a] = None /\ past'[a] = 0

Aged(a) ==
    /\ connect'[a] = connect[a] /\ past'[a] = past[a]
    /\ nonce[a] = None => nonce'[a] = None
    /\ nonce[a] # None => nonce'[a] = [nonce[a] EXCEPT !.ttl = Less(@)]

Moves(a) ==
    \/ Kept(a) \/ Gone(a) \/ Begun(a) \/ Aged(a)
    \/ Challenge(a) \/ (\E w \in Wallets : Sign(a, w))
    \/ ReadNonce(a) \/ MarkNonce(a) \/ Issue(a)

\* The three variables stay functions on Attempts.
AttemptMaps ==
    /\ connect' = [a \in Attempts |-> connect'[a]]
    /\ nonce' = [a \in Attempts |-> nonce'[a]]
    /\ past' = [a \in Attempts |-> past'[a]]

LEMMA AccessMoves ==
    ASSUME TypeOK, NEW b \in Attempts, NEW h \in Hooks, NEW w \in Wallets, Begin(b, h, w)
    PROVE  AttemptMaps /\ \A a \in Attempts : Moves(a)
<1>1. AttemptMaps
  BY DEF AttemptMaps, Begin, Forget, TypeOK
<1>2. ASSUME NEW a \in Attempts PROVE Begun(a) \/ Gone(a) \/ Kept(a)
  <2>1. CASE a = b
    BY <2>1 DEF Begin, Forget, Begun, TypeOK
  <2>2. CASE a # b /\ connect[a] = None
    BY <2>2 DEF Begin, Forget, Gone, TypeOK
  <2>3. CASE a # b /\ connect[a] # None
    BY <2>3 DEF Begin, Forget, Kept, TypeOK
  <2>. QED
    BY <2>1, <2>2, <2>3
<1>. QED
  BY <1>1, <1>2 DEF Moves

LEMMA GiveUpMoves ==
    ASSUME TypeOK, NEW gone \in SUBSET Attempts, GiveUp(gone)
    PROVE  AttemptMaps /\ \A a \in Attempts : Moves(a)
<1>1. AttemptMaps
  BY DEF AttemptMaps, GiveUp, Forget, TypeOK
<1>2. \A a \in Attempts : Gone(a) \/ Kept(a)
  BY DEF GiveUp, Forget, Gone, Kept
<1>. QED
  BY <1>1, <1>2 DEF Moves

LEMMA OneMoves ==
    ASSUME TypeOK, NEW b \in Attempts,
           \/ Challenge(b) \/ (\E w \in Wallets : Sign(b, w))
           \/ ReadNonce(b) \/ MarkNonce(b) \/ Issue(b)
    PROVE  AttemptMaps /\ \A a \in Attempts : Moves(a)
<1>1. AttemptMaps
  <2>1. CASE Challenge(b)
    BY <2>1 DEF AttemptMaps, Challenge, TypeOK
  <2>2. ASSUME NEW w \in Wallets, Sign(b, w) PROVE AttemptMaps
    BY <2>2 DEF AttemptMaps, Sign, TypeOK
  <2>3. CASE ReadNonce(b)
    BY <2>3 DEF AttemptMaps, ReadNonce, TypeOK
  <2>4. CASE MarkNonce(b)
    BY <2>4 DEF AttemptMaps, MarkNonce, Answered, TypeOK
  <2>5. CASE Issue(b)
    BY <2>5 DEF AttemptMaps, Issue, TypeOK
  <2>. QED
    BY <2>1, <2>2, <2>3, <2>4, <2>5
<1>2. ASSUME NEW a \in Attempts, a # b PROVE Kept(a)
  BY <1>2 DEF Kept, Challenge, Sign, ReadNonce, MarkNonce, Answered, Issue, TypeOK
<1>. QED
  BY <1>1, <1>2 DEF Moves

LEMMA TickMoves ==
    ASSUME TypeOK, Tick
    PROVE  AttemptMaps /\ \A a \in Attempts : Moves(a)
<1>1. AttemptMaps
  BY DEF AttemptMaps, Tick, Aging, TypeOK
<1>2. \A a \in Attempts : Aged(a)
  BY DEF Tick, Aging, Aged
<1>. QED
  BY <1>1, <1>2 DEF Moves

LEMMA OtherMoves ==
    ASSUME TypeOK, UNCHANGED attempts
    PROVE  AttemptMaps /\ \A a \in Attempts : Moves(a)
<1>1. AttemptMaps
  BY DEF AttemptMaps, attempts, TypeOK
<1>2. \A a \in Attempts : Kept(a)
  BY DEF attempts, Kept
<1>. QED
  BY <1>1, <1>2 DEF Moves

LEMMA CallersAreHooks ==
    ASSUME NEW a \in Attempts, NEW h \in CallersOf[a]
    PROVE  h \in Hooks
  BY SessionAssumption

LEMMA AttemptsMove ==
    ASSUME TypeOK, [Next]_sessionVars
    PROVE  AttemptMaps /\ \A a \in Attempts : Moves(a)
<1>1. ASSUME NEW a \in Attempts, NEW h \in CallersOf[a], NEW w \in Wallets, Access(a, h, w)
      PROVE  AttemptMaps /\ \A b \in Attempts : Moves(b)
  BY <1>1, CallersAreHooks, AccessMoves DEF Access
<1>2. ASSUME NEW a \in Attempts, Fail(a)
      PROVE  AttemptMaps /\ \A b \in Attempts : Moves(b)
  BY <1>2, GiveUpMoves DEF Fail
<1>3. ASSUME NEW h \in Hooks, Reload(h)
      PROVE  AttemptMaps /\ \A b \in Attempts : Moves(b)
  <2>1. PICK gone \in SUBSET Attempts : GiveUp(gone)
    BY <1>3 DEF Reload
  <2>. QED
    BY <2>1, GiveUpMoves
<1>4. ASSUME NEW a \in Attempts,
             \/ Challenge(a) \/ (\E w \in Wallets : Sign(a, w))
             \/ ReadNonce(a) \/ MarkNonce(a) \/ Issue(a)
      PROVE  AttemptMaps /\ \A b \in Attempts : Moves(b)
  BY <1>4, OneMoves
<1>5. ASSUME Tick
      PROVE  AttemptMaps /\ \A b \in Attempts : Moves(b)
  BY <1>5, TickMoves
<1>6. ASSUME NEW h,
             \/ Decline(h) \/ StorageEvent(h) \/ Disconnect(h) \/ LogoutEnds(h)
             \/ Checked(h) \/ CookieExpires \/ UNCHANGED sessionVars
      PROVE  AttemptMaps /\ \A b \in Attempts : Moves(b)
  <2>1. UNCHANGED attempts
    BY <1>6 DEF Decline, StorageEvent, Disconnect, LogoutEnds, Checked, MeArrives, MeLost,
                CookieExpires, sessionVars
  <2>. QED
    BY <2>1, OtherMoves
<1>. QED
  BY <1>1, <1>2, <1>3, <1>4, <1>5, <1>6 DEF Next, Served, TimePasses

-----------------------------------------------------------------------------
(* Types *)

LEMMA AnswerType == MeAnswer \in {"session", "expired", "nobody"} /\ MeAnswer # None
  BY NoneAssumption DEF MeAnswer

LEMMA InitType == Init => TypeOK
<1>. SUFFICES ASSUME Init PROVE TypeOK
  OBVIOUS
<1>. QED
  BY AnswerType DEF Init, TypeOK, Hook

\* A connectWallet in flight and its challenge are records of their types.
LEMMA ConnectingType ==
    ASSUME TypeOK, NEW a \in Attempts, connect[a] # None
    PROVE  connect[a] \in Connecting
  BY DEF TypeOK

LEMMA NonceType ==
    ASSUME TypeOK, NEW a \in Attempts, nonce[a] # None
    PROVE  nonce[a] \in Nonce
  BY DEF TypeOK

\* One attempt keeps its types, however it moves.
LEMMA AttemptTypes ==
    ASSUME TypeOK, NEW a \in Attempts, Moves(a)
    PROVE  /\ connect'[a] \in Connecting \union {None}
           /\ nonce'[a] \in Nonce \union {None}
           /\ past'[a] \in Nat
<1>. DEFINE Goal == /\ connect'[a] \in Connecting \union {None}
                    /\ nonce'[a] \in Nonce \union {None}
                    /\ past'[a] \in Nat
<1>0. /\ connect[a] \in Connecting \union {None} /\ nonce[a] \in Nonce \union {None}
      /\ past[a] \in Nat
      /\ DOMAIN connect = Attempts /\ DOMAIN nonce = Attempts /\ DOMAIN past = Attempts
  BY DEF TypeOK
<1>1. CASE Kept(a) \/ Gone(a)
  BY <1>0, <1>1 DEF Kept, Gone
<1>2. CASE Begun(a)
  BY <1>2 DEF Begun, Connecting
<1>3. CASE Aged(a)
  <2>1. CASE nonce[a] = None
    BY <1>0, <1>3, <2>1 DEF Aged
  <2>2. CASE nonce[a] # None
    <3>1. PICK n \in Nonce : n = nonce[a]
      BY <2>2, NonceType
    <3>2. Less(n.ttl) \in 0..NonceTTL
      BY SessionAssumption DEF Nonce, Less
    <3>3. nonce'[a] = [n EXCEPT !.ttl = Less(n.ttl)]
      BY <1>3, <2>2, <3>1 DEF Aged
    <3>4. nonce'[a] \in Nonce
      BY <3>2, <3>3 DEF Nonce
    <3>. QED
      BY <1>0, <1>3, <3>4 DEF Aged
  <2>. QED
    BY <2>1, <2>2
<1>4. CASE Challenge(a)
  <2>1. PICK c \in Connecting : c = connect[a]
    BY <1>4, ConnectingType DEF Challenge, At
  <2>2. connect'[a] = [c EXCEPT !.stage = "sign"]
    BY <1>0, <1>4, <2>1 DEF Challenge
  <2>3. connect'[a] \in Connecting
    BY <2>2 DEF Connecting
  <2>4. nonce'[a] \in Nonce
    BY <1>0, <1>4, SessionAssumption DEF Challenge, Nonce
  <2>. QED
    BY <1>0, <1>4, <2>3, <2>4 DEF Challenge
<1>5. ASSUME NEW w \in Wallets, Sign(a, w) PROVE Goal
  <2>1. PICK c \in Connecting : c = connect[a]
    BY <1>5, ConnectingType DEF Sign, At
  <2>2. connect'[a] = [c EXCEPT !.stage = "verify", !.own = (w = c.address)]
    BY <1>0, <1>5, <2>1 DEF Sign
  <2>3. connect'[a] \in Connecting
    BY <2>2 DEF Connecting
  <2>. QED
    BY <1>0, <1>5, <2>3 DEF Sign
<1>6. CASE ReadNonce(a)
  BY <1>0, <1>6 DEF ReadNonce
<1>7. CASE MarkNonce(a)
  <2>1. connect'[a] \in Connecting \union {None}
    <3>1. CASE ~At(a, "verify")
      BY <1>0, <1>7, <3>1 DEF MarkNonce, Answered
    <3>2. CASE At(a, "verify")
      <4>1. PICK c \in Connecting : c = connect[a]
        BY <3>2, ConnectingType DEF At
      <4>2. connect'[a] = [c EXCEPT !.stage = "issue"]
        BY <1>0, <1>7, <3>2, <4>1 DEF MarkNonce, Answered
      <4>. QED
        BY <4>2 DEF Connecting
    <3>. QED
      BY <3>1, <3>2
  <2>2. nonce'[a] \in Nonce
    BY <1>0, <1>7, SessionAssumption DEF MarkNonce, Nonce
  <2>3. past'[a] \in Nat
    BY <1>0, <1>7 DEF MarkNonce
  <2>. QED
    BY <2>1, <2>2, <2>3
<1>8. CASE Issue(a)
  BY <1>0, <1>8 DEF Issue
<1>. QED
  BY <1>1, <1>2, <1>3, <1>4, <1>5, <1>6, <1>7, <1>8 DEF Moves

LEMMA AttemptsType ==
    ASSUME TypeOK, [Next]_sessionVars
    PROVE  /\ connect' \in [Attempts -> Connecting \union {None}]
           /\ nonce' \in [Attempts -> Nonce \union {None}]
           /\ past' \in [Attempts -> Nat]
<1>1. \A a \in Attempts : /\ connect'[a] \in Connecting \union {None}
                          /\ nonce'[a] \in Nonce \union {None}
                          /\ past'[a] \in Nat
  BY AttemptsMove, AttemptTypes
<1>2. AttemptMaps
  BY AttemptsMove
<1>. HIDE DEF Connecting, Nonce
<1>3. connect' \in [Attempts -> Connecting \union {None}]
  BY <1>1, <1>2 DEF AttemptMaps
<1>4. nonce' \in [Attempts -> Nonce \union {None}]
  BY <1>1, <1>2 DEF AttemptMaps
<1>5. past' \in [Attempts -> Nat]
  BY <1>1, <1>2 DEF AttemptMaps
<1>. QED
  BY <1>3, <1>4, <1>5

\* The rest of the state.
BrowserType ==
    /\ hook \in [Hooks -> Hook]
    /\ me \in [Hooks -> {"session", "expired", "nobody", None}]
    /\ logout \in [Hooks -> Nat] /\ notified \subseteq Hooks
    /\ persisted \in Wallets \union {None}
    /\ cookie \in Cookie \union {None}
    /\ proved \in BOOLEAN

LEMMA BrowserTypeStep ==
    ASSUME TypeOK, [Next]_sessionVars
    PROVE  BrowserType'
<1>1. ASSUME NEW a \in Attempts, NEW h \in CallersOf[a], NEW w \in Wallets, Access(a, h, w)
      PROVE  BrowserType'
  BY <1>1 DEF TypeOK, BrowserType, Access, Hook
<1>2. ASSUME NEW a \in Attempts, NEW h \in CallersOf[a], Decline(h) PROVE BrowserType'
  BY <1>2, CallersAreHooks DEF TypeOK, BrowserType, Decline, Hook
<1>3. ASSUME NEW h \in Hooks, StorageEvent(h) PROVE BrowserType'
  BY <1>3 DEF TypeOK, BrowserType, StorageEvent, Hook
<1>4. ASSUME NEW a \in Attempts, Challenge(a) \/ ReadNonce(a) \/ MarkNonce(a)
      PROVE  BrowserType'
  BY <1>4 DEF TypeOK, BrowserType, Challenge, ReadNonce, MarkNonce
<1>5. ASSUME NEW a \in Attempts, NEW w \in Wallets, Sign(a, w) PROVE BrowserType'
  <2>1. proved' \in BOOLEAN
    BY <1>5 DEF TypeOK, Sign
  <2>. QED
    BY <1>5, <2>1 DEF TypeOK, BrowserType, Sign
<1>6. ASSUME NEW a \in Attempts, Issue(a) PROVE BrowserType'
  <2>1. PICK c \in Connecting : c = connect[a]
    BY <1>6, ConnectingType DEF Issue, At
  <2>2. cookie' = [address |-> c.address, ttl |-> SessionTTL, own |-> c.own]
    BY <1>6, <2>1 DEF Issue, Session
  <2>3. cookie' \in Cookie
    BY <2>2, SessionAssumption DEF Connecting, Cookie
  <2>4. hook' \in [Hooks -> Hook]
    BY <1>6, <2>1 DEF TypeOK, Issue, Connecting, Hook
  <2>. QED
    BY <1>6, <2>3, <2>4 DEF TypeOK, BrowserType, Issue
<1>7. ASSUME NEW a \in Attempts, Fail(a) PROVE BrowserType'
  <2>1. PICK c \in Connecting : c = connect[a]
    BY <1>7, ConnectingType DEF Fail
  <2>2. hook' \in [Hooks -> Hook]
    BY <1>7, <2>1 DEF TypeOK, Fail, Connecting, Hook
  <2>. QED
    BY <1>7, <2>2 DEF TypeOK, BrowserType, Fail
<1>8. ASSUME NEW h \in Hooks, Disconnect(h) PROVE BrowserType'
  BY <1>8 DEF TypeOK, BrowserType, Disconnect, Hook
<1>9. ASSUME NEW h \in Hooks, LogoutEnds(h) PROVE BrowserType'
  <2>1. logout' \in [Hooks -> Nat]
    <3>1. logout[h] - 1 \in Nat
      BY <1>9 DEF TypeOK, LogoutEnds
    <3>. QED
      BY <1>9, <3>1 DEF TypeOK, LogoutEnds
  <2>2. hook' \in [Hooks -> Hook]
    BY <1>9 DEF TypeOK, LogoutEnds, Hook
  <2>3. cookie' \in Cookie \union {None}
    BY <1>9 DEF TypeOK, LogoutEnds
  <2>. QED
    BY <1>9, <2>1, <2>2, <2>3 DEF TypeOK, BrowserType, LogoutEnds
<1>10. ASSUME NEW h \in Hooks, MeArrives(h) PROVE BrowserType'
  <2>1. hook' = [hook EXCEPT ![h] = [hook[h] EXCEPT !.verified = (me[h] = "session"),
                                                   !.checked = TRUE]]
    BY <1>10 DEF MeArrives, TypeOK
  <2>2. [hook[h] EXCEPT !.verified = (me[h] = "session"), !.checked = TRUE] \in Hook
    BY DEF TypeOK, Hook
  <2>. QED
    BY <1>10, <2>1, <2>2 DEF TypeOK, BrowserType, MeArrives
<1>11. ASSUME NEW h \in Hooks, MeLost(h) PROVE BrowserType'
  BY <1>11 DEF TypeOK, BrowserType, MeLost, Hook
<1>12. ASSUME NEW h \in Hooks, Reload(h) PROVE BrowserType'
  BY <1>12, AnswerType DEF TypeOK, BrowserType, Reload, Hook
<1>13. ASSUME Tick PROVE BrowserType'
  <2>1. \A n, ttl \in Nat : ttl \in 0..n => Less(ttl) \in 0..n
    BY DEF Less
  <2>2. cookie' \in Cookie \union {None}
    BY <1>13, <2>1, SessionAssumption DEF TypeOK, Tick, Cookie
  <2>. QED
    BY <1>13, <2>2 DEF TypeOK, BrowserType, Tick
<1>14. ASSUME CookieExpires PROVE BrowserType'
  BY <1>14 DEF TypeOK, BrowserType, CookieExpires
<1>15. ASSUME UNCHANGED sessionVars PROVE BrowserType'
  BY <1>15 DEF TypeOK, BrowserType, sessionVars
<1>. QED
  BY <1>1, <1>2, <1>3, <1>4, <1>5, <1>6, <1>7, <1>8, <1>9, <1>10, <1>11, <1>12, <1>13,
     <1>14, <1>15 DEF Next, Served, Checked, TimePasses

LEMMA TypeStep ==
    ASSUME TypeOK, [Next]_sessionVars
    PROVE  TypeOK'
  BY AttemptsType, BrowserTypeStep DEF TypeOK, BrowserType

-----------------------------------------------------------------------------
(* Proof of ownership *)

\* That a wallet has proved itself is never forgotten, so waiting loses nothing.
LEMMA ProvedStays ==
    ASSUME [Next]_sessionVars, proved
    PROVE  proved'
<1>1. ASSUME NEW a \in Attempts, NEW h, NEW w, Access(a, h, w) \/ Sign(a, w) PROVE proved'
  BY <1>1 DEF Access, Sign
<1>2. ASSUME NEW a \in Attempts, Served(a) \/ Fail(a) PROVE proved'
  BY <1>2 DEF Served, Challenge, ReadNonce, MarkNonce, Issue, Fail
<1>3. ASSUME NEW h, Decline(h) \/ StorageEvent(h) \/ Disconnect(h) \/ LogoutEnds(h)
      PROVE  proved'
  BY <1>3 DEF Decline, StorageEvent, Disconnect, LogoutEnds
<1>4. ASSUME NEW h, Checked(h) \/ Reload(h) PROVE proved'
  BY <1>4 DEF Checked, MeArrives, MeLost, Reload
<1>5. ASSUME TimePasses \/ UNCHANGED sessionVars PROVE proved'
  BY <1>5 DEF TimePasses, Tick, CookieExpires, sessionVars
<1>. QED
  BY <1>1, <1>2, <1>3, <1>4, <1>5 DEF Next

LEMMA AttemptProvenStep ==
    ASSUME TypeOK, NEW a \in Attempts, ConnectIsProven(a), RowIsProven(a), Moves(a),
           proved => proved'
    PROVE  ConnectIsProven(a)' /\ RowIsProven(a)'
<1>. DEFINE Goal == ConnectIsProven(a)' /\ RowIsProven(a)'
<1>0. /\ connect[a] \in Connecting \union {None} /\ nonce[a] \in Nonce \union {None}
      /\ past[a] \in Nat
      /\ DOMAIN connect = Attempts /\ DOMAIN nonce = Attempts /\ DOMAIN past = Attempts
  BY DEF TypeOK
<1>1. CASE Kept(a)
  BY <1>1 DEF Kept, ConnectIsProven, RowIsProven, At, Honoured
<1>2. CASE Gone(a)
  BY <1>2 DEF Gone, ConnectIsProven, RowIsProven, At, Honoured
<1>3. CASE Begun(a)
  <2>1. PICK h \in Hooks, w \in Wallets :
            connect'[a] = [hook |-> h, stage |-> "challenge", address |-> w, own |-> FALSE]
    BY <1>3 DEF Begun
  <2>2. connect'[a] \in Connecting /\ connect'[a].stage = "challenge" /\ ~connect'[a].own
    BY <2>1 DEF Connecting
  <2>. QED
    BY <1>3, <2>2, NoneAssumption DEF Begun, ConnectIsProven, RowIsProven, Honoured
<1>4. CASE Aged(a)
  <2>1. (nonce'[a] # None) = (nonce[a] # None)
        /\ (nonce[a] # None => nonce'[a].used = nonce[a].used)
    <3>1. CASE nonce[a] = None
      BY <1>4, <3>1 DEF Aged
    <3>2. CASE nonce[a] # None
      <4>1. PICK n \in Nonce : n = nonce[a]
        BY <3>2, NonceType
      <4>2. Less(n.ttl) \in 0..NonceTTL
        BY SessionAssumption DEF Nonce, Less
      <4>3. nonce'[a] = [n EXCEPT !.ttl = Less(n.ttl)]
        BY <1>4, <3>2, <4>1 DEF Aged
      <4>4. nonce'[a] \in Nonce /\ nonce'[a].used = n.used
        BY <4>2, <4>3 DEF Nonce
      <4>. QED
        BY <3>2, <4>1, <4>4, NoneAssumption
    <3>. QED
      BY <3>1, <3>2
  <2>. QED
    BY <1>0, <1>4, <2>1 DEF Aged, ConnectIsProven, RowIsProven, At, Honoured
<1>5. CASE Challenge(a)
  <2>1. PICK c \in Connecting : c = connect[a]
    BY <1>5, ConnectingType DEF Challenge, At
  <2>2. connect'[a] = [c EXCEPT !.stage = "sign"]
    BY <1>0, <1>5, <2>1 DEF Challenge
  <2>3. /\ connect'[a] \in Connecting /\ connect'[a].stage = "sign"
        /\ connect'[a].own = c.own
    BY <2>2 DEF Connecting
  <2>4. nonce'[a] \in Nonce
    BY <1>0, <1>5, SessionAssumption DEF Challenge, Nonce
  <2>5. ~c.own /\ c.stage = "challenge"
    BY <1>5, <2>1 DEF Challenge, At, ConnectIsProven
  <2>6. past[a] = 0
    BY <1>0, <1>5, <2>1, <2>5 DEF RowIsProven, At, Honoured, Challenge
  <2>7. connect'[a] # None /\ nonce'[a] # None
    BY <2>3, <2>4, NoneAssumption
  <2>8. past'[a] = 0
    BY <1>5, <2>6 DEF Challenge
  <2>. QED
    BY <2>3, <2>5, <2>7, <2>8 DEF ConnectIsProven, RowIsProven, Honoured
<1>6. ASSUME NEW w \in Wallets, Sign(a, w) PROVE Goal
  <2>1. PICK c \in Connecting : c = connect[a]
    BY <1>6, ConnectingType DEF Sign, At
  <2>2. connect'[a] = [c EXCEPT !.stage = "verify", !.own = (w = c.address)]
    BY <1>0, <1>6, <2>1 DEF Sign
  <2>3. connect'[a] \in Connecting /\ connect'[a].stage = "verify"
    BY <2>2 DEF Connecting
  <2>4. w = c.address => proved'
    BY <1>6, <2>1 DEF Sign
  <2>5. c.stage = "sign" /\ ~c.own /\ nonce[a] # None
    BY <1>6, <2>1 DEF Sign, At, ConnectIsProven
  <2>6. past[a] = 0
    BY <1>0, <1>6, <2>1, <2>5 DEF RowIsProven, At, Honoured, Sign
  <2>7. connect'[a] # None
    BY <2>3, NoneAssumption
  <2>8. past'[a] = 0 /\ nonce'[a] # None
    BY <1>6, <2>5, <2>6 DEF Sign
  <2>9. w # c.address => ~connect'[a].own
    BY <2>2 DEF Connecting
  <2>10. connect'[a].own => proved'
    BY <2>4, <2>9
  <2>. QED
    BY <2>3, <2>7, <2>8, <2>10 DEF ConnectIsProven, RowIsProven, Honoured
<1>7. CASE ReadNonce(a)
  <2>1. connect' = connect /\ nonce' = nonce /\ Sent(a)
    BY <1>7 DEF ReadNonce
  <2>. QED
    BY <2>1 DEF Sent, ConnectIsProven, RowIsProven, At, Honoured
<1>8. CASE MarkNonce(a)
  <2>1. nonce'[a] \in Nonce /\ nonce'[a].used /\ nonce'[a] # None
    <3>1. nonce'[a] = [ttl |-> 0, used |-> TRUE]
      BY <1>0, <1>8 DEF MarkNonce
    <3>2. nonce'[a] \in Nonce /\ nonce'[a].used
      BY <3>1, SessionAssumption DEF Nonce
    <3>. QED
      BY <3>2, NoneAssumption
  <2>2. CASE At(a, "verify")
    <3>1. PICK c \in Connecting : c = connect[a]
      BY <2>2, ConnectingType DEF At
    <3>2. connect'[a] = [c EXCEPT !.stage = "issue"]
      BY <1>0, <1>8, <2>2, <3>1 DEF MarkNonce, Answered
    <3>3. /\ connect'[a] \in Connecting /\ connect'[a].stage = "issue"
          /\ connect'[a].own = c.own
      BY <3>2 DEF Connecting
    <3>4. c.own /\ proved
      BY <1>8, <2>2, <3>1 DEF MarkNonce, RowIsProven, ConnectIsProven, At, Honoured
    <3>. QED
      BY <2>1, <3>3, <3>4, NoneAssumption DEF ConnectIsProven, RowIsProven, At, Honoured
  <2>3. CASE ~At(a, "verify")
    <3>1. connect'[a] = connect[a]
      BY <1>8, <2>3 DEF MarkNonce, Answered
    <3>2. (At(a, "issue") /\ connect[a].own) \/ Honoured(a)
      BY <1>8, <2>3 DEF MarkNonce, RowIsProven
    <3>. QED
      BY <2>1, <3>1, <3>2 DEF ConnectIsProven, RowIsProven, At, Honoured
  <2>. QED
    BY <2>2, <2>3
<1>9. CASE Issue(a)
  <2>1. connect'[a] = None /\ nonce' = nonce /\ past' = past
    BY <1>0, <1>9 DEF Issue
  <2>2. nonce[a] # None /\ nonce[a].used
    BY <1>9 DEF Issue, At, ConnectIsProven
  <2>. QED
    BY <2>1, <2>2 DEF ConnectIsProven, RowIsProven, Honoured
<1>. QED
  BY <1>1, <1>2, <1>3, <1>4, <1>5, <1>6, <1>7, <1>8, <1>9 DEF Moves

LEMMA AttemptsAreProvenStep ==
    ASSUME TypeOK, AttemptsAreProven, [Next]_sessionVars
    PROVE  AttemptsAreProven'
<1>. SUFFICES ASSUME NEW a \in Attempts
              PROVE  ConnectIsProven(a)' /\ RowIsProven(a)'
  BY DEF AttemptsAreProven
<1>1. Moves(a) /\ (proved => proved')
  BY AttemptsMove, ProvedStays
<1>. QED
  BY <1>1, AttemptProvenStep DEF AttemptsAreProven

\* A cookie comes from a connectWallet that is issued a session, or was there before.
LEMMA CookieIsProvenStep ==
    ASSUME TypeOK, AttemptsAreProven, SessionsAreProven, [Next]_sessionVars
    PROVE  cookie' # None => cookie'.own /\ proved'
<1>. DEFINE Goal == cookie' # None => cookie'.own /\ proved'
<1>1. ASSUME NEW a \in Attempts, Issue(a) PROVE Goal
  <2>1. connect[a].own /\ proved
    BY <1>1 DEF Issue, At, AttemptsAreProven, ConnectIsProven
  <2>2. cookie' = [address |-> connect[a].address, ttl |-> SessionTTL, own |-> connect[a].own]
    BY <1>1 DEF Issue, Session
  <2>3. cookie'.own = connect[a].own
    BY <2>2
  <2>. QED
    BY <1>1, <2>1, <2>3, ProvedStays
<1>2. ASSUME Tick PROVE Goal
  <2>1. CASE cookie = None
    BY <1>2, <2>1 DEF Tick
  <2>2. CASE cookie # None
    <3>1. PICK c \in Cookie : c = cookie
      BY <2>2 DEF TypeOK
    <3>2. cookie' = [c EXCEPT !.ttl = Less(@)]
      BY <1>2, <2>2, <3>1 DEF Tick
    <3>3. cookie'.own = c.own
      BY <3>2 DEF Cookie
    <3>. QED
      BY <2>2, <3>1, <3>3, ProvedStays DEF SessionsAreProven
  <2>. QED
    BY <2>1, <2>2
<1>3. ASSUME cookie' \in {None, cookie} PROVE Goal
  BY <1>3, ProvedStays DEF SessionsAreProven
<1>4. ASSUME NEW a \in Attempts, NEW h, NEW w,
             \/ Access(a, h, w) \/ Sign(a, w) \/ Challenge(a) \/ ReadNonce(a)
             \/ MarkNonce(a) \/ Fail(a)
      PROVE  cookie' = cookie
  BY <1>4 DEF Access, Sign, Challenge, ReadNonce, MarkNonce, Fail
<1>5. ASSUME NEW h,
             \/ Decline(h) \/ StorageEvent(h) \/ Disconnect(h) \/ LogoutEnds(h)
             \/ Checked(h) \/ Reload(h) \/ CookieExpires \/ UNCHANGED sessionVars
      PROVE  cookie' \in {None, cookie}
  BY <1>5 DEF Decline, StorageEvent, Disconnect, LogoutEnds, Checked, MeArrives, MeLost,
              Reload, CookieExpires, sessionVars
<1>. QED
  BY <1>1, <1>2, <1>3, <1>4, <1>5 DEF Next, Served, TimePasses

\* An answer of /api/auth/me is about the cookie of the moment it was given.
LEMMA AnswersAreProvenStep ==
    ASSUME TypeOK, SessionsAreProven, [Next]_sessionVars
    PROVE  \A h \in Hooks : me'[h] = "session" => proved'
<1>. DEFINE Goal == \A h \in Hooks : me'[h] = "session" => proved'
<1>1. ASSUME NEW h \in Hooks, Reload(h) PROVE Goal
  <2>1. MeAnswer = "session" => proved
    BY DEF MeAnswer, SessionUser, SessionsAreProven
  <2>. QED
    BY <1>1, <2>1, ProvedStays DEF Reload, SessionsAreProven
<1>2. ASSUME NEW h \in Hooks, Checked(h) PROVE Goal
  <2>1. me' = [me EXCEPT ![h] = None]
    BY <1>2 DEF Checked, MeArrives, MeLost
  <2>2. \A g \in Hooks : me'[g] = "session" => me[g] = "session"
    BY <2>1, NoneAssumption DEF TypeOK
  <2>. QED
    BY <2>2, ProvedStays DEF SessionsAreProven
<1>3. ASSUME me' = me PROVE Goal
  BY <1>3, ProvedStays DEF SessionsAreProven
<1>4. ASSUME NEW a \in Attempts, NEW h, NEW w,
             Access(a, h, w) \/ Sign(a, w) \/ Served(a) \/ Fail(a)
      PROVE  me' = me
  BY <1>4 DEF Access, Sign, Served, Challenge, ReadNonce, MarkNonce, Issue, Fail
<1>5. ASSUME NEW h,
             \/ Decline(h) \/ StorageEvent(h) \/ Disconnect(h) \/ LogoutEnds(h)
             \/ TimePasses \/ UNCHANGED sessionVars
      PROVE  me' = me
  BY <1>5 DEF Decline, StorageEvent, Disconnect, LogoutEnds, TimePasses, Tick,
              CookieExpires, sessionVars
<1>. QED
  BY <1>1, <1>2, <1>3, <1>4, <1>5 DEF Next

\* A hook shows "Verified" after an issued session, after an answer, or as before.
LEMMA BadgesAreProvenStep ==
    ASSUME TypeOK, AttemptsAreProven, SessionsAreProven, [Next]_sessionVars
    PROVE  \A h \in Hooks : hook'[h].verified => proved'
<1>. DEFINE Goal == \A h \in Hooks : hook'[h].verified => proved'
<1>0. DOMAIN hook = Hooks /\ \A g \in Hooks : hook[g] \in Hook
  BY DEF TypeOK
<1>1. ASSUME NEW a \in Attempts, Issue(a) PROVE Goal
  <2>1. proved
    BY <1>1 DEF Issue, At, AttemptsAreProven, ConnectIsProven
  <2>. QED
    BY <2>1, ProvedStays
<1>2. ASSUME NEW h \in Hooks, MeArrives(h) PROVE Goal
  <2>1. CASE me[h] = "session"
    BY <2>1, ProvedStays DEF SessionsAreProven
  <2>2. CASE me[h] # "session"
    <3>1. \A g \in Hooks : hook'[g].verified => hook[g].verified
      BY <1>0, <1>2, <2>2 DEF MeArrives, Hook
    <3>. QED
      BY <3>1, ProvedStays DEF SessionsAreProven
  <2>. QED
    BY <2>1, <2>2
<1>3. ASSUME \A g \in Hooks : hook'[g].verified => hook[g].verified PROVE Goal
  BY <1>3, ProvedStays DEF SessionsAreProven
<1>4. ASSUME NEW a \in Attempts, NEW h, NEW w, Access(a, h, w)
      PROVE  \A g \in Hooks : hook'[g].verified => hook[g].verified
  BY <1>0, <1>4 DEF Access, Hook
<1>5. ASSUME NEW a \in Attempts, Fail(a)
      PROVE  \A g \in Hooks : hook'[g].verified => hook[g].verified
  BY <1>0, <1>5 DEF Fail, Hook
<1>6. ASSUME NEW h, Decline(h) \/ StorageEvent(h) \/ Disconnect(h)
      PROVE  \A g \in Hooks : hook'[g].verified => hook[g].verified
  BY <1>0, <1>6 DEF Decline, StorageEvent, Disconnect, Hook
<1>7. ASSUME NEW h, LogoutEnds(h) \/ MeLost(h) \/ Reload(h)
      PROVE  \A g \in Hooks : hook'[g].verified => hook[g].verified
  BY <1>0, <1>7 DEF LogoutEnds, MeLost, Reload, Hook
<1>8. ASSUME NEW a \in Attempts, NEW w,
             Sign(a, w) \/ Challenge(a) \/ ReadNonce(a) \/ MarkNonce(a)
      PROVE  \A g \in Hooks : hook'[g].verified => hook[g].verified
  BY <1>8 DEF Sign, Challenge, ReadNonce, MarkNonce
<1>9. ASSUME TimePasses \/ UNCHANGED sessionVars
      PROVE  \A g \in Hooks : hook'[g].verified => hook[g].verified
  BY <1>9 DEF TimePasses, Tick, CookieExpires, sessionVars
<1>. QED
  BY <1>1, <1>2, <1>3, <1>4, <1>5, <1>6, <1>7, <1>8, <1>9 DEF Next, Served, Checked

LEMMA SessionsAreProvenStep ==
    ASSUME TypeOK, AttemptsAreProven, SessionsAreProven, [Next]_sessionVars
    PROVE  SessionsAreProven'
  BY CookieIsProvenStep, AnswersAreProvenStep, BadgesAreProvenStep DEF SessionsAreProven

-----------------------------------------------------------------------------
(* What the tabs show *)

LEMMA HooksAgreeStep ==
    ASSUME TypeOK, HooksAgree, [Next]_sessionVars
    PROVE  HooksAgree'
<1>0. DOMAIN hook = Hooks /\ \A g \in Hooks : hook[g] \in Hook
  BY DEF TypeOK
<1>1. ASSUME NEW a \in Attempts, NEW h \in CallersOf[a], NEW w \in Wallets, Access(a, h, w)
      PROVE  HooksAgree'
  <2>1. persisted' = w /\ w # None
    BY <1>1, SessionAssumption DEF Access
  <2>2. ASSUME NEW g \in Hooks PROVE hook'[g].address = w \/ g \in notified'
    <3>1. CASE TabOf[g] = TabOf[h]
      BY <1>0, <1>1, <3>1 DEF Access, Hook
    <3>2. CASE TabOf[g] # TabOf[h] /\ persisted # w
      BY <1>1, <3>2 DEF Access
    <3>3. CASE TabOf[g] # TabOf[h] /\ persisted = w
      BY <1>0, <1>1, <2>1, <3>3 DEF Access, HooksAgree
    <3>. QED
      BY <3>1, <3>2, <3>3
  <2>. QED
    BY <2>1, <2>2 DEF HooksAgree
<1>2. ASSUME NEW h \in Hooks, StorageEvent(h) PROVE HooksAgree'
  BY <1>0, <1>2 DEF StorageEvent, HooksAgree, Hook
<1>3. ASSUME NEW h, Decline(h) \/ Fail(h) \/ Disconnect(h) PROVE HooksAgree'
  BY <1>3 DEF Decline, Fail, Disconnect, HooksAgree
<1>4. ASSUME NEW h \in Hooks, Reload(h) PROVE HooksAgree'
  BY <1>0, <1>4 DEF Reload, HooksAgree
<1>5. ASSUME persisted' = persisted, notified' = notified,
             \A g \in Hooks : hook'[g].address = hook[g].address
      PROVE  HooksAgree'
  BY <1>5 DEF HooksAgree
<1>6. ASSUME NEW h, Issue(h) \/ LogoutEnds(h) PROVE HooksAgree'
  <2>1. \A g \in Hooks : hook'[g].address = hook[g].address
    BY <1>0, <1>6 DEF Issue, LogoutEnds, Hook
  <2>. QED
    BY <1>5, <1>6, <2>1 DEF Issue, LogoutEnds
<1>7. ASSUME NEW h \in Hooks, Checked(h) PROVE HooksAgree'
  <2>1. \A g \in Hooks : hook'[g].address = hook[g].address
    BY <1>0, <1>7 DEF Checked, MeArrives, MeLost, Hook
  <2>. QED
    BY <1>5, <1>7, <2>1 DEF Checked, MeArrives, MeLost
<1>8. ASSUME NEW a \in Attempts,
             (\E w \in Wallets : Sign(a, w)) \/ Challenge(a) \/ ReadNonce(a) \/ MarkNonce(a)
      PROVE  HooksAgree'
  BY <1>5, <1>8 DEF Sign, Challenge, ReadNonce, MarkNonce
<1>9. ASSUME TimePasses \/ UNCHANGED sessionVars PROVE HooksAgree'
  BY <1>5, <1>9 DEF TimePasses, Tick, CookieExpires, sessionVars
<1>. QED
  BY <1>1, <1>2, <1>3, <1>4, <1>6, <1>7, <1>8, <1>9 DEF Next, Served

\* A request of checkSession is only given up for the next one, or for its outcome.
LEMMA NobodyWaitsStep ==
    ASSUME TypeOK, NobodyWaitsInVain, [Next]_sessionVars
    PROVE  NobodyWaitsInVain'
<1>0. DOMAIN hook = Hooks /\ DOMAIN me = Hooks /\ \A g \in Hooks : hook[g] \in Hook
  BY DEF TypeOK
<1>1. ASSUME NEW h \in Hooks, Checked(h) PROVE NobodyWaitsInVain'
  <2>1. ASSUME NEW g \in Hooks PROVE hook'[g].checked \/ me'[g] # None
    <3>1. CASE g = h
      BY <1>0, <1>1, <3>1 DEF Checked, MeArrives, MeLost, Hook
    <3>2. CASE g # h
      BY <1>0, <1>1, <3>2 DEF Checked, MeArrives, MeLost, NobodyWaitsInVain
    <3>. QED
      BY <3>1, <3>2
  <2>. QED
    BY <2>1 DEF NobodyWaitsInVain
<1>2. ASSUME NEW h \in Hooks, Reload(h) PROVE NobodyWaitsInVain'
  <2>1. \A g \in Hooks : IF TabOf[g] = TabOf[h] THEN me'[g] = MeAnswer
                                               ELSE me'[g] = me[g] /\ hook'[g] = hook[g]
    BY <1>2 DEF Reload
  <2>. QED
    BY <2>1, AnswerType DEF NobodyWaitsInVain
<1>3. ASSUME me' = me, \A g \in Hooks : hook'[g].checked = hook[g].checked
      PROVE  NobodyWaitsInVain'
  BY <1>3 DEF NobodyWaitsInVain
<1>4. ASSUME NEW a \in Attempts, NEW h, NEW w, Access(a, h, w)
      PROVE  me' = me /\ \A g \in Hooks : hook'[g].checked = hook[g].checked
  BY <1>0, <1>4 DEF Access, Hook
<1>5. ASSUME NEW h, Decline(h) \/ StorageEvent(h) \/ Disconnect(h) \/ LogoutEnds(h)
      PROVE  me' = me /\ \A g \in Hooks : hook'[g].checked = hook[g].checked
  BY <1>0, <1>5 DEF Decline, StorageEvent, Disconnect, LogoutEnds, Hook
<1>6. ASSUME NEW a \in Attempts, Issue(a) \/ Fail(a)
      PROVE  me' = me /\ \A g \in Hooks : hook'[g].checked = hook[g].checked
  BY <1>0, <1>6 DEF Issue, Fail, Hook
<1>7. ASSUME NEW a \in Attempts, NEW w,
             Sign(a, w) \/ Challenge(a) \/ ReadNonce(a) \/ MarkNonce(a)
      PROVE  me' = me /\ hook' = hook
  BY <1>7 DEF Sign, Challenge, ReadNonce, MarkNonce
<1>8. ASSUME TimePasses \/ UNCHANGED sessionVars
      PROVE  me' = me /\ hook' = hook
  BY <1>8 DEF TimePasses, Tick, CookieExpires, sessionVars
<1>. QED
  BY <1>1, <1>2, <1>3, <1>4, <1>5, <1>6, <1>7, <1>8 DEF Next, Served

-----------------------------------------------------------------------------
\* What is proved of the session holds of every reachable state.
THEOREM Inductive == Spec => []SessionInv
<1>1. Init => SessionInv
  <2>1. ASSUME Init PROVE SessionsAreProven
    BY <2>1 DEF Init, SessionsAreProven, MeAnswer, SessionUser
  <2>2. ASSUME Init PROVE AttemptsAreProven
    BY <2>2 DEF Init, AttemptsAreProven, ConnectIsProven, RowIsProven, Honoured
  <2>3. ASSUME Init PROVE HooksAgree /\ NobodyWaitsInVain
    BY <2>3, AnswerType DEF Init, HooksAgree, NobodyWaitsInVain
  <2>. QED
    BY <2>1, <2>2, <2>3, InitType DEF SessionInv
<1>2. SessionInv /\ [Next]_sessionVars => SessionInv'
  BY TypeStep, AttemptsAreProvenStep, SessionsAreProvenStep, HooksAgreeStep, NobodyWaitsStep
     DEF SessionInv
<1>. QED
  BY <1>1, <1>2, PTL DEF Spec

\* The state of hooks, tabs, backend and browser has its types.
THEOREM TypeCorrect == Spec => []TypeOK
  BY Inductive, PTL DEF SessionInv

\* However connects, logouts and answers interleave, whatever is lost or delivered twice
\* and however many connects run at once, the browser holds a session only of a wallet that
\* signed the challenge the session was issued for.
THEOREM SessionProven == Spec => []SessionIsProven
<1>1. SessionInv => SessionIsProven
  BY DEF SessionInv, SessionsAreProven, SessionIsProven
<1>. QED
  BY <1>1, Inductive, PTL

\* No hook shows "Verified" before some wallet proved itself.
THEOREM BadgeProven == Spec => []BadgeIsProven
<1>1. SessionInv => BadgeIsProven
  BY DEF SessionInv, SessionsAreProven, BadgeIsProven
<1>. QED
  BY <1>1, Inductive, PTL

\* Every hook of every tab shows the persisted wallet or is about to hear of it.
THEOREM HooksInAgreement == Spec => []HooksAgree
  BY Inductive, PTL DEF SessionInv

\* No hook is left without an outcome of checkSession once its request has ended.
THEOREM NobodyWaits == Spec => []NobodyWaitsInVain
  BY Inductive, PTL DEF SessionInv

-----------------------------------------------------------------------------
(* A challenge that got its connectWallet a session *)

\* Once a connectWallet has got its session, no verification of its challenge passes the
\* check any more: what still comes through had passed it before.
THEOREM ReplayRefused == Spec => ReplayIsRefused
<1>1. ASSUME SessionInv, [Next]_sessionVars, NEW a \in Attempts, Honoured(a)
      PROVE  past'[a] <= past[a]
  <2>1. nonce[a].used /\ past[a] \in Nat /\ DOMAIN past = Attempts
    BY <1>1 DEF SessionInv, AttemptsAreProven, RowIsProven, TypeOK
  <2>2. connect[a] = None
    BY <1>1 DEF Honoured
  <2>3. CASE Kept(a) \/ Gone(a) \/ Begun(a) \/ Aged(a)
    BY <2>1, <2>3 DEF Kept, Gone, Begun, Aged
  <2>4. CASE Challenge(a) \/ (\E w \in Wallets : Sign(a, w)) \/ Issue(a)
    BY <2>2, <2>4 DEF Challenge, Sign, Issue, At
  <2>5. CASE ReadNonce(a)
    BY <2>1, <2>5 DEF ReadNonce
  <2>6. CASE MarkNonce(a)
    BY <2>1, <2>6 DEF MarkNonce
  <2>7. Moves(a)
    BY <1>1, AttemptsMove DEF SessionInv
  <2>. QED
    BY <2>3, <2>4, <2>5, <2>6, <2>7 DEF Moves
<1>2. SessionInv /\ [Next]_sessionVars
        => [\A a \in Attempts : Honoured(a) => past'[a] <= past[a]]_sessionVars
  BY <1>1
<1>. QED
  BY <1>2, Inductive, PTL DEF Spec, ReplayIsRefused

-----------------------------------------------------------------------------
(* Signing in keeps its promise. *)

LEMMA Unmoved ==
    ASSUME \A a \in Attempts : Proof(a)' = Proof(a), cookie' = cookie
    PROVE  UNCHANGED Promise!promiseVars
  BY DEF Promise!promiseVars, SessionUser

LEMMA SessionEnded ==
    ASSUME \A a \in Attempts : Proof(a)' = Proof(a), cookie' = None
    PROVE  Promise!Next
<1>1. Promise!End
  BY DEF Promise!End, SessionUser
<1>. QED
  BY <1>1 DEF Promise!Next

\* What becomes of the proofs when connects are given up.
LEMMA AttemptsWasted ==
    ASSUME NEW gone \in SUBSET Attempts, GiveUp(gone), cookie' = cookie
    PROVE  Promise!Next
<1>1. \A a \in Attempts : Proof(a)' = IF a \in gone THEN None ELSE Proof(a)
  BY DEF GiveUp, Proof
<1>2. Promise!Waste(gone)
  BY <1>1 DEF Promise!Waste, SessionUser
<1>. QED
  BY <1>2 DEF Promise!Next

LEMMA SignKeepsPromise ==
    ASSUME TypeOK, AttemptsAreProven, NEW a \in Attempts, NEW w \in Wallets, Sign(a, w)
    PROVE  [Promise!Next]_(Promise!promiseVars)
<1>1. PICK c \in Connecting : c = connect[a]
  BY ConnectingType DEF Sign, At
<1>2. connect' = [connect EXCEPT ![a] = [c EXCEPT !.stage = "verify", !.own = (w = c.address)]]
      /\ cookie' = cookie /\ DOMAIN connect = Attempts
  BY <1>1 DEF Sign, TypeOK
<1>3. \A b \in Attempts : b # a => Proof(b)' = Proof(b)
  BY <1>2 DEF Proof
<1>4. connect[a] # None /\ ~c.own /\ Proof(a) = None
  BY <1>1 DEF Sign, At, AttemptsAreProven, ConnectIsProven, Proof
<1>5. CASE w = c.address
  <2>1. connect'[a] = [c EXCEPT !.stage = "verify", !.own = TRUE]
    BY <1>2, <1>5
  <2>2. /\ connect'[a] \in Connecting
        /\ connect'[a].own /\ connect'[a].address = w
    BY <1>5, <2>1 DEF Connecting
  <2>3. Proof(a)' = w
    BY <2>2, NoneAssumption DEF Proof
  <2>4. Promise!Prove(a, w)
    BY <1>2, <1>3, <1>4, <2>3 DEF Promise!Prove, SessionUser
  <2>. QED
    BY <2>4 DEF Promise!Next
<1>6. CASE w # c.address
  <2>1. connect'[a] = [c EXCEPT !.stage = "verify", !.own = FALSE]
    BY <1>2, <1>6
  <2>2. ~connect'[a].own
    BY <2>1 DEF Connecting
  <2>3. Proof(a)' = Proof(a)
    BY <1>4, <2>2 DEF Proof
  <2>. QED
    BY <1>2, <1>3, <2>3, Unmoved
<1>. QED
  BY <1>5, <1>6

LEMMA IssueKeepsPromise ==
    ASSUME TypeOK, AttemptsAreProven, NEW a \in Attempts, Issue(a)
    PROVE  Promise!Next
<1>1. PICK c \in Connecting : c = connect[a]
  BY ConnectingType DEF Issue, At
<1>2. /\ connect' = [connect EXCEPT ![a] = None] /\ DOMAIN connect = Attempts
      /\ cookie' = [address |-> c.address, ttl |-> SessionTTL, own |-> c.own]
      /\ c.address \in Wallets /\ c.own \in BOOLEAN
  BY <1>1 DEF Issue, Session, TypeOK, Connecting
<1>3. \A b \in Attempts : Proof(b)' = IF b = a THEN None ELSE Proof(b)
  BY <1>2 DEF Proof
<1>4. Proof(a) = c.address /\ c.address # None
  BY <1>1, <1>2, SessionAssumption
     DEF Issue, At, AttemptsAreProven, ConnectIsProven, Proof
<1>5. cookie' \in Cookie /\ cookie'.ttl = SessionTTL /\ cookie'.address = c.address
  BY <1>2, SessionAssumption DEF Cookie
<1>6. cookie' # None /\ SessionUser' = c.address
  BY <1>5, SessionAssumption, NoneAssumption DEF SessionUser
<1>7. Promise!SignIn(a)
  BY <1>3, <1>4, <1>5, <1>6 DEF Promise!SignIn
<1>. QED
  BY <1>7 DEF Promise!Next

LEMMA TickKeepsPromise ==
    ASSUME TypeOK, Tick
    PROVE  [Promise!Next]_(Promise!promiseVars)
<1>1. \A a \in Attempts : Proof(a)' = Proof(a)
  BY DEF Tick, Proof
<1>2. CASE cookie = None
  <2>1. cookie' = cookie
    BY <1>2 DEF Tick
  <2>. QED
    BY <1>1, <2>1, Unmoved
<1>3. CASE cookie # None
  <2>1. PICK c \in Cookie : c = cookie
    BY <1>3 DEF TypeOK
  <2>2. c.ttl \in Nat /\ c.ttl <= SessionTTL
    BY SessionAssumption DEF Cookie
  <2>3. cookie' = [c EXCEPT !.ttl = Less(@)]
    BY <1>3, <2>1 DEF Tick
  <2>4. cookie' \in Cookie /\ cookie'.address = c.address /\ cookie'.ttl = Less(c.ttl)
    BY <2>2, <2>3, SessionAssumption DEF Cookie, Less
  <2>5. cookie' # None
    BY <2>4, NoneAssumption
  <2>6. CASE c.ttl = 0
    BY <1>1, <1>3, <2>1, <2>4, <2>5, <2>6 DEF Promise!promiseVars, SessionUser, Less
  <2>7. CASE c.ttl = 1
    <3>1. Promise!End
      BY <1>1, <2>4, <2>5, <2>7 DEF Promise!End, SessionUser, Less
    <3>. QED
      BY <3>1 DEF Promise!Next
  <2>8. CASE c.ttl > 1
    <3>1. Less(c.ttl) = c.ttl - 1 /\ Less(c.ttl) > 0
      BY <2>2, <2>8 DEF Less
    <3>2. SessionUser' = SessionUser
      BY <1>3, <2>1, <2>2, <2>4, <2>5, <2>8, <3>1 DEF SessionUser
    <3>3. Promise!GrowOlder
      BY <1>1, <1>3, <2>1, <2>4, <2>5, <2>8, <3>1, <3>2 DEF Promise!GrowOlder
    <3>. QED
      BY <3>3 DEF Promise!Next
  <2>. QED
    BY <2>2, <2>6, <2>7, <2>8
<1>. QED
  BY <1>2, <1>3

\* Before its wallet has signed and while the backend looks at it, a proof stays the same.
LEMMA ServedKeepsPromise ==
    ASSUME TypeOK, NEW a \in Attempts, Challenge(a) \/ ReadNonce(a) \/ MarkNonce(a)
    PROVE  UNCHANGED Promise!promiseVars
<1>1. cookie' = cookie
  BY DEF Challenge, ReadNonce, MarkNonce
<1>2. CASE connect' = connect
  BY <1>1, <1>2, Unmoved DEF Proof
<1>3. CASE connect' # connect
  <2>1. connect[a] # None
    BY <1>3 DEF Challenge, ReadNonce, MarkNonce, Answered, At
  <2>2. PICK c \in Connecting : c = connect[a]
    BY <2>1, ConnectingType
  <2>3. PICK stage \in {"sign", "issue"} :
            connect' = [connect EXCEPT ![a] = [c EXCEPT !.stage = stage]]
    BY <1>3, <2>2 DEF Challenge, ReadNonce, MarkNonce, Answered
  <2>4. /\ connect'[a] \in Connecting /\ connect'[a].own = c.own
        /\ connect'[a].address = c.address
    BY <2>3 DEF Connecting, TypeOK
  <2>5. Proof(a)' = Proof(a)
    BY <2>1, <2>2, <2>4, NoneAssumption DEF Proof
  <2>6. \A b \in Attempts : b # a => Proof(b)' = Proof(b)
    BY <2>3 DEF Proof, TypeOK
  <2>. QED
    BY <1>1, <2>5, <2>6, Unmoved
<1>. QED
  BY <1>2, <1>3

LEMMA StepsKeepPromise ==
    ASSUME SessionInv, [Next]_sessionVars
    PROVE  [Promise!Next]_(Promise!promiseVars)
<1>0. TypeOK /\ AttemptsAreProven /\ DOMAIN connect = Attempts
  BY DEF SessionInv, TypeOK
<1>1. ASSUME NEW a \in Attempts, NEW h \in CallersOf[a], NEW w \in Wallets, Access(a, h, w)
      PROVE  UNCHANGED Promise!promiseVars
  <2>1. /\ connect[a] = None /\ cookie' = cookie
        /\ connect' = [connect EXCEPT ![a] =
              [hook |-> h, stage |-> "challenge", address |-> w, own |-> FALSE]]
    BY <1>1 DEF Access, Begin
  <2>2. connect'[a].own = FALSE
    BY <1>0, <2>1
  <2>3. \A b \in Attempts : Proof(b)' = Proof(b)
    BY <1>0, <2>1, <2>2 DEF Proof
  <2>. QED
    BY <2>1, <2>3, Unmoved
<1>2. ASSUME NEW h,
             \/ Decline(h) \/ StorageEvent(h) \/ Disconnect(h)
             \/ MeLost(h) \/ (LogoutEnds(h) /\ cookie' = cookie)
             \/ (MeArrives(h) /\ cookie' = cookie)
      PROVE  UNCHANGED Promise!promiseVars
  <2>1. connect' = connect /\ cookie' = cookie
    BY <1>2 DEF Decline, StorageEvent, Disconnect, MeLost, LogoutEnds, MeArrives, attempts
  <2>. QED
    BY <2>1, Unmoved DEF Proof
<1>3. ASSUME NEW h, LogoutEnds(h) \/ MeArrives(h), cookie' # cookie
      PROVE  Promise!Next
  <2>1. connect' = connect /\ cookie' = None
    BY <1>3 DEF LogoutEnds, MeArrives, attempts
  <2>. QED
    BY <2>1, SessionEnded DEF Proof
<1>4. ASSUME NEW a \in Attempts, Fail(a) PROVE Promise!Next
  <2>1. PICK gone \in SUBSET Attempts : gone = {a}
    OBVIOUS
  <2>2. GiveUp(gone) /\ cookie' = cookie
    BY <1>4, <2>1 DEF Fail
  <2>. QED
    BY <2>2, AttemptsWasted
<1>5. ASSUME NEW h \in Hooks, Reload(h) PROVE Promise!Next
  <2>1. PICK gone \in SUBSET Attempts : GiveUp(gone)
    BY <1>5 DEF Reload
  <2>2. cookie' = cookie
    BY <1>5 DEF Reload
  <2>. QED
    BY <2>1, <2>2, AttemptsWasted
<1>6. ASSUME CookieExpires PROVE Promise!Next
  <2>1. connect' = connect /\ cookie' = None
    BY <1>6 DEF CookieExpires, attempts
  <2>. QED
    BY <2>1, SessionEnded DEF Proof
<1>7. ASSUME UNCHANGED sessionVars PROVE UNCHANGED Promise!promiseVars
  BY <1>7, Unmoved DEF sessionVars, attempts, Proof
<1>8. ASSUME NEW a \in Attempts, Challenge(a) \/ ReadNonce(a) \/ MarkNonce(a)
      PROVE  UNCHANGED Promise!promiseVars
  BY <1>0, <1>8, ServedKeepsPromise
<1>9. ASSUME NEW a \in Attempts, NEW w \in Wallets, Sign(a, w)
      PROVE  [Promise!Next]_(Promise!promiseVars)
  BY <1>0, <1>9, SignKeepsPromise
<1>10. ASSUME NEW a \in Attempts, Issue(a) PROVE Promise!Next
  BY <1>0, <1>10, IssueKeepsPromise
<1>11. ASSUME Tick PROVE [Promise!Next]_(Promise!promiseVars)
  BY <1>0, <1>11, TickKeepsPromise
<1>. QED
  BY <1>1, <1>2, <1>3, <1>4, <1>5, <1>6, <1>7, <1>8, <1>9, <1>10, <1>11
     DEF Next, Served, Checked, TimePasses

\* Connects, logouts, answers and reloads of all tabs together sign a wallet in only with
\* a proof that was made for that connectWallet, which has none left afterwards, and never
\* renew a session or hand it to another wallet.
THEOREM SessionPromiseKept == Spec => KeepsSessionPromise
<1>1. Init => Promise!Init
  BY DEF Init, Promise!Init, Proof, SessionUser
<1>2. SessionInv /\ [Next]_sessionVars => [Promise!Next]_(Promise!promiseVars)
  BY StepsKeepPromise
<1>. QED
  BY <1>1, <1>2, Inductive, PTL DEF Spec, Promise!Spec, KeepsSessionPromise

=============================================================================
