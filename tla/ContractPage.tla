---------------------------- MODULE ContractPage ----------------------------
(***************************************************************************)
(* The pages that call a contract and then mirror the call to the backend: *)
(* approve, upload and audit, with invokeContract, the state machine of    *)
(* useTransactionState and the "Check again" recovery after a timeout.     *)
(* JavaScript runs to the next await without interruption, so a step takes *)
(* a handler from one await to the next or to its end.  The user may start *)
(* another handler whenever its button is enabled; all of them share one   *)
(* state machine and one remembered context.  The contract ids are         *)
(* configured and a wallet is connected.                                   *)
(***************************************************************************)
EXTENDS Integers, Sequences, FiniteSets

CONSTANTS
    Ids,            \* maintenance ids as the user sees or types them
    Offered,        \* page -> the ids a user can call it with
    IdLength,       \* id -> its length in characters
    Uuids,          \* the ids that parse as a UUID, all the backend accepts
    Payloads,       \* decisions, evidence hashes or certification notes
    Slots,          \* handlers running at a time
    SendAnswers,    \* what sendTransaction may answer
    MissAnswer,     \* what getTransaction answers of a transaction not yet applied
    MaxPolls,       \* MAX_POLL_ATTEMPTS (15)
    MaxTxs,         \* bound on transactions submitted
    None

Pages == {"approve", "upload", "audit"}

ASSUME PageAssumption ==
    /\ Offered \in [Pages -> SUBSET Ids]
    /\ IdLength \in [Ids -> Nat]
    /\ Uuids \subseteq Ids
    /\ IsFiniteSet(Slots)
    /\ MaxPolls \in Nat \ {0} /\ MaxTxs \in Nat

VARIABLES
    page,           \* which one is open, the state it shows, transactionHash
    listed,         \* the ids with a button: records of the approve page, else all
    processing,     \* processingId, uploading, certifying: what disables buttons
    context,        \* timeoutContextRef
    handler,        \* slot -> the handler running in it
    txs,            \* external: what the network got, a hash is an index into it
    mirrors         \* external: operation -> mirror requests the backend committed

pageVars == <<page, listed, processing, context, handler, txs, mirrors>>

Ops == [id: Ids, payload: Payloads]

ASSUME NoneAssumption == None \notin Ids \union Ops \union (1..MaxTxs)

Failures == {"RPC_ERROR", "TIMEOUT", "DATABASE_SYNC_FAILED"}

Processing == {"PREPARING", "SIMULATING", "WAITING_FOR_SIGNATURE", "SUBMITTING", "PENDING",
               "DATABASE_SYNC"}

Fates == {"refused", "sent", "SUCCESS", "FAILED"}

\* The await a handler waits in, and what it has in its closure.
Handler ==
    [stage: {"prepare", "sequence", "simulate", "sign", "submit", "poll", "mirror",
             "recheck", "remirror"},
     op: Ops \union {None}, tx: (1..MaxTxs) \union {None}, attempt: 0..MaxPolls,
     status: {"PENDING", MissAnswer}]

\* toBytesN32 pads to 32 bytes and never cuts; anything longer is passed to the
\* contract as a string, which its BytesN<32> refuses in simulation.
BytesN32(id) == IF IdLength[id] < 32 THEN 32 ELSE IdLength[id]

FitsContract(id) == BytesN32(id) = 32

At(s, stage) == handler[s] # None /\ handler[s].stage = stage

Show(state) == page' = [page EXCEPT !.state = state]

ShowWithHash(state, hash) == page' = [page EXCEPT !.state = state, !.hash = hash]

GoTo(s, stage) == handler' = [handler EXCEPT ![s].stage = stage]

\* The handler returns; "finally" enables every button, whoever disabled it.
Finish(s) == handler' = [handler EXCEPT ![s] = None] /\ processing' = None

\* The approve page disables the buttons of one record, the others their only one.
Enabled(op) == IF page.name = "approve" THEN processing # op.id ELSE processing = None

Unsubmitted ==
    {s \in Slots : handler[s] # None /\ handler[s].tx = None /\ handler[s].stage # "recheck"}

\* handleApprove, handleReject, handleUpload, handleCertify, up to the first await.
Begin(s, op) ==
    /\ handler[s] = None
    /\ op.id \in listed /\ Enabled(op)
    /\ Len(txs) + Cardinality(Unsubmitted) < MaxTxs
    /\ ShowWithHash(IF page.name = "upload" THEN "PREPARING" ELSE "SIMULATING", None)
    /\ processing' = op.id
    /\ context' = None
    /\ handler' = [handler EXCEPT ![s] =
          [stage |-> IF page.name = "upload" THEN "prepare" ELSE "sequence",
           op |-> op, tx |-> None, attempt |-> 0, status |-> "PENDING"]]
    /\ UNCHANGED <<listed, txs, mirrors>>

\* computeHash, getAccountSequence, simulateTransaction and Freighter answer.
Proceed(s) ==
    /\ \/ At(s, "prepare") /\ GoTo(s, "sequence") /\ Show("SIMULATING")
       \/ At(s, "sequence") /\ GoTo(s, "simulate") /\ Show("SIMULATING")
       \/ /\ At(s, "simulate") /\ FitsContract(handler[s].op.id)
          /\ GoTo(s, "sign") /\ Show("WAITING_FOR_SIGNATURE")
       \/ At(s, "sign") /\ GoTo(s, "submit") /\ Show("SUBMITTING")
    /\ UNCHANGED <<listed, processing, context, txs, mirrors>>

\* Any of them throws; the catch block of the page shows RPC_ERROR.  An answer
\* of sendTransaction that gets lost may have left the transaction behind.
Fail(s) ==
    /\ \E stage \in {"prepare", "sequence", "simulate", "sign", "submit"} : At(s, stage)
    /\ Show("RPC_ERROR")
    /\ Finish(s)
    /\ \/ UNCHANGED txs
       \/ At(s, "submit") /\ txs' = Append(txs, [op |-> handler[s].op, fate |-> "sent"])
    /\ UNCHANGED <<listed, context, mirrors>>

\* The page believes in success: CONFIRMED, DATABASE_SYNC, then the mirror request.
Confirm(s, tx) ==
    /\ ShowWithHash("DATABASE_SYNC", tx)
    /\ handler' = [handler EXCEPT ![s].stage = "mirror", ![s].tx = tx]

Submit(s, answer) ==
    /\ At(s, "submit")
    /\ txs' = Append(txs, [op |-> handler[s].op,
                           fate |-> IF answer = "PENDING" THEN "sent" ELSE "refused"])
    /\ IF answer = "PENDING"
          THEN /\ Show("PENDING")
               /\ handler' = [handler EXCEPT ![s].stage = "poll", ![s].tx = Len(txs'),
                                             ![s].attempt = 1]
          ELSE Confirm(s, Len(txs'))
    /\ UNCHANGED <<listed, processing, context, mirrors>>

\* txStatus after one getTransaction, which leaves it alone when it throws.
Heard(s) ==
    {handler[s].status,
     IF txs[handler[s].tx].fate \in {"SUCCESS", "FAILED"} THEN txs[handler[s].tx].fate
                                                           ELSE MissAnswer}

\* Mutant of PollAgain: the attempts are not counted.
PollForever(s) ==
    /\ At(s, "poll")
    /\ \E status \in Heard(s) \ {"SUCCESS", "FAILED"} :
          handler' = [handler EXCEPT ![s].status = status]
    /\ Show("PENDING")
    /\ UNCHANGED <<listed, processing, context, txs, mirrors>>

\* Mutant of PollAgain: the loop runs once too often.
PollOnceMore(s) ==
    /\ At(s, "poll") /\ handler[s].attempt <= MaxPolls
    /\ \E status \in Heard(s) \ {"SUCCESS", "FAILED"} :
          handler' = [handler EXCEPT ![s].attempt = @ + 1, ![s].status = status]
    /\ Show("PENDING")
    /\ UNCHANGED <<listed, processing, context, txs, mirrors>>

PollAgain(s) ==
    /\ At(s, "poll") /\ handler[s].attempt < MaxPolls
    /\ \E status \in Heard(s) \ {"SUCCESS", "FAILED"} :
          handler' = [handler EXCEPT ![s].attempt = @ + 1, ![s].status = status]
    /\ Show("PENDING")
    /\ UNCHANGED <<listed, processing, context, txs, mirrors>>

\* Whatever is neither PENDING nor FAILED when the loop ends counts as success.
PollSucceeds(s) ==
    /\ At(s, "poll")
    /\ \E status \in Heard(s) \ {"FAILED"} :
          status = "SUCCESS" \/ (handler[s].attempt = MaxPolls /\ status # "PENDING")
    /\ Confirm(s, handler[s].tx)
    /\ UNCHANGED <<listed, processing, context, txs, mirrors>>

PollFails(s) ==
    /\ At(s, "poll") /\ "FAILED" \in Heard(s)
    /\ Show("RPC_ERROR")
    /\ Finish(s)
    /\ UNCHANGED <<listed, context, txs, mirrors>>

\* handleContractStatus "timeout": the operation is remembered for "Check again".
PollTimesOut(s) ==
    /\ At(s, "poll") /\ handler[s].attempt = MaxPolls
    /\ "PENDING" \in Heard(s)
    /\ ShowWithHash("TIMEOUT", handler[s].tx)
    /\ context' = handler[s].op
    /\ Finish(s)
    /\ UNCHANGED <<listed, txs, mirrors>>

Committed(op) == op.id \in Uuids /\ mirrors' = [mirrors EXCEPT ![op] = @ + 1]

\* The mirror request is answered; the approve page drops the record from its list.
Complete(s) ==
    /\ Committed(handler[s].op)
    /\ ShowWithHash("COMPLETE", handler[s].tx)
    /\ listed' = IF page.name = "approve" THEN listed \ {handler[s].op.id} ELSE listed

\* The mirror request fails, with or without having been committed.
MirrorLost(s) == (Committed(handler[s].op) \/ UNCHANGED mirrors) /\ UNCHANGED listed

\* A mirror request that fails ends in the catch block of a failed call.
Mirror(s) ==
    /\ At(s, "mirror")
    /\ Complete(s) \/ (MirrorLost(s) /\ Show("RPC_ERROR"))
    /\ Finish(s)
    /\ UNCHANGED <<context, txs>>

\* Mutant of CheckAgain: the remembered operation is taken at the click.
CheckAgainTaking(s) ==
    /\ handler[s] = None
    /\ page.state = "TIMEOUT"
    /\ Show("PENDING")
    /\ context' = None
    /\ handler' = [handler EXCEPT ![s] =
          [stage |-> "recheck", op |-> context, tx |-> page.hash, attempt |-> 0,
           status |-> "PENDING"]]
    /\ UNCHANGED <<listed, processing, txs, mirrors>>

\* handleCheckAgain, up to the await of pollTransactionStatus.
CheckAgain(s) ==
    /\ handler[s] = None
    /\ page.state = "TIMEOUT"
    /\ Show("PENDING")
    /\ handler' = [handler EXCEPT ![s] =
          [stage |-> "recheck", op |-> None, tx |-> page.hash, attempt |-> 0,
           status |-> "PENDING"]]
    /\ UNCHANGED <<listed, processing, context, txs, mirrors>>

Leave(s) == handler' = [handler EXCEPT ![s] = None] /\ UNCHANGED processing

\* Mutant of RecheckSucceeds: the remembered operation is not forgotten.
RecheckSucceedsKeeping(s) ==
    /\ At(s, "recheck") /\ "SUCCESS" \in Heard(s)
    /\ IF context = None
          THEN ShowWithHash("COMPLETE", handler[s].tx) /\ Leave(s)
          ELSE /\ ShowWithHash("DATABASE_SYNC", handler[s].tx)
               /\ handler' = [handler EXCEPT ![s].stage = "remirror", ![s].op = context]
               /\ UNCHANGED processing
    /\ UNCHANGED <<listed, context, txs, mirrors>>

\* Mutant of RecheckSucceeds: the mirror is not resumed.
RecheckSucceedsUnresumed(s) ==
    /\ At(s, "recheck") /\ "SUCCESS" \in Heard(s)
    /\ ShowWithHash("COMPLETE", handler[s].tx)
    /\ Leave(s)
    /\ context' = None
    /\ UNCHANGED <<listed, txs, mirrors>>

\* The context is the one remembered now, not the one of the click.
RecheckSucceeds(s) ==
    /\ At(s, "recheck") /\ "SUCCESS" \in Heard(s)
    /\ IF context = None
          THEN ShowWithHash("COMPLETE", handler[s].tx) /\ Leave(s)
          ELSE /\ ShowWithHash("DATABASE_SYNC", handler[s].tx)
               /\ handler' = [handler EXCEPT ![s].stage = "remirror", ![s].op = context]
               /\ UNCHANGED processing
    /\ context' = None
    /\ UNCHANGED <<listed, txs, mirrors>>

\* FAILED, or anything else, an exception included, which reads as PENDING.
RecheckMisses(s) ==
    /\ At(s, "recheck")
    /\ \/ "FAILED" \in Heard(s) /\ Show("RPC_ERROR")
       \/ Heard(s) \ {"SUCCESS", "FAILED"} # {} /\ ShowWithHash("TIMEOUT", handler[s].tx)
    /\ Leave(s)
    /\ UNCHANGED <<listed, context, txs, mirrors>>

Remirror(s) ==
    /\ At(s, "remirror")
    /\ \/ Complete(s)
       \/ MirrorLost(s) /\ ShowWithHash("DATABASE_SYNC_FAILED", handler[s].tx)
    /\ Leave(s)
    /\ UNCHANGED <<context, txs>>

\* The "Dismiss" button of the progress card.
Dismiss ==
    /\ page.state \in Failures \union {"COMPLETE"}
    /\ ShowWithHash("IDLE", None)
    /\ UNCHANGED <<listed, processing, context, handler, txs, mirrors>>

\* What a page offers when it is loaded; the approve page asks the backend.
Listings(name) == IF name = "approve" THEN SUBSET Offered[name] ELSE {Offered[name]}

\* A page is reloaded, or another one loaded: the handlers that were running and
\* all they remember are gone.
Load(name) ==
    /\ page' = [name |-> name, state |-> "IDLE", hash |-> None]
    /\ listed' \in Listings(name)
    /\ processing' = None /\ context' = None
    /\ handler' = [s \in Slots |-> None]
    /\ UNCHANGED <<txs, mirrors>>

\* The network applies a transaction, successfully or not, at any time or never.
Apply(tx) ==
    /\ txs[tx].fate = "sent"
    /\ \E fate \in {"SUCCESS", "FAILED"} : txs' = [txs EXCEPT ![tx].fate = fate]
    /\ UNCHANGED <<page, listed, processing, context, handler, mirrors>>

-----------------------------------------------------------------------------
Init ==
    /\ \E name \in Pages : /\ page = [name |-> name, state |-> "IDLE", hash |-> None]
                          /\ listed \in Listings(name)
    /\ processing = None
    /\ context = None
    /\ handler = [s \in Slots |-> None]
    /\ txs = <<>>
    /\ mirrors = [op \in Ops |-> 0]

\* What a handler does when the answer it awaits is there.
Answered(s) ==
    \/ (\E answer \in SendAnswers : Submit(s, answer))
    \/ PollAgain(s) \/ PollSucceeds(s) \/ PollFails(s) \/ PollTimesOut(s)
    \/ Mirror(s)
    \/ RecheckSucceeds(s) \/ RecheckMisses(s) \/ Remirror(s)

Next ==
    \/ \E s \in Slots :
          \/ \E op \in Ops : Begin(s, op)
          \/ Proceed(s) \/ Fail(s) \/ Answered(s) \/ CheckAgain(s)
    \/ Dismiss
    \/ \E name \in Pages : Load(name)
    \/ \E tx \in DOMAIN txs : Apply(tx)

\* A fetch is answered or throws and a timer fires: from the submission on no
\* handler waits for a person.  Nothing is assumed of the network or the user.
Spec == Init /\ [][Next]_pageVars /\ \A s \in Slots : WF_pageVars(Answered(s))

-----------------------------------------------------------------------------
TypeOK ==
    /\ page \in [name: Pages, state: {"IDLE", "COMPLETE"} \union Processing \union Failures,
                 hash: (1..MaxTxs) \union {None}]
    /\ listed \subseteq Ids
    /\ processing \in Ids \union {None}
    /\ context \in Ops \union {None}
    /\ handler \in [Slots -> Handler \union {None}]
    /\ txs \in Seq([op: Ops, fate: Fates]) /\ Len(txs) <= MaxTxs
    /\ mirrors \in [Ops -> 0..MaxTxs]

\* An operation reaches the backend at most once for every transaction that
\* carried it, and never without one, however calls, timeouts, re-checks and
\* page loads interleave ("Check again" resumes the mirror, it does not repeat it).
OneMirrorPerTx ==
    \A op \in Ops : mirrors[op] <= Cardinality({i \in DOMAIN txs : txs[i].op = op})

\* No permanent spinner (TransactionProgress.tsx names the trap): once a
\* transaction is being submitted, confirmed or mirrored, the card comes to rest.
SpinnerEnds ==
    page.state \in {"SUBMITTING", "PENDING", "DATABASE_SYNC"} ~> page.state \notin Processing

\* Whenever the card offers "Check again", the page remembers the very operation
\* of the transaction it would check (timeoutContextRef).
TimeoutRemembersItsTx ==
    page.state = "TIMEOUT" => context = txs[page.hash].op

\* COMPLETE says "All operations successful" (useTransactionState.ts:172): the
\* operation of the transaction on the card was mirrored to the backend.
CompleteIsMirrored ==
    page.state = "COMPLETE" => mirrors[txs[page.hash].op] > 0

\* soroban.ts:111, "Always 'SUCCESS' - invokeContract throws on failure": a page
\* goes on to the mirror, and to COMPLETE, only with a transaction that was applied.
CompleteIsApplied ==
    page.state \in {"DATABASE_SYNC", "COMPLETE"} => txs[page.hash].fate = "SUCCESS"

=============================================================================
