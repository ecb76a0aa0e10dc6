--------------------------- MODULE ContractPageProofs ---------------------------
(***************************************************************************)
(* Theorems about ContractPage for any ids, payloads, number of handlers,  *)
(* attempts and transactions, and for any answers of the RPC node.         *)
(***************************************************************************)
EXTENDS ContractPage, FiniteSetTheorems, TLAPS

TxRecord == [op: Ops, fate: Fates]

PageRecord ==
    [name: Pages, state: {"IDLE", "COMPLETE"} \union Processing \union Failures,
     hash: (1..MaxTxs) \union {None}]

\* Stages of a handler before its transaction, and stages that go on to a mirror request.
Before == {"prepare", "sequence", "simulate", "sign", "submit"}

Underway == {"poll", "mirror", "remirror"}

\* What a handler h holds, when the network knows the hashes in known.
Knows(h, known) ==
    h # None =>
        /\ h \in Handler
        /\ h.stage # "recheck" => h.op \in Ops
        /\ IF h.stage \in Before THEN h.tx = None ELSE h.tx \in known

Waiting(h) == IF h # None /\ h.tx = None /\ h.stage # "recheck" THEN 1 ELSE 0

Carries(h, op) == h # None /\ h.stage \in Underway /\ h.op = op

Carrying(op) == {s \in Slots : Carries(handler[s], op)}

Carried(h, op) == IF Carries(h, op) THEN 1 ELSE 0

Remembered(kept, op) == IF kept = op THEN 1 ELSE 0

Sent(op) == {i \in DOMAIN txs : txs[i].op = op}

Typed ==
    /\ page \in PageRecord
    /\ listed \subseteq Ids
    /\ processing \in Ids \union {None}
    /\ context \in Ops \union {None}
    /\ txs \in Seq(TxRecord)
    /\ mirrors \in [Ops -> Nat]
    /\ page.state = "TIMEOUT" => page.hash \in DOMAIN txs

HandlersKnow ==
    /\ handler \in [Slots -> Handler \union {None}]
    /\ \A s \in Slots : Knows(handler[s], DOMAIN txs)

\* The bound of the model is kept by counting the handlers about to submit.
WithinBound == Len(txs) + Cardinality(Unsubmitted) <= MaxTxs

\* A transaction is good for one mirror request: the one it has had, the one a handler is
\* on its way to, or the one that "Check again" may resume.
Accounted ==
    \A op \in Ops :
        mirrors[op] + Cardinality(Carrying(op)) + Remembered(context, op)
            <= Cardinality(Sent(op))

PageInv == Typed /\ HandlersKnow /\ WithinBound /\ Accounted

-----------------------------------------------------------------------------
(* Counting *)

LEMMA UnsubmittedIsFinite ==
    /\ IsFiniteSet(Unsubmitted) /\ Cardinality(Unsubmitted) \in Nat
    /\ IsFiniteSet(Unsubmitted') /\ Cardinality(Unsubmitted') \in Nat
<1>1. Unsubmitted \subseteq Slots /\ Unsubmitted' \subseteq Slots
  BY DEF Unsubmitted
<1>. QED
  BY <1>1, PageAssumption, FS_Subset, FS_CardinalityType

LEMMA CarryingIsFinite ==
    ASSUME NEW op
    PROVE  /\ IsFiniteSet(Carrying(op)) /\ Cardinality(Carrying(op)) \in Nat
           /\ IsFiniteSet(Carrying(op)') /\ Cardinality(Carrying(op)') \in Nat
<1>1. Carrying(op) \subseteq Slots /\ Carrying(op)' \subseteq Slots
  BY DEF Carrying
<1>. QED
  BY <1>1, PageAssumption, FS_Subset, FS_CardinalityType

LEMMA SentIsFinite ==
    ASSUME txs \in Seq(TxRecord), NEW op
    PROVE  IsFiniteSet(Sent(op)) /\ Cardinality(Sent(op)) \in Nat
           /\ Cardinality(Sent(op)) <= Len(txs)
<1>1. Sent(op) \subseteq 1..Len(txs) /\ Len(txs) \in Nat
  BY DEF Sent
<1>2. IsFiniteSet(1..Len(txs)) /\ Cardinality(1..Len(txs)) = Len(txs)
  <2>1. ASSUME NEW n \in Nat PROVE IsFiniteSet(1..n) /\ Cardinality(1..n) = n
    BY FS_Interval
  <2>. QED
    BY <1>1, <2>1
<1>3. IsFiniteSet(Sent(op)) /\ Cardinality(Sent(op)) <= Len(txs)
  BY <1>1, <1>2, FS_Subset
<1>. QED
  BY <1>3, FS_CardinalityType

\* Adding an element, or taking one away, by whether it belongs.
LEMMA Recount ==
    ASSUME NEW S, NEW T, NEW x, IsFiniteSet(S),
           T \subseteq S \union {x}, S \subseteq T \union {x}
    PROVE  Cardinality(T) + (IF x \in S THEN 1 ELSE 0) = Cardinality(S) + (IF x \in T THEN 1 ELSE 0)
<1>0. Cardinality(S) \in Nat
  BY FS_CardinalityType
<1>1. CASE x \in S /\ x \in T
  <2>1. S = T
    BY <1>1
  <2>. QED
    BY <1>0, <1>1, <2>1
<1>2. CASE x \in S /\ x \notin T
  <2>1. T = S \ {x}
    BY <1>2
  <2>. QED
    BY <1>0, <1>2, <2>1, FS_RemoveElement
<1>3. CASE x \notin S /\ x \in T
  <2>1. T = S \union {x}
    BY <1>3
  <2>2. Cardinality(S \union {x}) = Cardinality(S) + 1
    BY <1>3, FS_AddElement
  <2>. QED
    BY <1>0, <1>3, <2>1, <2>2
<1>4. CASE x \notin S /\ x \notin T
  <2>1. S = T
    BY <1>4
  <2>. QED
    BY <1>0, <1>4, <2>1
<1>. QED
  BY <1>1, <1>2, <1>3, <1>4

\* What a step of one handler does to the counts.
LEMMA OneHandler ==
    ASSUME HandlersKnow, NEW s \in Slots, NEW h, NEW op,
           handler' = [handler EXCEPT ![s] = h]
    PROVE  /\ Cardinality(Unsubmitted') + Waiting(handler[s])
                  = Cardinality(Unsubmitted) + Waiting(h)
           /\ Cardinality(Carrying(op)') + Carried(handler[s], op)
                  = Cardinality(Carrying(op)) + Carried(h, op)
<1>1. handler'[s] = h /\ \A q \in Slots \ {s} : handler'[q] = handler[q]
  BY DEF HandlersKnow
<1>2. /\ Unsubmitted' \subseteq Unsubmitted \union {s}
      /\ Unsubmitted \subseteq Unsubmitted' \union {s}
      /\ s \in Unsubmitted <=> Waiting(handler[s]) = 1
      /\ s \in Unsubmitted' <=> Waiting(h) = 1
  BY <1>1 DEF Unsubmitted, Waiting
<1>3. /\ Carrying(op)' \subseteq Carrying(op) \union {s}
      /\ Carrying(op) \subseteq Carrying(op)' \union {s}
      /\ s \in Carrying(op) <=> Carries(handler[s], op)
      /\ s \in Carrying(op)' <=> Carries(h, op)
  BY <1>1 DEF Carrying, Carries
<1>4. Waiting(h) \in {0, 1} /\ Waiting(handler[s]) \in {0, 1}
  BY DEF Waiting
<1>5. Cardinality(Unsubmitted') + Waiting(handler[s]) = Cardinality(Unsubmitted) + Waiting(h)
  BY <1>2, <1>4, UnsubmittedIsFinite, Recount
<1>6. Cardinality(Carrying(op)') + Carried(handler[s], op)
          = Cardinality(Carrying(op)) + Carried(h, op)
  BY <1>3, CarryingIsFinite, Recount DEF Carried
<1>. QED
  BY <1>5, <1>6

\* One more transaction for its operation.
LEMMA OneMoreSent ==
    ASSUME txs \in Seq(TxRecord), NEW T \in TxRecord, txs' = Append(txs, T), NEW op
    PROVE  /\ txs' \in Seq(TxRecord) /\ Len(txs') = Len(txs) + 1
           /\ DOMAIN txs \subseteq DOMAIN txs' /\ Len(txs') \in DOMAIN txs'
           /\ Cardinality(Sent(op)') = Cardinality(Sent(op)) + (IF T.op = op THEN 1 ELSE 0)
<1>1. /\ txs' \in Seq(TxRecord) /\ Len(txs') = Len(txs) + 1 /\ Len(txs) \in Nat
      /\ DOMAIN txs = 1..Len(txs) /\ DOMAIN txs' = 1..(Len(txs) + 1)
      /\ txs'[Len(txs) + 1] = T /\ \A i \in DOMAIN txs : txs'[i] = txs[i]
  OBVIOUS
<1>2. /\ Sent(op)' \subseteq Sent(op) \union {Len(txs) + 1}
      /\ Sent(op) \subseteq Sent(op)' \union {Len(txs) + 1}
      /\ Len(txs) + 1 \notin Sent(op)
      /\ Len(txs) + 1 \in Sent(op)' <=> T.op = op
  BY <1>1 DEF Sent
<1>3. Cardinality(Sent(op)') = Cardinality(Sent(op)) + (IF T.op = op THEN 1 ELSE 0)
  <2>1. IsFiniteSet(Sent(op)) /\ Cardinality(Sent(op)) \in Nat
    BY SentIsFinite
  <2>2. Cardinality(Sent(op)') + (IF Len(txs) + 1 \in Sent(op) THEN 1 ELSE 0)
            = Cardinality(Sent(op)) + (IF Len(txs) + 1 \in Sent(op)' THEN 1 ELSE 0)
    <3>. DEFINE x == Len(txs) + 1
    <3>1. Sent(op)' \subseteq Sent(op) \union {x} /\ Sent(op) \subseteq Sent(op)' \union {x}
      BY <1>2
    <3>. HIDE DEF x
    <3>2. Cardinality(Sent(op)') + (IF x \in Sent(op) THEN 1 ELSE 0)
              = Cardinality(Sent(op)) + (IF x \in Sent(op)' THEN 1 ELSE 0)
      BY <2>1, <3>1, Recount
    <3>. QED
      BY <3>2 DEF x
  <2>3. Cardinality(Sent(op)') \in Nat
    <3>1. IsFiniteSet(Sent(op) \union {Len(txs) + 1})
      BY <2>1, FS_AddElement
    <3>. QED
      BY <1>2, <3>1, FS_Subset, FS_CardinalityType
  <2>. QED
    BY <1>2, <2>1, <2>2, <2>3
<1>. QED
  BY <1>1, <1>3

-----------------------------------------------------------------------------
(* Steps *)

\* A handler's step keeps the invariant when the slot's new content knows what it should
\* and takes no more than it finds.
LEMMA HandlerStep ==
    ASSUME PageInv, NEW s \in Slots, NEW h \in Handler \union {None},
           handler' = [handler EXCEPT ![s] = h],
           Typed', DOMAIN txs \subseteq DOMAIN txs', Knows(h, DOMAIN txs'),
           Len(txs') + Cardinality(Unsubmitted) + Waiting(h) <= MaxTxs + Waiting(handler[s]),
           \A op \in Ops :
               mirrors'[op] + Carried(h, op) + Remembered(context', op) + Cardinality(Sent(op))
                   <= mirrors[op] + Carried(handler[s], op) + Remembered(context, op)
                          + Cardinality(Sent(op)')
    PROVE  PageInv'
<1>0. /\ HandlersKnow /\ txs \in Seq(TxRecord) /\ txs' \in Seq(TxRecord)
      /\ mirrors \in [Ops -> Nat] /\ mirrors' \in [Ops -> Nat]
      /\ MaxTxs \in Nat /\ Len(txs') \in Nat
  BY PageAssumption DEF PageInv, Typed
<1>1. HandlersKnow'
  <2>1. /\ handler' \in [Slots -> Handler \union {None}] /\ handler'[s] = h
        /\ \A q \in Slots \ {s} : handler'[q] = handler[q]
    BY <1>0 DEF HandlersKnow
  <2>2. \A q \in Slots : Knows(handler'[q], DOMAIN txs')
    BY <1>0, <2>1 DEF HandlersKnow, Knows
  <2>. QED
    BY <2>1, <2>2 DEF HandlersKnow
<1>2. WithinBound'
  <2>1. Cardinality(Unsubmitted') + Waiting(handler[s]) = Cardinality(Unsubmitted) + Waiting(h)
    BY <1>0, OneHandler
  <2>2. Waiting(h) \in {0, 1} /\ Waiting(handler[s]) \in {0, 1}
    BY DEF Waiting
  <2>3. Len(txs') + Cardinality(Unsubmitted') <= MaxTxs
    BY <1>0, <2>1, <2>2, UnsubmittedIsFinite
  <2>. QED
    BY <2>3 DEF WithinBound
<1>3. Accounted'
  <2>1. ASSUME NEW op \in Ops
        PROVE  mirrors'[op] + Cardinality(Carrying(op)') + Remembered(context', op)
                   <= Cardinality(Sent(op)')
    <3>1. Cardinality(Carrying(op)') + Carried(handler[s], op)
              = Cardinality(Carrying(op)) + Carried(h, op)
      BY <1>0, OneHandler
    <3>2. /\ Carried(h, op) \in Nat /\ Carried(handler[s], op) \in Nat
          /\ Remembered(context, op) \in Nat /\ Remembered(context', op) \in Nat
      BY DEF Carried, Remembered
    <3>3. /\ mirrors[op] \in Nat /\ mirrors'[op] \in Nat
          /\ Cardinality(Sent(op)) \in Nat
      BY <1>0, SentIsFinite
    <3>4. Cardinality(Sent(op)') \in Nat
      <4>1. Sent(op)' \subseteq 1..Len(txs')
        BY <1>0 DEF Sent
      <4>2. ASSUME NEW n \in Nat PROVE IsFiniteSet(1..n)
        BY FS_Interval
      <4>. QED
        BY <1>0, <4>1, <4>2, FS_Subset, FS_CardinalityType
    <3>5. mirrors[op] + Cardinality(Carrying(op)) + Remembered(context, op)
              <= Cardinality(Sent(op))
      BY DEF PageInv, Accounted
    <3>6. Cardinality(Carrying(op)) \in Nat /\ Cardinality(Carrying(op)') \in Nat
      BY CarryingIsFinite
    <3>7. mirrors'[op] + Carried(h, op) + Remembered(context', op) + Cardinality(Sent(op))
              <= mirrors[op] + Carried(handler[s], op) + Remembered(context, op)
                     + Cardinality(Sent(op)')
      OBVIOUS
    <3>. DEFINE m == mirrors[op]                 m2 == mirrors'[op]
                c == Cardinality(Carrying(op))   c2 == Cardinality(Carrying(op)')
                r == Remembered(context, op)     r2 == Remembered(context', op)
                n == Cardinality(Sent(op))       n2 == Cardinality(Sent(op)')
                k == Carried(handler[s], op)     k2 == Carried(h, op)
    <3>8. /\ m \in Nat /\ c \in Nat /\ r \in Nat /\ n \in Nat /\ k \in Nat
          /\ m2 \in Nat /\ c2 \in Nat /\ r2 \in Nat /\ n2 \in Nat /\ k2 \in Nat
      BY <3>2, <3>3, <3>4, <3>6
    <3>9. m + c + r <= n /\ c2 + k = c + k2 /\ m2 + k2 + r2 + n <= m + k + r + n2
      BY <3>1, <3>5, <3>7
    <3>10. m2 + c2 + r2 <= n2
      <4>. HIDE DEF m, c, r, n, k, m2, c2, r2, n2, k2
      <4>. QED
        BY <3>8, <3>9
    <3>. QED
      BY <3>10
  <2>. QED
    BY <2>1 DEF Accounted
<1>. QED
  BY <1>1, <1>2, <1>3 DEF PageInv

\* Most steps submit nothing: then only mirrors and what is remembered count.
LEMMA QuietStep ==
    ASSUME PageInv, NEW s \in Slots, NEW h \in Handler \union {None},
           handler' = [handler EXCEPT ![s] = h], txs' = txs,
           Typed', Knows(h, DOMAIN txs), Waiting(h) <= Waiting(handler[s]),
           \A op \in Ops :
               mirrors'[op] + Carried(h, op) + Remembered(context', op)
                   <= mirrors[op] + Carried(handler[s], op) + Remembered(context, op)
    PROVE  PageInv'
<1>0. /\ txs \in Seq(TxRecord) /\ Len(txs) \in Nat /\ MaxTxs \in Nat
      /\ mirrors \in [Ops -> Nat] /\ mirrors' \in [Ops -> Nat]
  BY PageAssumption DEF PageInv, Typed
<1>1. Len(txs') + Cardinality(Unsubmitted) + Waiting(h) <= MaxTxs + Waiting(handler[s])
  <2>1. Waiting(h) \in {0, 1} /\ Waiting(handler[s]) \in {0, 1}
    BY DEF Waiting
  <2>2. Len(txs) + Cardinality(Unsubmitted) <= MaxTxs
    BY DEF PageInv, WithinBound
  <2>. QED
    BY <1>0, <2>1, <2>2, UnsubmittedIsFinite
<1>2. ASSUME NEW op \in Ops
      PROVE  mirrors'[op] + Carried(h, op) + Remembered(context', op) + Cardinality(Sent(op))
                 <= mirrors[op] + Carried(handler[s], op) + Remembered(context, op)
                        + Cardinality(Sent(op)')
  <2>1. Sent(op)' = Sent(op)
    BY DEF Sent
  <2>2. /\ Carried(h, op) \in {0, 1} /\ Carried(handler[s], op) \in {0, 1}
        /\ Remembered(context, op) \in {0, 1} /\ Remembered(context', op) \in {0, 1}
        /\ Cardinality(Sent(op)) \in Nat /\ mirrors[op] \in Nat /\ mirrors'[op] \in Nat
    BY <1>0, SentIsFinite DEF Carried, Remembered
  <2>. QED
    BY <2>1, <2>2
<1>. QED
  BY <1>1, <1>2, HandlerStep

LEMMA ShowType ==
    ASSUME page \in PageRecord,
           NEW state \in {"IDLE", "COMPLETE"} \union Processing \union Failures,
           Show(state)
    PROVE  page' \in PageRecord /\ page'.state = state
  BY DEF Show, PageRecord

LEMMA ShowHashType ==
    ASSUME page \in PageRecord, NEW hash \in (1..MaxTxs) \union {None},
           NEW state \in {"IDLE", "COMPLETE"} \union Processing \union Failures,
           ShowWithHash(state, hash)
    PROVE  page' \in PageRecord /\ page'.state = state /\ page'.hash = hash
  BY DEF ShowWithHash, PageRecord

LEMMA HashesKnown ==
    ASSUME PageInv
    PROVE  DOMAIN txs \subseteq 1..MaxTxs /\ Len(txs) \in Nat /\ txs \in Seq(TxRecord)
<1>1. txs \in Seq(TxRecord) /\ Len(txs) \in Nat /\ DOMAIN txs = 1..Len(txs)
  BY DEF PageInv, Typed
<1>2. Len(txs) <= MaxTxs /\ MaxTxs \in Nat
  BY <1>1, UnsubmittedIsFinite, PageAssumption DEF PageInv, WithinBound
<1>. QED
  BY <1>1, <1>2

\* What the handler of a slot holds at a stage.
LEMMA Held ==
    ASSUME PageInv, NEW s \in Slots, NEW stage, At(s, stage)
    PROVE  /\ handler[s] \in Handler /\ handler[s] # None /\ handler[s].stage = stage
           /\ stage # "recheck" => handler[s].op \in Ops
           /\ stage \in Before => handler[s].tx = None
           /\ stage \notin Before =>
                 handler[s].tx \in DOMAIN txs /\ handler[s].tx \in 1..MaxTxs
<1>1. Knows(handler[s], DOMAIN txs) /\ handler[s] # None /\ handler[s].stage = stage
  BY DEF PageInv, HandlersKnow, At
<1>. QED
  BY <1>1, HashesKnown DEF Knows

LEMMA NoneHolds ==
    /\ Waiting(None) = 0
    /\ \A op : Carried(None, op) = 0
    /\ \A known : Knows(None, known)
    /\ \A op \in Ops : Remembered(None, op) = 0
  BY NoneAssumption DEF Waiting, Carried, Carries, Knows, Remembered

LEMMA CountTypes ==
    /\ \A h : Waiting(h) \in {0, 1}
    /\ \A h, op : Carried(h, op) \in {0, 1}
    /\ \A kept, op : Remembered(kept, op) \in {0, 1}
  BY DEF Waiting, Carried, Remembered

LEMMA BeginStep ==
    ASSUME PageInv, NEW s \in Slots, NEW op \in Ops, Begin(s, op)
    PROVE  PageInv'
<1>. DEFINE stage == IF page.name = "upload" THEN "prepare" ELSE "sequence"
            h == [stage |-> stage, op |-> op, tx |-> None, attempt |-> 0,
                  status |-> "PENDING"]
<1>1. h \in Handler /\ h.stage = stage /\ h.op = op /\ h.tx = None
  BY PageAssumption DEF Handler
<1>2. /\ handler' = [handler EXCEPT ![s] = h] /\ handler[s] = None
      /\ Len(txs) + Cardinality(Unsubmitted) < MaxTxs
      /\ UNCHANGED <<listed, txs, mirrors>> /\ context' = None /\ processing' = op.id
      /\ op.id \in listed
      /\ ShowWithHash(IF page.name = "upload" THEN "PREPARING" ELSE "SIMULATING", None)
  BY DEF Begin
<1>. HIDE DEF h
<1>3. page' \in PageRecord /\ page'.state # "TIMEOUT"
  <2>1. PICK state \in {"PREPARING", "SIMULATING"} : ShowWithHash(state, None)
    BY <1>2
  <2>. QED
    BY <2>1, ShowHashType DEF PageInv, Typed, Processing
<1>4. Typed'
  BY <1>2, <1>3 DEF PageInv, Typed
<1>5. Knows(h, DOMAIN txs') /\ \A o \in Ops : Carried(h, o) = 0
  BY <1>1 DEF Knows, Before, Carried, Carries, Underway
<1>6. Len(txs') + Cardinality(Unsubmitted) + Waiting(h) <= MaxTxs + Waiting(handler[s])
  BY <1>2, NoneHolds, CountTypes, UnsubmittedIsFinite, HashesKnown, PageAssumption
<1>7. ASSUME NEW o \in Ops
      PROVE  mirrors'[o] + Carried(h, o) + Remembered(context', o) + Cardinality(Sent(o))
                 <= mirrors[o] + Carried(handler[s], o) + Remembered(context, o)
                        + Cardinality(Sent(o)')
  <2>1. Sent(o)' = Sent(o) /\ mirrors' = mirrors
    BY <1>2 DEF Sent
  <2>2. mirrors[o] \in Nat /\ Cardinality(Sent(o)) \in Nat
    BY HashesKnown, SentIsFinite DEF PageInv, Typed
  <2>. QED
    BY <1>2, <1>5, <2>1, <2>2, NoneHolds, CountTypes
<1>. QED
  BY <1>1, <1>2, <1>4, <1>5, <1>6, <1>7, HandlerStep

\* A handler goes on before its transaction.
LEMMA ProceedStep ==
    ASSUME PageInv, NEW s \in Slots, Proceed(s)
    PROVE  PageInv'
<1>1. PICK stage \in Before :
         /\ At(s, stage)
         /\ \E next \in Before, state \in Processing : GoTo(s, next) /\ Show(state)
  BY DEF Proceed, Before, Processing
<1>2. PICK next \in Before, state \in Processing : GoTo(s, next) /\ Show(state)
  BY <1>1
<1>3. UNCHANGED <<listed, processing, context, txs, mirrors>>
  BY DEF Proceed
<1>. DEFINE h == [handler[s] EXCEPT !.stage = next]
<1>4. /\ handler[s] \in Handler /\ handler[s] # None /\ handler[s].stage \in Before
      /\ handler[s].op \in Ops /\ handler[s].tx = None
  BY <1>1, Held DEF Before
<1>5. h \in Handler /\ h.stage = next /\ h.op = handler[s].op /\ h.tx = None
  BY <1>4 DEF Handler, Before
<1>6. handler' = [handler EXCEPT ![s] = h]
  BY <1>2 DEF GoTo, PageInv, HandlersKnow
<1>. HIDE DEF h
<1>7. Typed'
  <2>1. page' \in PageRecord /\ page'.state # "TIMEOUT"
    BY <1>2, ShowType DEF PageInv, Typed, Processing
  <2>. QED
    BY <1>3, <2>1 DEF PageInv, Typed
<1>8. /\ Knows(h, DOMAIN txs) /\ Waiting(h) <= Waiting(handler[s])
      /\ \A o \in Ops : Carried(h, o) = 0 /\ Carried(handler[s], o) = 0
  BY <1>4, <1>5 DEF Knows, Before, Carried, Carries, Underway, Waiting
<1>9. \A o \in Ops : mirrors'[o] + Carried(h, o) + Remembered(context', o)
                         <= mirrors[o] + Carried(handler[s], o) + Remembered(context, o)
  BY <1>3, <1>8, CountTypes DEF PageInv, Typed
<1>. QED
  BY <1>3, <1>5, <1>6, <1>7, <1>8, <1>9, QuietStep

\* A handler returns, and leaves nothing, or less than it took.
LEMMA LeaveStep ==
    ASSUME PageInv, NEW s \in Slots, handler' = [handler EXCEPT ![s] = None],
           txs' = txs, Typed',
           \A op \in Ops :
               mirrors'[op] + Remembered(context', op)
                   <= mirrors[op] + Carried(handler[s], op) + Remembered(context, op)
    PROVE  PageInv'
<1>1. \A op \in Ops : mirrors'[op] + Carried(None, op) + Remembered(context', op)
                         <= mirrors[op] + Carried(handler[s], op) + Remembered(context, op)
  BY NoneHolds, CountTypes DEF Typed, PageInv
<1>2. Waiting(None) <= Waiting(handler[s]) /\ Knows(None, DOMAIN txs)
  BY NoneHolds, CountTypes
<1>. QED
  BY <1>1, <1>2, QuietStep

\* It is so when nothing is mirrored and nothing remembered that was not before.
LEMMA NothingTaken ==
    ASSUME PageInv, mirrors' = mirrors, NEW s \in Slots,
           context' = context \/ context' = None
    PROVE  \A op \in Ops :
               mirrors'[op] + Remembered(context', op)
                   <= mirrors[op] + Carried(handler[s], op) + Remembered(context, op)
<1>. SUFFICES ASSUME NEW op \in Ops
              PROVE  mirrors'[op] + Remembered(context', op)
                         <= mirrors[op] + Carried(handler[s], op) + Remembered(context, op)
  OBVIOUS
<1>1. mirrors[op] \in Nat
  BY DEF PageInv, Typed
<1>2. Remembered(context', op) <= Remembered(context, op)
  BY NoneHolds, CountTypes
<1>. QED
  BY <1>1, <1>2, CountTypes

LEMMA SubmitHasRoom ==
    ASSUME PageInv, NEW s \in Slots, At(s, "submit")
    PROVE  /\ Len(txs) < MaxTxs /\ Waiting(handler[s]) = 1
           /\ \A op : Carried(handler[s], op) = 0
<1>1. handler[s].tx = None /\ handler[s] # None /\ handler[s].stage = "submit"
  BY Held DEF Before
<1>2. s \in Unsubmitted
  BY <1>1 DEF Unsubmitted
<1>3. Cardinality(Unsubmitted) # 0
  BY <1>2, UnsubmittedIsFinite, FS_EmptySet
<1>4. Len(txs) < MaxTxs
  BY <1>3, UnsubmittedIsFinite, HashesKnown, PageAssumption DEF PageInv, WithinBound
<1>. QED
  BY <1>1, <1>4 DEF Waiting, Carried, Carries, Underway

\* A transaction that reaches the network, with its sender in slot content h afterwards.
LEMMA SubmissionStep ==
    ASSUME PageInv, NEW s \in Slots, At(s, "submit"), NEW fate \in Fates,
           txs' = Append(txs, [op |-> handler[s].op, fate |-> fate]),
           NEW h \in Handler \union {None}, handler' = [handler EXCEPT ![s] = h],
           Knows(h, DOMAIN txs'), Waiting(h) = 0,
           \A op \in Ops : Carries(h, op) => op = handler[s].op,
           Typed', context' = context, mirrors' = mirrors
    PROVE  PageInv'
<1>. DEFINE T == [op |-> handler[s].op, fate |-> fate]
<1>1. T \in TxRecord /\ T.op = handler[s].op
  BY Held DEF TxRecord, Before
<1>2. txs \in Seq(TxRecord) /\ txs' = Append(txs, T)
  BY DEF PageInv, Typed
<1>. HIDE DEF T
<1>3. DOMAIN txs \subseteq DOMAIN txs' /\ Len(txs') = Len(txs) + 1
  BY <1>1, <1>2, OneMoreSent
<1>4. Len(txs') + Cardinality(Unsubmitted) + Waiting(h) <= MaxTxs + Waiting(handler[s])
  BY <1>3, SubmitHasRoom, UnsubmittedIsFinite, HashesKnown, PageAssumption
     DEF PageInv, WithinBound
<1>5. ASSUME NEW op \in Ops
      PROVE  mirrors'[op] + Carried(h, op) + Remembered(context', op) + Cardinality(Sent(op))
                 <= mirrors[op] + Carried(handler[s], op) + Remembered(context, op)
                        + Cardinality(Sent(op)')
  <2>1. Cardinality(Sent(op)') = Cardinality(Sent(op)) + (IF T.op = op THEN 1 ELSE 0)
    BY <1>1, <1>2, OneMoreSent
  <2>2. Carried(h, op) <= (IF T.op = op THEN 1 ELSE 0)
    BY <1>1 DEF Carried
  <2>3. mirrors[op] \in Nat /\ Cardinality(Sent(op)) \in Nat /\ Carried(handler[s], op) = 0
    BY HashesKnown, SentIsFinite, SubmitHasRoom DEF PageInv, Typed
  <2>. QED
    BY <2>1, <2>2, <2>3, CountTypes
<1>. QED
  BY <1>3, <1>4, <1>5, HandlerStep

LEMMA FailStep ==
    ASSUME PageInv, NEW s \in Slots, Fail(s)
    PROVE  PageInv'
<1>1. /\ handler' = [handler EXCEPT ![s] = None] /\ processing' = None
      /\ UNCHANGED <<listed, context, mirrors>>
  BY DEF Fail, Finish
<1>2. page' \in PageRecord /\ page'.state # "TIMEOUT"
  <2>1. page' \in PageRecord /\ page'.state = "RPC_ERROR"
    BY ShowType DEF Fail, PageInv, Typed, Failures
  <2>. QED
    BY <2>1
<1>3. CASE UNCHANGED txs
  <2>1. Typed'
    BY <1>1, <1>2, <1>3 DEF PageInv, Typed
  <2>. QED
    BY <1>1, <1>3, <2>1, NothingTaken, LeaveStep
<1>4. CASE At(s, "submit") /\ txs' = Append(txs, [op |-> handler[s].op, fate |-> "sent"])
  <2>1. [op |-> handler[s].op, fate |-> "sent"] \in TxRecord
    BY <1>4, Held DEF TxRecord, Fates, Before
  <2>2. txs' \in Seq(TxRecord)
    BY <1>4, <2>1 DEF PageInv, Typed
  <2>3. Typed'
    BY <1>1, <1>2, <2>2 DEF PageInv, Typed
  <2>4. /\ None \in Handler \union {None}
        /\ \A op \in Ops : Carries(None, op) => op = handler[s].op
    BY DEF Carries
  <2>5. Knows(None, DOMAIN txs') /\ Waiting(None) = 0
    BY NoneHolds
  <2>6. context' = context /\ mirrors' = mirrors /\ "sent" \in Fates
    BY <1>1 DEF Fates
  <2>. QED
    BY <1>1, <1>4, <2>3, <2>4, <2>5, <2>6, SubmissionStep
<1>. QED
  BY <1>3, <1>4 DEF Fail

LEMMA SubmitStep ==
    ASSUME PageInv, NEW s \in Slots, NEW answer \in SendAnswers, Submit(s, answer)
    PROVE  PageInv'
<1>. DEFINE fate == IF answer = "PENDING" THEN "sent" ELSE "refused"
<1>1. At(s, "submit") /\ txs' = Append(txs, [op |-> handler[s].op, fate |-> fate])
  BY DEF Submit
<1>2. UNCHANGED <<listed, processing, context, mirrors>> /\ fate \in Fates
  BY DEF Submit, Fates
<1>. HIDE DEF fate
<1>3. handler[s] \in Handler /\ handler[s] # None /\ handler[s].op \in Ops
  BY <1>1, Held DEF Before
<1>4. /\ txs' \in Seq(TxRecord) /\ Len(txs') \in DOMAIN txs' /\ Len(txs') \in 1..MaxTxs
  <2>1. [op |-> handler[s].op, fate |-> fate] \in TxRecord
    BY <1>2, <1>3 DEF TxRecord
  <2>2. txs' \in Seq(TxRecord) /\ Len(txs') = Len(txs) + 1 /\ Len(txs') \in DOMAIN txs'
    BY <1>1, <2>1, OneMoreSent DEF PageInv, Typed
  <2>. QED
    BY <1>1, <2>2, SubmitHasRoom, HashesKnown, PageAssumption
<1>5. PICK state \in {"PENDING", "DATABASE_SYNC"}, hash \in {page.hash, Len(txs')} :
         ShowWithHash(state, hash)
  BY DEF Submit, Show, Confirm, ShowWithHash, PageInv, Typed, PageRecord
<1>6. Typed'
  <2>1. page' \in PageRecord /\ page'.state # "TIMEOUT"
    BY <1>4, <1>5, ShowHashType DEF PageInv, Typed, PageRecord, Processing
  <2>. QED
    BY <1>2, <1>4, <2>1 DEF PageInv, Typed
<1>7. PICK stage \in {"poll", "mirror"}, attempt \in 0..MaxPolls :
         handler' = [handler EXCEPT ![s] = [handler[s] EXCEPT
             !.stage = stage, !.tx = Len(txs'), !.attempt = attempt]]
  <2>1. handler[s].attempt \in 0..MaxPolls /\ 1 \in 0..MaxPolls
    BY <1>3, PageAssumption DEF Handler
  <2>2. handler \in [Slots -> Handler \union {None}]
    BY DEF PageInv, HandlersKnow
  <2>3. CASE handler' = [handler EXCEPT ![s].stage = "poll", ![s].tx = Len(txs'),
                                        ![s].attempt = 1]
    <3>1. handler' = [handler EXCEPT ![s] = [handler[s] EXCEPT
                          !.stage = "poll", !.tx = Len(txs'), !.attempt = 1]]
      BY <1>3, <2>2, <2>3
    <3>. QED
      BY <2>1, <3>1
  <2>4. CASE handler' = [handler EXCEPT ![s].stage = "mirror", ![s].tx = Len(txs')]
    <3>. DEFINE a == handler[s].attempt
    <3>1. [handler[s] EXCEPT !.stage = "mirror", !.tx = Len(txs')]
              = [handler[s] EXCEPT !.stage = "mirror", !.tx = Len(txs'), !.attempt = a]
      BY <1>3 DEF Handler
    <3>2. handler' = [handler EXCEPT ![s] = [handler[s] EXCEPT
                          !.stage = "mirror", !.tx = Len(txs')]]
      BY <1>3, <2>2, <2>4
    <3>3. handler' = [handler EXCEPT ![s] = [handler[s] EXCEPT
                          !.stage = "mirror", !.tx = Len(txs'), !.attempt = a]]
      BY <3>1, <3>2
    <3>. QED
      BY <2>1, <3>3
  <2>. QED
    BY <2>3, <2>4 DEF Submit, Confirm
<1>. DEFINE h == [handler[s] EXCEPT !.stage = stage, !.tx = Len(txs'), !.attempt = attempt]
<1>8. /\ h \in Handler /\ h.stage = stage /\ h.tx = Len(txs') /\ h.op = handler[s].op
  BY <1>3, <1>4 DEF Handler
<1>. HIDE DEF h
<1>9. Knows(h, DOMAIN txs') /\ Waiting(h) = 0
  BY <1>3, <1>4, <1>8, NoneAssumption DEF Knows, Waiting, Before
<1>10. \A op \in Ops : Carries(h, op) => op = handler[s].op
  BY <1>8 DEF Carries
<1>11. handler' = [handler EXCEPT ![s] = h]
  BY <1>7 DEF h
<1>. QED
  BY <1>1, <1>2, <1>6, <1>8, <1>9, <1>10, <1>11, SubmissionStep

\* Polling keeps what the handler holds.
LEMMA PollStep ==
    ASSUME PageInv, NEW s \in Slots, At(s, "poll"), UNCHANGED <<context, txs, mirrors>>, Typed',
           NEW h \in Handler, handler' = [handler EXCEPT ![s] = h],
           h.stage \in {"poll", "mirror"}, h.op = handler[s].op, h.tx = handler[s].tx
    PROVE  PageInv'
<1>1. /\ handler[s] \in Handler /\ handler[s] # None /\ handler[s].stage = "poll"
      /\ handler[s].op \in Ops /\ handler[s].tx \in DOMAIN txs /\ handler[s].tx \in 1..MaxTxs
  BY Held DEF Before
<1>2. Knows(h, DOMAIN txs) /\ Waiting(h) = 0
  BY <1>1, NoneAssumption DEF Knows, Waiting, Before
<1>3. \A op \in Ops : Carried(h, op) <= Carried(handler[s], op)
  BY <1>1 DEF Carried, Carries, Underway
<1>4. ASSUME NEW op \in Ops
      PROVE  mirrors'[op] + Carried(h, op) + Remembered(context', op)
                 <= mirrors[op] + Carried(handler[s], op) + Remembered(context, op)
  BY <1>3, CountTypes DEF PageInv, Typed
<1>5. Waiting(h) <= Waiting(handler[s])
  BY <1>2, CountTypes
<1>. QED
  BY <1>2, <1>4, <1>5, QuietStep

LEMMA PollAgainStep ==
    ASSUME PageInv, NEW s \in Slots, PollAgain(s)
    PROVE  PageInv'
<1>1. PICK status \in Heard(s) \ {"SUCCESS", "FAILED"} :
         handler' = [handler EXCEPT ![s].attempt = @ + 1, ![s].status = status]
  BY DEF PollAgain
<1>2. /\ handler[s] \in Handler /\ At(s, "poll") /\ handler[s].attempt < MaxPolls
      /\ UNCHANGED <<listed, processing, context, txs, mirrors>> /\ Show("PENDING")
  BY Held DEF PollAgain
<1>. DEFINE h == [handler[s] EXCEPT !.attempt = @ + 1, !.status = status]
<1>3. status \in {"PENDING", MissAnswer}
  BY <1>1, <1>2 DEF Heard, Handler
<1>4. handler[s].attempt + 1 \in 0..MaxPolls
  BY <1>2, PageAssumption DEF Handler
<1>5. /\ h \in Handler /\ h.stage = handler[s].stage /\ h.op = handler[s].op
      /\ h.tx = handler[s].tx
  BY <1>2, <1>3, <1>4 DEF Handler
<1>6. handler' = [handler EXCEPT ![s] = h]
  BY <1>1 DEF PageInv, HandlersKnow
<1>. HIDE DEF h
<1>7. Typed'
  <2>1. page' \in PageRecord /\ page'.state = "PENDING"
    BY <1>2, ShowType DEF PageInv, Typed, Processing
  <2>. QED
    BY <1>2, <2>1 DEF PageInv, Typed
<1>8. h.stage \in {"poll", "mirror"}
  BY <1>2, <1>5 DEF At
<1>. QED
  BY <1>2, <1>5, <1>6, <1>7, <1>8, PollStep

LEMMA PollSucceedsStep ==
    ASSUME PageInv, NEW s \in Slots, PollSucceeds(s)
    PROVE  PageInv'
<1>1. /\ At(s, "poll") /\ Confirm(s, handler[s].tx)
      /\ UNCHANGED <<listed, processing, context, txs, mirrors>>
  BY DEF PollSucceeds
<1>2. handler[s] \in Handler /\ handler[s].tx \in 1..MaxTxs
  BY <1>1, Held DEF Before
<1>. DEFINE h == [handler[s] EXCEPT !.stage = "mirror", !.tx = handler[s].tx]
<1>3. /\ h \in Handler /\ h.stage = "mirror" /\ h.op = handler[s].op /\ h.tx = handler[s].tx
  BY <1>2 DEF Handler
<1>4. handler' = [handler EXCEPT ![s] = h]
  BY <1>1 DEF Confirm, PageInv, HandlersKnow
<1>. HIDE DEF h
<1>5. Typed'
  <2>1. page' \in PageRecord /\ page'.state = "DATABASE_SYNC"
    BY <1>1, <1>2, ShowHashType DEF Confirm, PageInv, Typed, Processing
  <2>. QED
    BY <1>1, <2>1 DEF PageInv, Typed
<1>. QED
  BY <1>1, <1>3, <1>4, <1>5, PollStep

LEMMA PollFailsStep ==
    ASSUME PageInv, NEW s \in Slots, PollFails(s)
    PROVE  PageInv'
<1>1. /\ handler' = [handler EXCEPT ![s] = None] /\ processing' = None
      /\ UNCHANGED <<listed, context, txs, mirrors>> /\ Show("RPC_ERROR")
  BY DEF PollFails, Finish
<1>2. Typed'
  <2>1. page' \in PageRecord /\ page'.state = "RPC_ERROR"
    BY <1>1, ShowType DEF PageInv, Typed, Failures
  <2>. QED
    BY <1>1, <2>1 DEF PageInv, Typed
<1>. QED
  BY <1>1, <1>2, NothingTaken, LeaveStep

\* What the handler was to mirror is remembered instead.
LEMMA PollTimesOutStep ==
    ASSUME PageInv, NEW s \in Slots, PollTimesOut(s)
    PROVE  PageInv'
<1>1. /\ handler' = [handler EXCEPT ![s] = None] /\ processing' = None
      /\ UNCHANGED <<listed, txs, mirrors>> /\ context' = handler[s].op
      /\ ShowWithHash("TIMEOUT", handler[s].tx) /\ At(s, "poll")
  BY DEF PollTimesOut, Finish
<1>2. /\ handler[s] # None /\ handler[s].stage = "poll" /\ handler[s].op \in Ops
      /\ handler[s].tx \in DOMAIN txs /\ handler[s].tx \in 1..MaxTxs
  BY <1>1, Held DEF Before
<1>3. Typed'
  <2>1. page' \in PageRecord /\ page'.hash = handler[s].tx
    BY <1>1, <1>2, ShowHashType DEF PageInv, Typed, Failures
  <2>. QED
    BY <1>1, <1>2, <2>1 DEF PageInv, Typed
<1>4. ASSUME NEW op \in Ops
      PROVE  mirrors'[op] + Remembered(context', op)
                 <= mirrors[op] + Carried(handler[s], op) + Remembered(context, op)
  <2>1. Remembered(context', op) = Carried(handler[s], op)
    BY <1>1, <1>2 DEF Remembered, Carried, Carries, Underway
  <2>2. mirrors' = mirrors /\ mirrors[op] \in Nat
    BY <1>1 DEF PageInv, Typed
  <2>. QED
    BY <2>1, <2>2, CountTypes
<1>. QED
  BY <1>1, <1>3, <1>4, LeaveStep

\* The mirror request, first or resumed, is what its handler carried.
LEMMA MirroredStep ==
    ASSUME PageInv, NEW s \in Slots, NEW stage \in {"mirror", "remirror"}, At(s, stage),
           handler' = [handler EXCEPT ![s] = None],
           Committed(handler[s].op) \/ UNCHANGED mirrors,
           page' \in PageRecord, page'.state # "TIMEOUT", listed' \subseteq Ids,
           processing' \in Ids \union {None}, UNCHANGED <<context, txs>>
    PROVE  PageInv'
<1>1. handler[s] # None /\ handler[s].stage = stage /\ handler[s].op \in Ops
  BY Held
<1>2. mirrors \in [Ops -> Nat]
  BY DEF PageInv, Typed
<1>3. /\ mirrors' \in [Ops -> Nat]
      /\ \A op \in Ops : mirrors'[op] <= mirrors[op] + Carried(handler[s], op)
  <2>1. CASE UNCHANGED mirrors
    BY <1>2, <2>1, CountTypes
  <2>2. CASE Committed(handler[s].op)
    <3>1. mirrors' = [mirrors EXCEPT ![handler[s].op] = @ + 1]
      BY <2>2 DEF Committed
    <3>2. Carried(handler[s], handler[s].op) = 1
      BY <1>1 DEF Carried, Carries, Underway
    <3>. QED
      BY <1>1, <1>2, <3>1, <3>2, CountTypes
  <2>. QED
    BY <2>1, <2>2
<1>4. Typed'
  BY <1>3 DEF PageInv, Typed
<1>5. ASSUME NEW op \in Ops
      PROVE  mirrors'[op] + Remembered(context', op)
                 <= mirrors[op] + Carried(handler[s], op) + Remembered(context, op)
  BY <1>2, <1>3, CountTypes
<1>. QED
  BY <1>4, <1>5, LeaveStep

LEMMA MirrorStep ==
    ASSUME PageInv, NEW s \in Slots, Mirror(s) \/ Remirror(s)
    PROVE  PageInv'
<1>1. PICK stage \in {"mirror", "remirror"} : At(s, stage)
  BY DEF Mirror, Remirror
<1>2. handler[s].tx \in 1..MaxTxs
  BY <1>1, Held DEF Before
<1>3. /\ handler' = [handler EXCEPT ![s] = None] /\ processing' \in {processing, None}
      /\ Committed(handler[s].op) \/ UNCHANGED mirrors
      /\ UNCHANGED <<context, txs>>
  BY DEF Mirror, Remirror, Finish, Leave, Complete, MirrorLost
<1>4. listed' \subseteq Ids
  BY DEF Mirror, Remirror, Complete, MirrorLost, PageInv, Typed
<1>5. page' \in PageRecord /\ page'.state # "TIMEOUT"
  <2>1. page \in PageRecord
    BY DEF PageInv, Typed
  <2>2. CASE ShowWithHash("COMPLETE", handler[s].tx)
    <3>1. page' \in PageRecord /\ page'.state = "COMPLETE"
      BY <1>2, <2>1, <2>2, ShowHashType
    <3>. QED
      BY <3>1
  <2>3. CASE ShowWithHash("DATABASE_SYNC_FAILED", handler[s].tx)
    <3>1. page' \in PageRecord /\ page'.state = "DATABASE_SYNC_FAILED"
      BY <1>2, <2>1, <2>3, ShowHashType DEF Failures
    <3>. QED
      BY <3>1
  <2>4. CASE Show("RPC_ERROR")
    <3>1. page' \in PageRecord /\ page'.state = "RPC_ERROR"
      BY <2>1, <2>4, ShowType DEF Failures
    <3>. QED
      BY <3>1
  <2>. QED
    BY <2>2, <2>3, <2>4 DEF Mirror, Remirror, Complete
<1>. QED
  BY <1>1, <1>3, <1>4, <1>5, MirroredStep DEF PageInv, Typed

LEMMA CheckAgainStep ==
    ASSUME PageInv, NEW s \in Slots, CheckAgain(s)
    PROVE  PageInv'
<1>. DEFINE h == [stage |-> "recheck", op |-> None, tx |-> page.hash, attempt |-> 0,
                  status |-> "PENDING"]
<1>1. /\ page.state = "TIMEOUT" /\ Show("PENDING") /\ handler' = [handler EXCEPT ![s] = h]
      /\ UNCHANGED <<listed, processing, context, txs, mirrors>>
  BY DEF CheckAgain
<1>2. page.hash \in DOMAIN txs /\ page.hash \in 1..MaxTxs
  BY <1>1, HashesKnown DEF PageInv, Typed
<1>3. h \in Handler /\ h.stage = "recheck" /\ h.tx = page.hash
  BY <1>2, PageAssumption DEF Handler
<1>. HIDE DEF h
<1>4. Typed'
  <2>1. page' \in PageRecord /\ page'.state = "PENDING"
    BY <1>1, ShowType DEF PageInv, Typed, Processing
  <2>. QED
    BY <1>1, <2>1 DEF PageInv, Typed
<1>5. /\ Knows(h, DOMAIN txs) /\ Waiting(h) = 0
      /\ \A op \in Ops : Carried(h, op) = 0
  BY <1>2, <1>3 DEF Knows, Waiting, Before, Carried, Carries, Underway
<1>6. Waiting(h) <= Waiting(handler[s])
  BY <1>5, CountTypes
<1>7. \A op \in Ops : mirrors'[op] + Carried(h, op) + Remembered(context', op)
                         <= mirrors[op] + Carried(handler[s], op) + Remembered(context, op)
  BY <1>1, <1>5, CountTypes DEF PageInv, Typed
<1>. QED
  BY <1>1, <1>3, <1>4, <1>5, <1>6, <1>7, QuietStep

\* What is remembered by now becomes what the handler carries.
LEMMA RecheckSucceedsStep ==
    ASSUME PageInv, NEW s \in Slots, RecheckSucceeds(s)
    PROVE  PageInv'
<1>1. /\ At(s, "recheck") /\ context' = None /\ UNCHANGED <<listed, txs, mirrors>>
      /\ UNCHANGED processing
  BY DEF RecheckSucceeds, Leave
<1>2. /\ handler[s] \in Handler /\ handler[s] # None /\ handler[s].stage = "recheck"
      /\ handler[s].tx \in DOMAIN txs /\ handler[s].tx \in 1..MaxTxs
  BY <1>1, Held DEF Before
<1>3. Typed'
  <2>1. PICK state \in {"COMPLETE", "DATABASE_SYNC"} : ShowWithHash(state, handler[s].tx)
    BY DEF RecheckSucceeds
  <2>2. page' \in PageRecord /\ page'.state = state
    BY <1>2, <2>1, ShowHashType DEF PageInv, Typed, Processing
  <2>. QED
    BY <1>1, <2>2 DEF PageInv, Typed
<1>4. CASE context = None
  <2>1. handler' = [handler EXCEPT ![s] = None]
    BY <1>4 DEF RecheckSucceeds, Leave
  <2>. QED
    BY <1>1, <1>3, <2>1, NothingTaken, LeaveStep
<1>5. CASE context # None
  <2>. DEFINE h == [handler[s] EXCEPT !.stage = "remirror", !.op = context]
  <2>1. context \in Ops /\ handler \in [Slots -> Handler \union {None}]
    BY <1>5 DEF PageInv, Typed, HandlersKnow
  <2>2. h \in Handler /\ h.stage = "remirror" /\ h.op = context /\ h.tx = handler[s].tx
    BY <1>2, <2>1 DEF Handler
  <2>3. handler' = [handler EXCEPT ![s] = h]
    BY <1>5, <2>1 DEF RecheckSucceeds
  <2>. HIDE DEF h
  <2>4. Knows(h, DOMAIN txs) /\ Waiting(h) = 0
    BY <1>2, <2>1, <2>2, NoneAssumption DEF Knows, Waiting, Before
  <2>5. Waiting(h) <= Waiting(handler[s])
    BY <2>4, CountTypes
  <2>6. ASSUME NEW op \in Ops
        PROVE  mirrors'[op] + Carried(h, op) + Remembered(context', op)
                   <= mirrors[op] + Carried(handler[s], op) + Remembered(context, op)
    <3>1. Carried(h, op) <= Remembered(context, op) /\ Remembered(context', op) = 0
      BY <1>1, <2>2, NoneHolds DEF Carried, Carries, Remembered
    <3>2. mirrors' = mirrors /\ mirrors[op] \in Nat
      BY <1>1 DEF PageInv, Typed
    <3>. QED
      BY <3>1, <3>2, CountTypes
  <2>. QED
    BY <1>1, <1>3, <2>2, <2>3, <2>4, <2>5, <2>6, QuietStep
<1>. QED
  BY <1>4, <1>5

LEMMA RecheckMissesStep ==
    ASSUME PageInv, NEW s \in Slots, RecheckMisses(s)
    PROVE  PageInv'
<1>1. /\ At(s, "recheck") /\ handler' = [handler EXCEPT ![s] = None]
      /\ UNCHANGED <<listed, processing, context, txs, mirrors>>
  BY DEF RecheckMisses, Leave
<1>2. handler[s].tx \in DOMAIN txs /\ handler[s].tx \in 1..MaxTxs
  BY <1>1, Held DEF Before
<1>3. page' \in PageRecord /\ (page'.state = "TIMEOUT" => page'.hash \in DOMAIN txs)
  <2>1. page \in PageRecord
    BY DEF PageInv, Typed
  <2>2. CASE Show("RPC_ERROR")
    <3>1. page' \in PageRecord /\ page'.state = "RPC_ERROR"
      BY <2>1, <2>2, ShowType DEF Failures
    <3>. QED
      BY <3>1
  <2>3. CASE ShowWithHash("TIMEOUT", handler[s].tx)
    BY <1>2, <2>1, <2>3, ShowHashType DEF Failures
  <2>. QED
    BY <2>2, <2>3 DEF RecheckMisses
<1>4. Typed'
  BY <1>1, <1>3 DEF PageInv, Typed
<1>. QED
  BY <1>1, <1>4, NothingTaken, LeaveStep

\* The handlers stay.
LEMMA NoHandlerMoves ==
    ASSUME PageInv, handler' = handler, UNCHANGED <<context, mirrors>>, Typed',
           DOMAIN txs' = DOMAIN txs, \A i \in DOMAIN txs : txs'[i].op = txs[i].op
    PROVE  PageInv'
<1>1. HandlersKnow'
  BY DEF PageInv, HandlersKnow
<1>2. Len(txs') = Len(txs)
  BY DEF PageInv, Typed
<1>3. Unsubmitted' = Unsubmitted
  BY DEF Unsubmitted
<1>4. WithinBound'
  BY <1>2, <1>3 DEF PageInv, WithinBound
<1>5. ASSUME NEW op PROVE Carrying(op)' = Carrying(op) /\ Sent(op)' = Sent(op)
  BY DEF Carrying, Sent
<1>6. Accounted'
  BY <1>5 DEF PageInv, Accounted
<1>. QED
  BY <1>1, <1>4, <1>6 DEF PageInv

LEMMA DismissStep ==
    ASSUME PageInv, Dismiss
    PROVE  PageInv'
<1>1. UNCHANGED <<listed, processing, context, handler, txs, mirrors>>
  BY DEF Dismiss
<1>2. page' \in PageRecord /\ page'.state = "IDLE"
  BY ShowHashType DEF Dismiss, PageInv, Typed
<1>3. Typed'
  BY <1>1, <1>2 DEF PageInv, Typed
<1>. QED
  BY <1>1, <1>3, NoHandlerMoves

LEMMA ApplyStep ==
    ASSUME PageInv, NEW tx \in DOMAIN txs, Apply(tx)
    PROVE  PageInv'
<1>0. txs \in Seq(TxRecord)
  BY DEF PageInv, Typed
<1>1. PICK fate \in {"SUCCESS", "FAILED"} : txs' = [txs EXCEPT ![tx].fate = fate]
  BY DEF Apply
<1>2. UNCHANGED <<page, listed, processing, context, handler, mirrors>>
  BY DEF Apply
<1>3. txs' = [txs EXCEPT ![tx] = [txs[tx] EXCEPT !.fate = fate]]
  BY <1>0, <1>1
<1>4. [txs[tx] EXCEPT !.fate = fate] \in TxRecord
      /\ [txs[tx] EXCEPT !.fate = fate].op = txs[tx].op
  <2>1. txs[tx] \in TxRecord
    BY <1>0
  <2>. QED
    BY <2>1 DEF TxRecord, Fates
<1>5. txs' \in Seq(TxRecord) /\ DOMAIN txs' = DOMAIN txs
  BY <1>0, <1>3, <1>4
<1>6. \A i \in DOMAIN txs : txs'[i].op = txs[i].op
  BY <1>0, <1>3, <1>4
<1>7. Typed'
  BY <1>2, <1>5 DEF PageInv, Typed
<1>. QED
  BY <1>2, <1>5, <1>6, <1>7, NoHandlerMoves

\* What a page that is loaded forgets.
AtRest ==
    /\ Typed
    /\ handler = [s \in Slots |-> None] /\ context = None
    /\ Len(txs) <= MaxTxs
    /\ \A op \in Ops : mirrors[op] <= Cardinality(Sent(op))

LEMMA NothingRuns == AtRest => PageInv
<1>. SUFFICES ASSUME AtRest PROVE PageInv
  OBVIOUS
<1>. USE DEF AtRest
<1>1. HandlersKnow
  BY DEF HandlersKnow, Knows
<1>2. Unsubmitted = {} /\ \A op : Carrying(op) = {}
  BY DEF Unsubmitted, Carrying, Carries
<1>3. WithinBound
  BY <1>2, FS_EmptySet DEF WithinBound, Typed
<1>4. Accounted
  <2>1. ASSUME NEW op \in Ops
        PROVE  mirrors[op] + Cardinality(Carrying(op)) + Remembered(context, op)
                   <= Cardinality(Sent(op))
    <3>1. Cardinality(Carrying(op)) = 0 /\ Remembered(context, op) = 0 /\ mirrors[op] \in Nat
      BY <1>2, FS_EmptySet, NoneHolds DEF Typed
    <3>. QED
      BY <3>1
  <2>. QED
    BY <2>1 DEF Accounted
<1>. QED
  BY <1>1, <1>3, <1>4 DEF PageInv

LEMMA MirrorsBounded ==
    ASSUME PageInv, NEW op \in Ops
    PROVE  mirrors[op] <= Cardinality(Sent(op)) /\ Cardinality(Sent(op)) \in Nat
<1>1. /\ mirrors[op] \in Nat /\ Cardinality(Sent(op)) \in Nat
      /\ Cardinality(Carrying(op)) \in Nat /\ Remembered(context, op) \in {0, 1}
  BY HashesKnown, SentIsFinite, CarryingIsFinite, CountTypes DEF PageInv, Typed
<1>2. mirrors[op] + Cardinality(Carrying(op)) + Remembered(context, op)
          <= Cardinality(Sent(op))
  BY DEF PageInv, Accounted
<1>. QED
  BY <1>1, <1>2

LEMMA LoadStep ==
    ASSUME PageInv, NEW name \in Pages, Load(name)
    PROVE  AtRest'
<1>1. /\ page' = [name |-> name, state |-> "IDLE", hash |-> None] /\ listed' \in Listings(name)
      /\ processing' = None /\ context' = None /\ handler' = [s \in Slots |-> None]
      /\ UNCHANGED <<txs, mirrors>>
  BY DEF Load
<1>2. listed' \subseteq Ids
  <2>1. Offered[name] \in SUBSET Ids
    BY PageAssumption
  <2>. QED
    BY <1>1, <2>1 DEF Listings
<1>3. page' \in PageRecord /\ page'.state = "IDLE"
  BY <1>1 DEF PageRecord
<1>4. Typed'
  BY <1>1, <1>2, <1>3 DEF PageInv, Typed
<1>5. Len(txs') <= MaxTxs
  BY <1>1, UnsubmittedIsFinite, HashesKnown, PageAssumption DEF PageInv, WithinBound
<1>6. ASSUME NEW op \in Ops PROVE mirrors'[op] <= Cardinality(Sent(op)')
  <2>1. Sent(op)' = Sent(op)
    BY <1>1 DEF Sent
  <2>. QED
    BY <1>1, <2>1, MirrorsBounded
<1>. QED
  BY <1>1, <1>4, <1>5, <1>6 DEF AtRest

LEMMA NothingRunsThen == AtRest' => PageInv'
  BY NothingRuns, PTL

-----------------------------------------------------------------------------
(* The invariant, and what it is for *)

LEMMA PageInit == Init => PageInv
<1>. SUFFICES ASSUME Init PROVE AtRest
  BY NothingRuns
<1>1. PICK name \in Pages : /\ page = [name |-> name, state |-> "IDLE", hash |-> None]
                           /\ listed \in Listings(name)
  BY DEF Init
<1>2. listed \subseteq Ids
  <2>1. Offered[name] \in SUBSET Ids
    BY PageAssumption
  <2>. QED
    BY <1>1, <2>1 DEF Listings
<1>3. page \in PageRecord /\ page.state = "IDLE"
  BY <1>1 DEF PageRecord
<1>4. Typed
  BY <1>2, <1>3 DEF Init, Typed
<1>5. Len(txs) <= MaxTxs
  BY PageAssumption DEF Init
<1>6. ASSUME NEW op \in Ops PROVE mirrors[op] <= Cardinality(Sent(op))
  <2>1. mirrors[op] = 0 /\ txs \in Seq(TxRecord)
    BY DEF Init
  <2>. QED
    BY <2>1, SentIsFinite
<1>. QED
  BY <1>4, <1>5, <1>6 DEF AtRest, Init

LEMMA PageStep == PageInv /\ [Next]_pageVars => PageInv'
<1>. SUFFICES ASSUME PageInv, [Next]_pageVars PROVE PageInv'
  OBVIOUS
<1>1. ASSUME NEW s \in Slots, Answered(s) PROVE PageInv'
  BY <1>1, SubmitStep, PollAgainStep, PollSucceedsStep, PollFailsStep, PollTimesOutStep,
     MirrorStep, RecheckSucceedsStep, RecheckMissesStep DEF Answered
<1>2. ASSUME NEW s \in Slots,
             (\E op \in Ops : Begin(s, op)) \/ Proceed(s) \/ Fail(s) \/ CheckAgain(s)
      PROVE  PageInv'
  BY <1>2, BeginStep, ProceedStep, FailStep, CheckAgainStep
<1>3. ASSUME NEW name \in Pages, Load(name) PROVE PageInv'
  BY <1>3, LoadStep, NothingRunsThen
<1>4. ASSUME UNCHANGED pageVars PROVE PageInv'
  <2>1. Typed'
    BY <1>4 DEF pageVars, PageInv, Typed
  <2>. QED
    BY <1>4, <2>1, NoHandlerMoves DEF pageVars
<1>. QED
  BY <1>1, <1>2, <1>3, <1>4, DismissStep, ApplyStep DEF Next

\* PageInv is inductive.
THEOREM Inductive == Spec => []PageInv
  BY PageInit, PageStep, PTL DEF Spec

\* Every state of the pages is well-typed, and the bounds of the model are kept.
THEOREM TypeCorrect == Spec => []TypeOK
<1>1. PageInv => TypeOK
  <2>. SUFFICES ASSUME PageInv PROVE TypeOK
    OBVIOUS
  <2>1. Len(txs) <= MaxTxs /\ Len(txs) \in Nat
    BY UnsubmittedIsFinite, HashesKnown, PageAssumption DEF PageInv, WithinBound
  <2>2. ASSUME NEW op \in Ops PROVE mirrors[op] \in 0..MaxTxs
    <3>1. mirrors[op] \in Nat /\ Cardinality(Sent(op)) <= Len(txs)
      BY HashesKnown, SentIsFinite DEF PageInv, Typed
    <3>. QED
      BY <2>1, <3>1, MirrorsBounded, PageAssumption
  <2>3. mirrors \in [Ops -> 0..MaxTxs]
    BY <2>2 DEF PageInv, Typed
  <2>. QED
    BY <2>1, <2>3 DEF TypeOK, PageInv, Typed, HandlersKnow, PageRecord, TxRecord
<1>. QED
  BY <1>1, Inductive, PTL

\* An operation is mirrored at most once for every transaction that carried it, however
\* many handlers share the context of "Check again" (timeoutContextRef) and whatever the
\* RPC node answers.
THEOREM MirroredPerTx == Spec => []OneMirrorPerTx
<1>1. PageInv => OneMirrorPerTx
  BY MirrorsBounded DEF OneMirrorPerTx, Sent
<1>. QED
  BY <1>1, Inductive, PTL

-----------------------------------------------------------------------------
(* What the card tells, while handlers take turns *)

\* No action is started before every handler has ended; "Check again" is free.
Waits == \A s \in Slots, op \in Ops : Begin(s, op) => \A q \in Slots : handler[q] = None

ActionsWait == [][Waits]_pageVars

\* What a handler h is right about, with page pg, context c and transactions t.
HandlerTells(h, pg, c, t) ==
    h # None =>
        /\ pg.state \in Processing
        /\ h.stage \in Underway => h.op = t[h.tx].op
        /\ h.stage = "recheck" => c = t[h.tx].op

PageTells ==
    /\ page.state = "TIMEOUT" => context = txs[page.hash].op
    /\ page.state = "COMPLETE" =>
          page.hash \in DOMAIN txs /\ mirrors[txs[page.hash].op] > 0

Alone == \A s, q \in Slots : handler[s] # None /\ handler[q] # None => s = q

TellInv ==
    /\ PageTells
    /\ \A s \in Slots : HandlerTells(handler[s], page, context, txs)
    /\ Alone

\* A transaction that was submitted stays, with the operation it carries.
LEMMA TxsStay ==
    ASSUME PageInv, [Next]_pageVars, NEW i \in DOMAIN txs
    PROVE  i \in DOMAIN txs' /\ txs'[i].op = txs[i].op
<1>. DEFINE Goal == i \in DOMAIN txs' /\ txs'[i].op = txs[i].op
<1>0. txs \in Seq(TxRecord)
  BY HashesKnown
<1>1. ASSUME UNCHANGED txs PROVE Goal
  BY <1>1
<1>2. ASSUME NEW T, txs' = Append(txs, T) PROVE Goal
  BY <1>0, <1>2
<1>3. ASSUME NEW tx \in DOMAIN txs, Apply(tx) PROVE Goal
  <2>1. PICK fate : txs' = [txs EXCEPT ![tx].fate = fate] /\ txs[tx].fate = "sent"
    BY <1>3 DEF Apply
  <2>2. CASE i = tx
    <3>1. txs[tx] \in TxRecord
      BY <1>0
    <3>2. txs'[tx] = [txs[tx] EXCEPT !.fate = fate] /\ tx \in DOMAIN txs'
      BY <1>0, <2>1
    <3>. QED
      BY <2>1, <2>2, <3>1, <3>2 DEF TxRecord
  <2>3. CASE i # tx
    BY <1>0, <2>1, <2>3
  <2>. QED
    BY <2>2, <2>3
<1>4. ASSUME NEW s \in Slots, (\E op \in Ops : Begin(s, op)) \/ Proceed(s) \/ CheckAgain(s)
      PROVE  UNCHANGED txs
  BY <1>4 DEF Begin, Proceed, CheckAgain
<1>5. ASSUME NEW s \in Slots, Fail(s) \/ \E answer \in SendAnswers : Submit(s, answer)
      PROVE  UNCHANGED txs \/ \E T : txs' = Append(txs, T)
  BY <1>5 DEF Fail, Submit
<1>6. ASSUME NEW s \in Slots, PollAgain(s) \/ PollSucceeds(s) \/ PollFails(s) \/ PollTimesOut(s)
      PROVE  UNCHANGED txs
  BY <1>6 DEF PollAgain, PollSucceeds, PollFails, PollTimesOut
<1>7. ASSUME NEW s \in Slots, Mirror(s) \/ RecheckSucceeds(s) \/ RecheckMisses(s) \/ Remirror(s)
      PROVE  UNCHANGED txs
  BY <1>7 DEF Mirror, RecheckSucceeds, RecheckMisses, Remirror
<1>8. ASSUME Dismiss \/ (\E name \in Pages : Load(name)) \/ UNCHANGED pageVars
      PROVE  UNCHANGED txs
  BY <1>8 DEF Dismiss, Load, pageVars
<1>. QED
  BY <1>1, <1>2, <1>3, <1>4, <1>5, <1>6, <1>7, <1>8 DEF Next, Answered

\* A step of one handler leaves the others right: while handlers take turns there are none.
LEMMA TellStep ==
    ASSUME PageInv, [Next]_pageVars, TellInv,
           NEW s \in Slots, NEW h,
           handler' = [handler EXCEPT ![s] = h],
           handler[s] # None \/ \A q \in Slots \ {s} : handler[q] = None,
           HandlerTells(h, page', context', txs'), PageTells'
    PROVE  TellInv'
<1>1. handler'[s] = h /\ \A q \in Slots \ {s} : handler'[q] = handler[q]
  BY DEF PageInv, HandlersKnow
<1>2. \A q \in Slots \ {s} : handler[q] = None
  BY DEF TellInv, Alone
<1>3. ASSUME NEW q \in Slots PROVE HandlerTells(handler'[q], page', context', txs')
  <2>1. CASE q = s
    BY <1>1, <2>1
  <2>2. CASE q # s
    <3>1. handler'[q] = handler[q] /\ (handler[q] = None)
      BY <1>1, <1>2, <2>2
    <3>2. HandlerTells(handler[q], page, context, txs) /\ Knows(handler[q], DOMAIN txs)
      BY DEF TellInv, PageInv, HandlersKnow
    <3>. QED
      BY <3>1, <3>2, TxsStay DEF HandlerTells, Knows, Before
  <2>. QED
    BY <2>1, <2>2
<1>4. Alone'
  BY <1>1, <1>2 DEF Alone
<1>. QED
  BY <1>3, <1>4 DEF TellInv

\* A page that shows neither success nor a timeout says nothing.
Silent == page.state \notin {"DATABASE_SYNC", "COMPLETE", "TIMEOUT"}

LEMMA LeftSilently ==
    ASSUME PageInv, [Next]_pageVars, TellInv,
           NEW s \in Slots,
           handler[s] # None, handler' = [handler EXCEPT ![s] = None], Silent'
    PROVE  TellInv'
<1>1. PageTells'
  BY DEF PageTells, Silent
<1>2. HandlerTells(None, page', context', txs')
  BY DEF HandlerTells
<1>. QED
  BY <1>1, <1>2, TellStep

\* Before it has a transaction a handler is right about everything.
LEMMA BeginTells ==
    ASSUME PageInv, [Next]_pageVars, TellInv,
           NEW s \in Slots,
           NEW op \in Ops, Begin(s, op), Waits
    PROVE  TellInv'
<1>1. PICK stage \in {"prepare", "sequence"}, state \in {"PREPARING", "SIMULATING"} :
         /\ ShowWithHash(state, None)
         /\ handler' = [handler EXCEPT ![s] = [stage |-> stage, op |-> op, tx |-> None,
                                               attempt |-> 0, status |-> "PENDING"]]
  BY DEF Begin
<1>2. page'.state = state
  BY <1>1, ShowHashType DEF PageInv, Typed, Processing
<1>3. PageTells'
  BY <1>2 DEF PageTells
<1>4. HandlerTells([stage |-> stage, op |-> op, tx |-> None, attempt |-> 0,
                    status |-> "PENDING"], page', context', txs')
  BY <1>2 DEF HandlerTells, Underway, Processing
<1>5. \A q \in Slots \ {s} : handler[q] = None
  BY DEF Waits
<1>. QED
  BY <1>1, <1>3, <1>4, <1>5, TellStep

LEMMA ProceedTells ==
    ASSUME PageInv, [Next]_pageVars, TellInv,
           NEW s \in Slots, Proceed(s)
    PROVE  TellInv'
<1>1. PICK stage \in Before : At(s, stage)
  BY DEF Proceed, Before
<1>2. PICK next \in Before, state \in {"SIMULATING", "WAITING_FOR_SIGNATURE", "SUBMITTING"} :
         GoTo(s, next) /\ Show(state)
  BY DEF Proceed, Before
<1>. DEFINE h == [handler[s] EXCEPT !.stage = next]
<1>3. handler[s] \in Handler /\ handler[s] # None
  BY <1>1, Held
<1>4. h.stage = next /\ handler' = [handler EXCEPT ![s] = h]
  BY <1>2, <1>3 DEF Handler, GoTo, PageInv, HandlersKnow
<1>. HIDE DEF h
<1>5. page'.state = state
  BY <1>2, ShowType DEF PageInv, Typed, Processing
<1>6. PageTells'
  BY <1>5 DEF PageTells
<1>7. HandlerTells(h, page', context', txs')
  BY <1>4, <1>5 DEF HandlerTells, Underway, Processing, Before
<1>. QED
  BY <1>3, <1>4, <1>6, <1>7, TellStep

LEMMA FailTells ==
    ASSUME PageInv, [Next]_pageVars, TellInv,
           NEW s \in Slots, Fail(s) \/ PollFails(s)
    PROVE  TellInv'
<1>1. /\ handler' = [handler EXCEPT ![s] = None] /\ Show("RPC_ERROR")
      /\ handler[s] # None
  BY DEF Fail, PollFails, Finish, At
<1>2. page'.state = "RPC_ERROR"
  BY <1>1, ShowType DEF PageInv, Typed, Failures
<1>3. Silent'
  BY <1>2 DEF Silent
<1>. QED
  BY <1>1, <1>3, LeftSilently

LEMMA SubmitTells ==
    ASSUME PageInv, [Next]_pageVars, TellInv,
           NEW s \in Slots,
           NEW answer \in SendAnswers, Submit(s, answer)
    PROVE  TellInv'
<1>. DEFINE T == [op |-> handler[s].op,
                  fate |-> IF answer = "PENDING" THEN "sent" ELSE "refused"]
<1>1. At(s, "submit") /\ txs' = Append(txs, T)
  BY DEF Submit
<1>2. handler[s] \in Handler /\ handler[s] # None /\ handler[s].op \in Ops
  BY <1>1, Held DEF Before
<1>3. T \in TxRecord /\ T.op = handler[s].op
  BY <1>2 DEF TxRecord, Fates
<1>. HIDE DEF T
<1>4. Len(txs') \in DOMAIN txs' /\ txs'[Len(txs')].op = handler[s].op /\ Len(txs') \in 1..MaxTxs
  <2>1. txs \in Seq(TxRecord) /\ Len(txs') = Len(txs) + 1 /\ Len(txs') \in DOMAIN txs'
    BY <1>1, <1>3, OneMoreSent, HashesKnown
  <2>2. txs'[Len(txs) + 1] = T
    BY <1>1, <1>3, <2>1
  <2>. QED
    BY <1>1, <1>3, <2>1, <2>2, SubmitHasRoom, HashesKnown, PageAssumption
<1>5. CASE answer = "PENDING"
  <2>. DEFINE h == [handler[s] EXCEPT !.stage = "poll", !.tx = Len(txs'), !.attempt = 1]
  <2>1. h.stage = "poll" /\ h.op = handler[s].op /\ h.tx = Len(txs')
    BY <1>2 DEF Handler
  <2>2. handler' = [handler EXCEPT ![s] = h] /\ Show("PENDING")
    BY <1>2, <1>5 DEF Submit, PageInv, HandlersKnow
  <2>. HIDE DEF h
  <2>3. page'.state = "PENDING"
    BY <2>2, ShowType DEF PageInv, Typed, Processing
  <2>4. PageTells'
    BY <2>3 DEF PageTells
  <2>5. HandlerTells(h, page', context', txs')
    BY <1>4, <2>1, <2>3 DEF HandlerTells, Processing
  <2>. QED
    BY <1>2, <2>2, <2>4, <2>5, TellStep
<1>6. CASE answer # "PENDING"
  <2>. DEFINE h == [handler[s] EXCEPT !.stage = "mirror", !.tx = Len(txs')]
  <2>1. h.stage = "mirror" /\ h.op = handler[s].op /\ h.tx = Len(txs')
    BY <1>2 DEF Handler
  <2>2. handler' = [handler EXCEPT ![s] = h] /\ ShowWithHash("DATABASE_SYNC", Len(txs'))
    BY <1>2, <1>6 DEF Submit, Confirm, PageInv, HandlersKnow
  <2>. HIDE DEF h
  <2>3. page'.state = "DATABASE_SYNC"
    BY <1>4, <2>2, ShowHashType DEF PageInv, Typed, Processing
  <2>4. PageTells'
    BY <2>3 DEF PageTells
  <2>5. HandlerTells(h, page', context', txs')
    BY <1>4, <2>1, <2>3 DEF HandlerTells, Processing
  <2>. QED
    BY <1>2, <2>2, <2>4, <2>5, TellStep
<1>. QED
  BY <1>5, <1>6

LEMMA PollAgainTells ==
    ASSUME PageInv, [Next]_pageVars, TellInv,
           NEW s \in Slots, PollAgain(s)
    PROVE  TellInv'
<1>1. PICK status : handler' = [handler EXCEPT ![s].attempt = @ + 1, ![s].status = status]
  BY DEF PollAgain
<1>2. At(s, "poll") /\ Show("PENDING") /\ UNCHANGED <<context, txs>>
  BY DEF PollAgain
<1>3. handler[s] \in Handler /\ handler[s].stage = "poll" /\ handler[s] # None
  BY <1>2, Held
<1>. DEFINE h == [handler[s] EXCEPT !.attempt = @ + 1, !.status = status]
<1>4. /\ h.stage = "poll" /\ h.op = handler[s].op /\ h.tx = handler[s].tx
      /\ handler' = [handler EXCEPT ![s] = h]
  BY <1>1, <1>3 DEF Handler, PageInv, HandlersKnow
<1>. HIDE DEF h
<1>5. page'.state = "PENDING"
  BY <1>2, ShowType DEF PageInv, Typed, Processing
<1>6. PageTells'
  BY <1>5 DEF PageTells
<1>7. HandlerTells(handler[s], page, context, txs)
  BY DEF TellInv
<1>8. HandlerTells(h, page', context', txs')
  BY <1>2, <1>3, <1>4, <1>5, <1>7 DEF HandlerTells, Processing, Underway
<1>. QED
  BY <1>3, <1>4, <1>6, <1>8, TellStep

LEMMA PollSucceedsTells ==
    ASSUME PageInv, [Next]_pageVars, TellInv,
           NEW s \in Slots, PollSucceeds(s)
    PROVE  TellInv'
<1>1. /\ At(s, "poll") /\ Confirm(s, handler[s].tx) /\ UNCHANGED <<context, txs>>
  BY DEF PollSucceeds
<1>2. /\ handler[s] \in Handler /\ handler[s].stage = "poll" /\ handler[s] # None
      /\ handler[s].tx \in DOMAIN txs /\ handler[s].tx \in 1..MaxTxs
  BY <1>1, Held DEF Before
<1>. DEFINE h == [handler[s] EXCEPT !.stage = "mirror", !.tx = handler[s].tx]
<1>3. /\ h.stage = "mirror" /\ h.op = handler[s].op /\ h.tx = handler[s].tx
      /\ handler' = [handler EXCEPT ![s] = h]
  BY <1>1, <1>2 DEF Handler, Confirm, PageInv, HandlersKnow
<1>. HIDE DEF h
<1>4. page'.state = "DATABASE_SYNC" /\ page'.hash = handler[s].tx
  BY <1>1, <1>2, ShowHashType DEF Confirm, PageInv, Typed, Processing
<1>5. HandlerTells(handler[s], page, context, txs)
  BY DEF TellInv
<1>6. PageTells'
  BY <1>4 DEF PageTells
<1>7. HandlerTells(h, page', context', txs')
  BY <1>1, <1>2, <1>3, <1>4, <1>5 DEF HandlerTells, Processing, Underway
<1>. QED
  BY <1>2, <1>3, <1>6, <1>7, TellStep

LEMMA PollTimesOutTells ==
    ASSUME PageInv, [Next]_pageVars, TellInv,
           NEW s \in Slots, PollTimesOut(s)
    PROVE  TellInv'
<1>1. /\ handler' = [handler EXCEPT ![s] = None] /\ txs' = txs
      /\ context' = handler[s].op /\ ShowWithHash("TIMEOUT", handler[s].tx) /\ At(s, "poll")
  BY DEF PollTimesOut, Finish
<1>2. /\ handler[s] # None /\ handler[s].stage = "poll" /\ handler[s].tx \in 1..MaxTxs
  BY <1>1, Held DEF Before
<1>3. page'.state = "TIMEOUT" /\ page'.hash = handler[s].tx
  BY <1>1, <1>2, ShowHashType DEF PageInv, Typed, Failures
<1>4. HandlerTells(handler[s], page, context, txs)
  BY DEF TellInv
<1>5. PageTells'
  BY <1>1, <1>2, <1>3, <1>4 DEF PageTells, HandlerTells, Underway
<1>6. HandlerTells(None, page', context', txs')
  BY DEF HandlerTells
<1>. QED
  BY <1>1, <1>2, <1>5, <1>6, TellStep

LEMMA MirrorTells ==
    ASSUME PageInv, [Next]_pageVars, TellInv,
           NEW s \in Slots, Mirror(s) \/ Remirror(s)
    PROVE  TellInv'
<1>1. /\ handler' = [handler EXCEPT ![s] = None] /\ txs' = txs
      /\ \/ Complete(s)
         \/ Show("RPC_ERROR")
         \/ ShowWithHash("DATABASE_SYNC_FAILED", handler[s].tx)
  BY DEF Mirror, Remirror, Finish, Leave
<1>2. PICK stage \in {"mirror", "remirror"} : At(s, stage)
  BY DEF Mirror, Remirror
<1>3. /\ handler[s] # None /\ handler[s].stage = stage /\ handler[s].op \in Ops
      /\ handler[s].tx \in DOMAIN txs /\ handler[s].tx \in 1..MaxTxs
  BY <1>2, Held DEF Before
<1>4. CASE Complete(s)
  <2>1. page'.state = "COMPLETE" /\ page'.hash = handler[s].tx
    BY <1>3, <1>4, ShowHashType DEF Complete, PageInv, Typed
  <2>2. mirrors'[handler[s].op] > 0
    BY <1>3, <1>4 DEF Complete, Committed, PageInv, Typed
  <2>3. HandlerTells(handler[s], page, context, txs)
    BY DEF TellInv
  <2>4. PageTells'
    BY <1>1, <1>3, <2>1, <2>2, <2>3 DEF PageTells, HandlerTells, Underway
  <2>5. HandlerTells(None, page', context', txs')
    BY DEF HandlerTells
  <2>. QED
    BY <1>1, <1>3, <2>4, <2>5, TellStep
<1>5. CASE Show("RPC_ERROR")
  <2>1. page'.state = "RPC_ERROR"
    BY <1>5, ShowType DEF PageInv, Typed, Failures
  <2>2. Silent'
    BY <2>1 DEF Silent
  <2>. QED
    BY <1>1, <1>3, <2>2, LeftSilently
<1>6. CASE ShowWithHash("DATABASE_SYNC_FAILED", handler[s].tx)
  <2>1. page'.state = "DATABASE_SYNC_FAILED"
    BY <1>3, <1>6, ShowHashType DEF PageInv, Typed, Failures
  <2>2. Silent'
    BY <2>1 DEF Silent
  <2>. QED
    BY <1>1, <1>3, <2>2, LeftSilently
<1>. QED
  BY <1>1, <1>4, <1>5, <1>6

LEMMA CheckAgainTells ==
    ASSUME PageInv, [Next]_pageVars, TellInv,
           NEW s \in Slots, CheckAgain(s)
    PROVE  TellInv'
<1>. DEFINE h == [stage |-> "recheck", op |-> None, tx |-> page.hash, attempt |-> 0,
                  status |-> "PENDING"]
<1>1. /\ page.state = "TIMEOUT" /\ Show("PENDING") /\ handler' = [handler EXCEPT ![s] = h]
      /\ UNCHANGED <<context, txs>>
  BY DEF CheckAgain
<1>2. h.stage = "recheck" /\ h.tx = page.hash
  OBVIOUS
<1>. HIDE DEF h
<1>3. page'.state = "PENDING"
  BY <1>1, ShowType DEF PageInv, Typed, Processing
<1>4. PageTells'
  BY <1>3 DEF PageTells
<1>5. HandlerTells(h, page', context', txs')
  BY <1>1, <1>2, <1>3 DEF HandlerTells, TellInv, PageTells, Processing, Underway
<1>6. \A q \in Slots \ {s} : handler[q] = None
  BY <1>1 DEF TellInv, HandlerTells, Processing
<1>. QED
  BY <1>1, <1>4, <1>5, <1>6, TellStep

LEMMA RecheckSucceedsTells ==
    ASSUME PageInv, [Next]_pageVars, TellInv,
           NEW s \in Slots, RecheckSucceeds(s)
    PROVE  TellInv'
<1>1. At(s, "recheck") /\ txs' = txs /\ "SUCCESS" \in Heard(s)
  BY DEF RecheckSucceeds
<1>2. /\ handler[s] \in Handler /\ handler[s] # None /\ handler[s].stage = "recheck"
      /\ handler[s].tx \in DOMAIN txs /\ handler[s].tx \in 1..MaxTxs
  BY <1>1, Held DEF Before
<1>3. context = txs[handler[s].tx].op
  BY <1>2 DEF TellInv, HandlerTells
<1>4. context # None
  <2>1. txs[handler[s].tx] \in TxRecord
    BY <1>2, HashesKnown
  <2>. QED
    BY <1>3, <2>1, NoneAssumption DEF TxRecord
<1>. DEFINE h == [handler[s] EXCEPT !.stage = "remirror", !.op = context]
<1>5. h.stage = "remirror" /\ h.op = context /\ h.tx = handler[s].tx
  BY <1>2 DEF Handler
<1>6. /\ handler' = [handler EXCEPT ![s] = h]
      /\ ShowWithHash("DATABASE_SYNC", handler[s].tx)
  BY <1>2, <1>4 DEF RecheckSucceeds, PageInv, HandlersKnow
<1>. HIDE DEF h
<1>7. page'.state = "DATABASE_SYNC" /\ page'.hash = handler[s].tx
  BY <1>2, <1>6, ShowHashType DEF PageInv, Typed, Processing
<1>8. PageTells'
  BY <1>1, <1>2, <1>3, <1>7 DEF PageTells
<1>9. HandlerTells(h, page', context', txs')
  BY <1>1, <1>3, <1>5, <1>7 DEF HandlerTells, Processing
<1>. QED
  BY <1>2, <1>6, <1>8, <1>9, TellStep

LEMMA RecheckMissesTells ==
    ASSUME PageInv, [Next]_pageVars, TellInv,
           NEW s \in Slots, RecheckMisses(s)
    PROVE  TellInv'
<1>1. /\ At(s, "recheck") /\ handler' = [handler EXCEPT ![s] = None]
      /\ UNCHANGED <<context, txs>>
  BY DEF RecheckMisses, Leave
<1>2. /\ handler[s] # None /\ handler[s].stage = "recheck" /\ handler[s].tx \in 1..MaxTxs
  BY <1>1, Held DEF Before
<1>3. CASE Show("RPC_ERROR")
  <2>1. page'.state = "RPC_ERROR"
    BY <1>3, ShowType DEF PageInv, Typed, Failures
  <2>2. Silent'
    BY <2>1 DEF Silent
  <2>. QED
    BY <1>1, <1>2, <2>2, LeftSilently
<1>4. CASE ShowWithHash("TIMEOUT", handler[s].tx)
  <2>1. page'.state = "TIMEOUT" /\ page'.hash = handler[s].tx
    BY <1>2, <1>4, ShowHashType DEF PageInv, Typed, Failures
  <2>2. HandlerTells(handler[s], page, context, txs)
    BY DEF TellInv
  <2>3. PageTells'
    BY <1>1, <1>2, <2>1, <2>2 DEF PageTells, HandlerTells
  <2>4. HandlerTells(None, page', context', txs')
    BY DEF HandlerTells
  <2>. QED
    BY <1>1, <1>2, <2>3, <2>4, TellStep
<1>. QED
  BY <1>3, <1>4 DEF RecheckMisses

LEMMA DismissTells ==
    ASSUME PageInv, [Next]_pageVars, TellInv, Dismiss
    PROVE  TellInv'
<1>1. UNCHANGED <<context, handler, txs>> /\ page.state \in Failures \union {"COMPLETE"}
  BY DEF Dismiss
<1>2. page'.state = "IDLE"
  BY ShowHashType DEF Dismiss, PageInv, Typed
<1>3. PageTells'
  BY <1>2 DEF PageTells
<1>4. page.state \notin Processing
  BY <1>1 DEF Failures, Processing
<1>5. \A s \in Slots : HandlerTells(handler'[s], page', context', txs')
  BY <1>1, <1>4 DEF TellInv, HandlerTells
<1>. QED
  BY <1>1, <1>3, <1>5 DEF TellInv, Alone

LEMMA LoadTells ==
    ASSUME NEW name \in Pages, Load(name)
    PROVE  TellInv'
  BY DEF Load, TellInv, PageTells, HandlerTells, Alone

\* Nothing but the network moves.
LEMMA ApplyTells ==
    ASSUME PageInv, [Next]_pageVars, TellInv,
           UNCHANGED <<page, context, handler, mirrors>>
    PROVE  TellInv'
<1>1. PageTells'
  <2>1. page.state = "TIMEOUT" => page.hash \in DOMAIN txs
    BY DEF PageInv, Typed
  <2>. QED
    BY <2>1, TxsStay DEF TellInv, PageTells
<1>2. ASSUME NEW q \in Slots PROVE HandlerTells(handler'[q], page', context', txs')
  <2>1. HandlerTells(handler[q], page, context, txs) /\ Knows(handler[q], DOMAIN txs)
    BY DEF TellInv, PageInv, HandlersKnow
  <2>. QED
    BY <2>1, TxsStay DEF HandlerTells, Knows, Before, Underway
<1>. QED
  BY <1>1, <1>2 DEF TellInv, Alone

LEMMA TellInit ==
    ASSUME Init
    PROVE  TellInv
  BY DEF Init, TellInv, PageTells, HandlerTells, Alone

LEMMA TellNext ==
    ASSUME PageInv, TellInv, [Next]_pageVars,
           [Waits]_pageVars
    PROVE  TellInv'
<1>1. ASSUME UNCHANGED pageVars \/ \E tx \in DOMAIN txs : Apply(tx) PROVE TellInv'
  BY <1>1, ApplyTells DEF pageVars, Apply
<1>2. ASSUME NEW s \in Slots, Answered(s) PROVE TellInv'
  BY <1>2, SubmitTells, PollAgainTells, PollSucceedsTells, FailTells, PollTimesOutTells,
     MirrorTells, RecheckSucceedsTells, RecheckMissesTells DEF Answered
<1>3. ASSUME NEW s \in Slots, NEW op \in Ops, Begin(s, op) PROVE TellInv'
  <2>1. CASE UNCHANGED pageVars
    BY <1>1, <2>1
  <2>2. CASE pageVars' # pageVars
    <3>1. Waits
      BY <2>2
    <3>. QED
      BY <1>3, <3>1, BeginTells
  <2>. QED
    BY <2>1, <2>2
<1>4. ASSUME NEW s \in Slots, Proceed(s) \/ Fail(s) \/ CheckAgain(s) PROVE TellInv'
  BY <1>4, ProceedTells, FailTells, CheckAgainTells
<1>. QED
  BY <1>1, <1>2, <1>3, <1>4, DismissTells, LoadTells DEF Next

LEMMA TurnsTelling == Spec /\ ActionsWait => []TellInv
<1>1. Init => TellInv
  BY TellInit
<1>2. PageInv /\ TellInv /\ [Next]_pageVars /\ [Waits]_pageVars => TellInv'
  BY TellNext
<1>. QED
  BY <1>1, <1>2, Inductive, PTL DEF Spec, ActionsWait

\* While no action is started before every handler has ended, the page that offers "Check
\* again" remembers the operation it would check (timeoutContextRef).
THEOREM TimeoutRemembered == Spec /\ ActionsWait => []TimeoutRemembersItsTx
<1>1. TellInv => TimeoutRemembersItsTx
  BY DEF TellInv, PageTells, TimeoutRemembersItsTx
<1>. QED
  BY <1>1, TurnsTelling, PTL

\* On the same condition COMPLETE means that the operation was mirrored
\* (useTransactionState.ts:172), resumed by "Check again" or not.
THEOREM CompleteMirrored == Spec /\ ActionsWait => []CompleteIsMirrored
<1>1. TellInv => CompleteIsMirrored
  BY DEF TellInv, PageTells, CompleteIsMirrored
<1>. QED
  BY <1>1, TurnsTelling, PTL

=============================================================================
