------------------------- MODULE MergeService_proofs -------------------------
(***************************************************************************)
(* Proofs about MergeService for any set of markets, any minimum and any   *)
(* bounds.  Every action either leaves alone what an invariant speaks of,  *)
(* or is looked at in a step of its own.                                   *)
(***************************************************************************)
EXTENDS MergeService, FiniteSetTheorems, TLAPS

(* The lesser of two balances is an amount, and neither is less. *)
LEMMA BoxIsLesser ==
  ASSUME NEW tokens \in [Outcomes -> Holdings]
  PROVE  /\ Box(tokens) \in Holdings
         /\ \A o \in Outcomes : Box(tokens) <= tokens[o]
         /\ \A n \in Nat : (\A o \in Outcomes : n <= tokens[o]) => n <= Box(tokens)
BY MergeAssumption DEF Box, Outcomes, Holdings

(* What the loop signs is a transaction. *)
LEMMA SignedTransaction ==
  ASSUME TypeInv
  PROVE  Signed \in Transactions
BY DEF TypeInv, Signed, Transactions

LEMMA InitMergeInv ==
  ASSUME MergeInit
  PROVE  MergeInv
<1>1. TypeInv
  <2>1. balance \in [Markets -> [Outcomes -> Holdings]]
    BY MergeAssumption DEF MergeInit, Holdings
  <2>2. reading \in [Outcomes -> Holdings] /\ boxes \in [Markets -> Holdings]
    BY MergeAssumption DEF MergeInit, Holdings
  <2> QED BY <2>1, <2>2 DEF MergeInit, TypeInv
<1>2. NonceInv /\ BooksInv
  BY DEF MergeInit, NonceInv, BooksInv, Recording
<1>3. PromptInv
  BY DEF MergeInit, PromptInv, BooksSettle, BooksAgree, UnderWay, SeenIsThere,
     Settles
<1>4. ToldInv
  BY FS_EmptySet DEF MergeInit, ToldInv
<1> QED BY <1>1, <1>2, <1>3, <1>4 DEF MergeInv

(* Every step keeps the types. *)
LEMMA StepTypeInv ==
  ASSUME TypeInv, [MergeNext]_mergeVars
  PROVE  TypeInv'
<1> USE MergeAssumption DEF TypeInv, Holdings, configVars, historyVars
<1>a. ASSUME Boot
      PROVE  TypeInv'
  BY <1>a DEF Boot, statVars, scanVars, chainVars,
     relayerVars, boundVars
<1>b. ASSUME StartScan
      PROVE  TypeInv'
  BY <1>b DEF StartScan, statVars, scanVars, chainVars,
     relayerVars, boundVars
<1>c. ASSUME EndScan
      PROVE  TypeInv'
  BY <1>c DEF EndScan, statVars, scanVars, chainVars,
     relayerVars, boundVars
<1>d. ASSUME ReadNonce
      PROVE  TypeInv'
  BY <1>d DEF ReadNonce, statVars, scanVars, chainVars,
     relayerVars, boundVars
<1>e. ASSUME ScanFails
      PROVE  TypeInv'
  BY <1>e DEF ScanFails, Fails, statVars, scanVars, chainVars,
     relayerVars
<1>f. ASSUME Crash
      PROVE  TypeInv'
  BY <1>f DEF Crash, Fails, statVars, scanVars, chainVars,
     relayerVars
<1>g. ASSUME NonceFails
      PROVE  TypeInv'
  BY <1>g DEF NonceFails, Fails, DoneWithBox, statVars, scanVars, chainVars,
     relayerVars
<1>h. ASSUME RecordFails
      PROVE  TypeInv'
  <2>1. prompt' \in BOOLEAN
    BY <1>h, Zenon DEF RecordFails
  <2> QED BY <1>h, <2>1 DEF RecordFails, Fails, DoneWithBox, statVars, scanVars, chainVars,
     relayerVars
<1>2. ASSUME NEW m \in Markets, LookAt(m) \/ TakeBox(m)
      PROVE  TypeInv'
  BY <1>2 DEF LookAt, TakeBox, statVars, scanVars, chainVars, relayerVars,
     boundVars
<1>3. ASSUME NEW o \in Outcomes, ReadBalance(o)
      PROVE  TypeInv'
  <2>1. reading' \in [Outcomes -> Holdings]
    BY <1>3 DEF ReadBalance
  <2>2. Box(reading') \in Holdings
    BY <2>1, BoxIsLesser
  <2> QED BY <1>3, <2>1, <2>2 DEF ReadBalance, Fails, statVars, scanVars, chainVars,
     relayerVars
<1>4. ASSUME Accepted
      PROVE  TypeInv'
  <2>1. boxes' \in [Markets -> Holdings] /\ pc' \in {"scan", "count"}
    BY <1>4 DEF Accepted, DoneWithBox
  <2>2. pending' \subseteq Transactions
    BY <1>4, SignedTransaction DEF Accepted, RelayerTakes
  <2>3. repeats' \in Nat
    BY <1>4 DEF Accepted, RelayerTakes
  <2> QED BY <1>4, <2>1, <2>2, <2>3 DEF Accepted, statVars, scanVars, chainVars
<1>i. ASSUME Refused
      PROVE  TypeInv'
  BY <1>i DEF Refused, Fails, DoneWithBox, statVars, scanVars, chainVars,
     relayerVars
<1>j. ASSUME TimedOut
      PROVE  TypeInv'
  <2>1. prompt' \in BOOLEAN
    BY <1>j, Zenon DEF TimedOut
  <2> QED BY <1>j, <2>1, SignedTransaction DEF TimedOut, RelayerTakes, Fails, DoneWithBox,
     statVars, scanVars, chainVars
<1>5. ASSUME CountMerge \/ AddReturned \/ PushHistory
      PROVE  TypeInv'
  BY <1>5 DEF CountMerge, AddReturned, PushHistory, DoneWithBox, scanVars,
     chainVars, relayerVars, boundVars
<1>6. ASSUME TxExecutes
      PROVE  TypeInv'
  <2>1. PICK tx \in pending :
          /\ Executable(tx)
          /\ balance' = [balance EXCEPT ![tx.market] =
                           [o \in Outcomes |-> @[o] - tx.amount]]
          /\ usdce' = usdce + tx.amount
          /\ pending' = pending \ {tx}
    BY <1>6 DEF TxExecutes
  <2>2. tx.market \in Markets /\ tx.amount \in Holdings
    BY DEF Transactions
  <2>3. \A o \in Outcomes : balance[tx.market][o] - tx.amount \in Holdings
    <3> TAKE o \in Outcomes
    <3>1. balance[tx.market] \in [Outcomes -> Holdings]
      BY <2>2
    <3>2. tx.amount <= Box(balance[tx.market])
      BY <2>1 DEF Executable, BoxOf
    <3>3. Box(balance[tx.market]) <= balance[tx.market][o]
          /\ Box(balance[tx.market]) \in Holdings
      BY <3>1, BoxIsLesser
    <3> QED BY <2>2, <3>1, <3>2, <3>3
  <2> QED BY <1>6, <2>1, <2>2, <2>3 DEF TxExecutes, statVars, scanVars,
       boundVars
<1>k. ASSUME TxReverts
      PROVE  TypeInv'
  BY <1>k DEF TxReverts, statVars, scanVars, chainVars,
    boundVars
<1>l. ASSUME TxDropped
      PROVE  TypeInv'
  <2>1. prompt' \in BOOLEAN
    BY <1>l, Zenon DEF TxDropped
  <2> QED BY <1>l, <2>1 DEF TxDropped, Fails, statVars, scanVars, chainVars
<1>8. ASSUME NEW m \in Markets, NEW o \in Outcomes, Trade(m, o)
      PROVE  TypeInv'
  BY <1>8 DEF Trade, statVars, scanVars, relayerVars
<1>9. CASE UNCHANGED mergeVars
  BY <1>9 DEF mergeVars, statVars, scanVars, chainVars, relayerVars, boundVars
<1> QED BY <1>a, <1>b, <1>c, <1>d, <1>e, <1>f, <1>g, <1>h, <1>i, <1>j, <1>k,
     <1>l, <1>2, <1>3, <1>4, <1>5, <1>6, <1>8, <1>9 DEF MergeNext, Loop

-----------------------------------------------------------------------------
(* The nonce only grows, and is read just before it is signed. *)
LEMMA StepNonceInv ==
  ASSUME TypeInv, NonceInv, [MergeNext]_mergeVars
  PROVE  NonceInv'
<1> USE DEF TypeInv, NonceInv
<1>1. CASE UNCHANGED <<signedFor, nonce, pending>>
  BY <1>1
<1>2. CASE ReadNonce
  BY <1>2 DEF ReadNonce, chainVars, relayerVars
<1>3. ASSUME UNCHANGED <<signedFor, nonce>>, pending' \subseteq pending \cup {Signed}
      PROVE  NonceInv'
  BY <1>3 DEF Signed
<1>4. CASE TxExecutes
  BY <1>4 DEF TxExecutes, Transactions
<1>5. CASE Accepted \/ TimedOut \/ TxReverts \/ TxDropped
  BY <1>5, <1>3 DEF Accepted, TimedOut, TxReverts, TxDropped, RelayerTakes,
     chainVars
<1>6. ASSUME NEW m \in Markets,
             LookAt(m) \/ TakeBox(m) \/ \E o \in Outcomes : Trade(m, o)
      PROVE  NonceInv'
  BY <1>6, <1>1 DEF LookAt, TakeBox, Trade, chainVars, relayerVars
<1>7. CASE Boot \/ StartScan \/ EndScan \/ Refused \/ CountMerge \/ AddReturned
             \/ PushHistory \/ ScanFails \/ NonceFails \/ RecordFails \/ Crash
  BY <1>7, <1>1 DEF Boot, StartScan, EndScan, Refused, CountMerge,
     AddReturned, PushHistory, ScanFails, NonceFails, RecordFails, Crash,
     chainVars, relayerVars
<1>8. CASE \E o \in Outcomes : ReadBalance(o)
  BY <1>8, <1>1 DEF ReadBalance, chainVars, relayerVars
<1>9. CASE UNCHANGED mergeVars
  BY <1>9, <1>1 DEF mergeVars, chainVars, relayerVars
<1> QED BY <1>2, <1>4, <1>5, <1>6, <1>7, <1>8, <1>9 DEF MergeNext, Loop

-----------------------------------------------------------------------------
(* The three counters move one after the other, each once per acceptance.  *)
LEMMA StepBooksInv ==
  ASSUME TypeInv, BooksInv, [MergeNext]_mergeVars
  PROVE  BooksInv'
<1> USE MergeAssumption DEF TypeInv, BooksInv, Holdings, Recording, configVars
<1>1. ASSUME UNCHANGED <<logsInfo, statVars, accepted, promised>>,
             pc' \in {"count", "add", "push"} => UNCHANGED <<pc, boxes, current>>
      PROVE  BooksInv'
  BY <1>1 DEF statVars
<1>2. CASE Accepted
  <2>1. CASE logsInfo
    BY <1>2, <2>1 DEF Accepted, DoneWithBox, statVars
  <2>2. CASE ~logsInfo
    BY <1>2, <2>2 DEF Accepted, statVars, scanVars
  <2> QED BY <2>1, <2>2
<1>3. CASE CountMerge
  BY <1>3 DEF CountMerge, relayerVars
<1>4. CASE AddReturned
  BY <1>4 DEF AddReturned, relayerVars
<1>5. CASE PushHistory
  BY <1>5 DEF PushHistory, DoneWithBox, relayerVars
<1>6. CASE TimedOut \/ TxExecutes \/ TxReverts \/ TxDropped
  BY <1>6, <1>1 DEF TimedOut, TxExecutes, TxReverts, TxDropped, DoneWithBox
<1>7. ASSUME NEW m \in Markets,
             LookAt(m) \/ TakeBox(m) \/ \E o \in Outcomes : Trade(m, o)
      PROVE  BooksInv'
  BY <1>7, <1>1 DEF LookAt, TakeBox, Trade, relayerVars
<1>8. CASE Boot \/ StartScan \/ EndScan \/ ReadNonce \/ Refused \/ ScanFails
             \/ NonceFails \/ RecordFails \/ Crash
  BY <1>8, <1>1 DEF Boot, StartScan, EndScan, ReadNonce, Refused, ScanFails,
     NonceFails, RecordFails, Crash, DoneWithBox, relayerVars
<1>9. CASE \E o \in Outcomes : ReadBalance(o)
  BY <1>9, <1>1 DEF ReadBalance, relayerVars
<1>10. CASE UNCHANGED mergeVars
  BY <1>10, <1>1 DEF mergeVars, statVars, relayerVars
<1> QED BY <1>2, <1>3, <1>4, <1>5, <1>6, <1>7, <1>8, <1>9, <1>10
     DEF MergeNext, Loop

-----------------------------------------------------------------------------
(* A set that gains at most one member gains at most one in number.         *)
LEMMA OneMore ==
  ASSUME NEW S, NEW T, NEW x, IsFiniteSet(S), T \subseteq S \cup {x}
  PROVE  /\ IsFiniteSet(T)
         /\ Cardinality(S) \in Nat /\ Cardinality(T) \in Nat
         /\ Cardinality(T) <= Cardinality(S) + 1
         /\ T \subseteq S => Cardinality(T) <= Cardinality(S)
<1>0. Cardinality(S) \in Nat
  BY FS_CardinalityType
<1>1. IsFiniteSet(S \cup {x}) /\ Cardinality(S \cup {x}) <= Cardinality(S) + 1
  BY <1>0, FS_AddElement
<1>2. IsFiniteSet(T) /\ Cardinality(T) <= Cardinality(S \cup {x})
  BY <1>1, FS_Subset
<1>3. T \subseteq S => Cardinality(T) <= Cardinality(S)
  BY FS_Subset
<1>4. /\ Cardinality(S) \in Nat /\ Cardinality(T) \in Nat
      /\ Cardinality(S \cup {x}) \in Nat
  BY <1>1, <1>2, FS_CardinalityType
<1> QED BY <1>1, <1>2, <1>3, <1>4

(* What ToldInv compares with the Safe's nonce. *)
Told == merges + untold + (IF pc = "count" THEN 1 ELSE 0)

(* Every step that can add to what is pending adds to what is told or was   *)
(* lost, and the chain takes from one what it adds to the other.            *)
LEMMA StepToldInv ==
  ASSUME TypeInv, ToldInv, [MergeNext]_mergeVars
  PROVE  ToldInv'
<1> USE DEF TypeInv
<1>0. IsFiniteSet(pending) /\ Cardinality(pending) \in Nat
  BY FS_CardinalityType DEF ToldInv
<1>1. ASSUME UNCHANGED <<logsInfo, nonce>>, pending' \subseteq pending,
             Told' \in Nat, Told' >= Told
      PROVE  ToldInv'
  <2>1. /\ IsFiniteSet(pending') /\ Cardinality(pending') \in Nat
        /\ Cardinality(pending') <= Cardinality(pending)
    BY <1>0, <1>1, OneMore
  <2>2. ~logsInfo => nonce + Cardinality(pending) <= Told
    BY DEF ToldInv, Told
  <2>3. ~logsInfo' => nonce' + Cardinality(pending') <= Told'
    BY <1>0, <1>1, <2>1, <2>2 DEF Told
  <2> QED BY <2>1, <2>3 DEF ToldInv, Told
<1>2. ASSUME UNCHANGED <<logsInfo, nonce>>, pending' \subseteq pending \cup {Signed},
             ~logsInfo => Told' = Told + 1
      PROVE  ToldInv'
  <2>1. /\ IsFiniteSet(pending') /\ Cardinality(pending') \in Nat
        /\ Cardinality(pending') <= Cardinality(pending) + 1
    BY <1>0, <1>2, OneMore
  <2>2. ~logsInfo => nonce + Cardinality(pending) <= Told
    BY DEF ToldInv, Told
  <2>3. ~logsInfo' => nonce' + Cardinality(pending') <= Told'
    BY <1>0, <1>2, <2>1, <2>2 DEF Told
  <2> QED BY <2>1, <2>3 DEF ToldInv, Told
<1>3. CASE Accepted
  <2>1. ~logsInfo => Told' = Told + 1
    BY <1>3 DEF Accepted, Told, statVars, historyVars
  <2>2. pending' \subseteq pending \cup {Signed} /\ UNCHANGED <<logsInfo, nonce>>
    BY <1>3 DEF Accepted, RelayerTakes, configVars, chainVars
  <2> QED BY <1>2, <2>1, <2>2
<1>4. CASE TimedOut
  <2>1. /\ UNCHANGED <<logsInfo, nonce, merges>>
        /\ pc = "submit" /\ pc' = "scan"
    BY <1>4 DEF TimedOut, DoneWithBox, configVars, chainVars, statVars
  <2>2. CASE UNCHANGED <<pending, repeats, historyVars>>
    <3>1. Told' = Told /\ Told \in Nat
      BY <2>1, <2>2 DEF Told, historyVars
    <3> QED BY <1>1, <2>1, <2>2, <3>1
  <2>3. CASE RelayerTakes /\ untold' = untold + 1
    <3>1. Told' = Told + 1
      BY <2>1, <2>3 DEF Told
    <3> QED BY <1>2, <2>1, <2>3, <3>1 DEF RelayerTakes
  <2>4. \/ UNCHANGED <<pending, repeats, historyVars>>
        \/ RelayerTakes /\ untold' = untold + 1
    BY <1>4 DEF TimedOut
  <2> QED BY <2>2, <2>3, <2>4
<1>5. CASE CountMerge
  <2>1. Told' = Told /\ Told \in Nat
    BY <1>5 DEF CountMerge, Told, historyVars
  <2> QED BY <1>1, <1>5, <2>1 DEF CountMerge, configVars, chainVars, relayerVars
<1>6. CASE RecordFails \/ Crash
  <2>1. /\ merges' = merges /\ pc' # "count"
        /\ untold' = IF pc = "count" THEN untold + 1 ELSE untold
    BY <1>6 DEF RecordFails, Crash, DoneWithBox, statVars
  <2>2. Told' = Told /\ Told \in Nat
    <3>1. CASE pc = "count"
      BY <2>1, <3>1 DEF Told
    <3>2. CASE pc # "count"
      BY <2>1, <3>2 DEF Told
    <3> QED BY <3>1, <3>2
  <2> QED BY <1>1, <1>6, <2>2 DEF RecordFails, Crash, configVars, chainVars,
       relayerVars
<1>7. CASE TxExecutes
  <2>1. PICK tx \in pending : pending' = pending \ {tx}
    BY <1>7 DEF TxExecutes
  <2>2. /\ IsFiniteSet(pending') /\ Cardinality(pending') \in Nat
        /\ Cardinality(pending') = Cardinality(pending) - 1
    BY <1>0, <2>1, FS_RemoveElement, FS_CardinalityType
  <2>3. nonce' = nonce + 1 /\ UNCHANGED <<logsInfo, merges, untold, pc>>
    BY <1>7 DEF TxExecutes, configVars, statVars, historyVars
  <2> QED BY <1>0, <2>2, <2>3 DEF ToldInv
<1>8. CASE TxReverts \/ TxDropped
  <2>1. /\ pending' \subseteq pending
        /\ UNCHANGED <<logsInfo, nonce, merges, untold, pc>>
    BY <1>8 DEF TxReverts, TxDropped, configVars, chainVars, statVars, historyVars
  <2>2. Told' = Told /\ Told \in Nat
    BY <2>1 DEF Told
  <2> QED BY <1>1, <2>1, <2>2
<1>9. ASSUME UNCHANGED <<logsInfo, nonce, pending, merges, untold>>,
             pc # "count", pc' # "count"
      PROVE  ToldInv'
  <2>1. Told' = Told /\ Told \in Nat
    BY <1>9 DEF Told
  <2> QED BY <1>1, <1>9, <2>1
<1>10. CASE Boot \/ StartScan \/ EndScan \/ ReadNonce \/ Refused \/ AddReturned
             \/ PushHistory \/ ScanFails \/ NonceFails
  BY <1>9, <1>10 DEF Boot, StartScan, EndScan, ReadNonce, Refused, AddReturned,
     PushHistory, ScanFails, NonceFails, DoneWithBox, configVars, statVars,
     chainVars, relayerVars, historyVars
<1>11. ASSUME NEW m \in Markets, LookAt(m) \/ TakeBox(m)
       PROVE  ToldInv'
  BY <1>9, <1>11 DEF LookAt, TakeBox, configVars, statVars, chainVars,
     relayerVars, historyVars
<1>12. ASSUME NEW o \in Outcomes, ReadBalance(o)
       PROVE  ToldInv'
  BY <1>9, <1>12 DEF ReadBalance, configVars, statVars, chainVars, relayerVars,
     historyVars
<1>13. CASE UNCHANGED <<logsInfo, nonce, pending, merges, untold, pc>>
  BY <1>13 DEF ToldInv
<1>14. ASSUME NEW m \in Markets, NEW o \in Outcomes, Trade(m, o)
       PROVE  ToldInv'
  BY <1>13, <1>14 DEF Trade, configVars, statVars, relayerVars
<1>15. CASE UNCHANGED mergeVars
  BY <1>13, <1>15 DEF mergeVars, configVars, statVars, chainVars, relayerVars,
     historyVars
<1> QED BY <1>3, <1>4, <1>5, <1>6, <1>7, <1>8, <1>10, <1>11, <1>12, <1>14,
     <1>15 DEF MergeNext, Loop

-----------------------------------------------------------------------------
(* While nothing overtakes a merge.  The steps of the loop first. *)
LEMMA LoopPromptInv ==
  ASSUME TypeInv, TypeInv', PromptInv, Loop
  PROVE  PromptInv'
<1> SUFFICES ASSUME prompt'
             PROVE  (BooksSettle /\ UnderWay /\ SeenIsThere)'
  BY DEF PromptInv
<1> USE DEF PromptInv, BooksSettle, BooksAgree, UnderWay, SeenIsThere, Settles,
        Recording, configVars, historyVars
<1>1. CASE Boot
  BY <1>1 DEF Boot, statVars, scanVars, chainVars, relayerVars, Executable, BoxOf
<1>2. CASE StartScan
  <2>1. prompt /\ pending = {} /\ pending' = {}
    BY <1>2 DEF StartScan, relayerVars
  <2>2. \A m \in Markets : 0 <= BoxOf(m)
    BY BoxIsLesser DEF TypeInv, Holdings, BoxOf
  <2> QED BY <1>2, <2>1, <2>2 DEF StartScan, statVars, scanVars, chainVars, relayerVars,
     BoxOf
<1>3. CASE EndScan
  BY <1>3 DEF EndScan, statVars, scanVars, chainVars, relayerVars, Executable, BoxOf
<1>4. ASSUME NEW m \in Markets, LookAt(m)
      PROVE  (BooksSettle /\ UnderWay /\ SeenIsThere)'
  <2>1. prompt /\ pending = {} /\ pending' = {}
    BY <1>4 DEF LookAt, relayerVars
  <2> QED BY <1>4, <2>1 DEF LookAt, statVars, scanVars, chainVars, relayerVars,
     BoxOf
<1>5. ASSUME NEW o \in Outcomes, ReadBalance(o)
      PROVE  (BooksSettle /\ UnderWay /\ SeenIsThere)'
  <2>1. prompt /\ pending = {} /\ pending' = {}
    BY <1>5 DEF ReadBalance, relayerVars
  <2>2. \A p \in Outcomes \ awaited' : reading'[p] <= balance[current][p]
    BY <1>5 DEF ReadBalance, TypeInv, Holdings
  <2>3. CASE awaited' # {}
    BY <1>5, <2>1, <2>2, <2>3 DEF ReadBalance, statVars, scanVars, chainVars,
       relayerVars, BoxOf
  <2>4. CASE awaited' = {}
    <3>1. Box(reading') <= BoxOf(current)
      BY <2>2, <2>4, BoxIsLesser DEF TypeInv, Holdings, BoxOf
    <3> QED BY <1>5, <2>1, <2>4, <3>1 DEF ReadBalance, TypeInv, statVars,
       chainVars, relayerVars, BoxOf
  <2> QED BY <2>3, <2>4
<1>6. ASSUME NEW m \in Markets, TakeBox(m)
      PROVE  (BooksSettle /\ UnderWay /\ SeenIsThere)'
  BY <1>6 DEF TakeBox, statVars, scanVars, chainVars, relayerVars, Executable, BoxOf
<1>7. CASE ReadNonce
  BY <1>7 DEF ReadNonce, statVars, scanVars, chainVars, relayerVars, BoxOf
<1>8. CASE Accepted
  <2>1. prompt /\ pending = {} /\ signedFor = nonce
    BY <1>8 DEF Accepted, relayerVars
  <2>2. pending' = {Signed} /\ boxes[current] <= BoxOf(current)
    BY <1>8, <2>1 DEF Accepted, RelayerTakes, TypeInv
  <2>3. /\ Signed.market = current /\ Signed.amount = boxes[current]
        /\ Signed.nonce = nonce
    BY <2>1 DEF Signed
  <2>4. UNCHANGED <<logsInfo, statVars, scanVars, current, signedFor, chainVars>>
    BY <1>8 DEF Accepted
  <2>5. Settles(accepted, promised)'
    BY <1>8, <2>1, <2>2, <2>3, <2>4 DEF Accepted, chainVars, TypeInv
  <2>6. BooksAgree'
    BY <1>8, <2>1, <2>4 DEF Accepted, statVars
  <2>7. CASE logsInfo
    <3>1. pc' = "scan" /\ boxes' = [boxes EXCEPT ![current] = 0]
      BY <1>8, <2>7 DEF Accepted, DoneWithBox
    <3>2. \A m \in Markets : boxes'[m] <= BoxOf(m)
      BY <1>8, <2>1, <3>1, BoxIsLesser DEF Accepted, TypeInv, Holdings, BoxOf
    <3> QED BY <1>8, <2>1, <2>2, <2>3, <2>4, <2>5, <2>6, <3>1, <3>2
         DEF Accepted, scanVars, chainVars, Executable, BoxOf, TypeInv
  <2>8. CASE ~logsInfo
    <3>1. pc' = "count" /\ boxes' = boxes
      BY <1>8, <2>8 DEF Accepted
    <3> QED BY <1>8, <2>1, <2>2, <2>3, <2>4, <2>5, <2>6, <3>1
         DEF Accepted, scanVars, chainVars, Executable, BoxOf, TypeInv
  <2> QED BY <2>7, <2>8
<1>9. CASE Refused
  <2>1. prompt /\ pending = {} /\ pending' = {}
    BY <1>9 DEF Refused, relayerVars
  <2>2. \A m \in Markets : boxes'[m] <= BoxOf(m)
    BY <1>9, BoxIsLesser DEF Refused, DoneWithBox, TypeInv, Holdings, BoxOf
  <2> QED BY <1>9, <2>1, <2>2 DEF Refused, DoneWithBox, statVars, scanVars,
     chainVars, relayerVars, BoxOf
<1>10. CASE TimedOut
  <2>1. /\ pc = "submit" /\ pc' = "scan"
        /\ boxes' = [boxes EXCEPT ![current] = 0]
        /\ UNCHANGED <<configVars, statVars, scanVars, current, chainVars,
                       accepted, promised>>
    BY <1>10 DEF TimedOut, DoneWithBox
  <2>2. \/ pending' = pending /\ prompt' = prompt
        \/ prompt' = FALSE
    BY <1>10 DEF TimedOut
  <2>3. pending' = pending /\ prompt' = prompt
    BY <2>2, Zenon
  <2>4. prompt
    BY <2>3, Zenon
  <2>5. pending = {} /\ pending' = {}
    BY <2>1, <2>3, <2>4
  <2>6. \A m \in Markets : boxes'[m] <= BoxOf(m)
    BY <2>1, <2>4, <2>5, BoxIsLesser DEF TypeInv, Holdings, BoxOf
  <2> QED BY <2>1, <2>4, <2>5, <2>6 DEF statVars, scanVars, chainVars, BoxOf
<1>11. CASE CountMerge
  BY <1>11 DEF CountMerge, scanVars, chainVars, relayerVars, Executable, BoxOf
<1>12. CASE AddReturned
  BY <1>12 DEF AddReturned, scanVars, chainVars, relayerVars, Executable, BoxOf
<1>13. CASE PushHistory
  <2>1. prompt /\ UNCHANGED <<logsInfo, pending, accepted, promised, balance,
                              nonce, usdce, merges, returned>>
    BY <1>13 DEF PushHistory, chainVars, relayerVars
  <2>2. \A m \in Markets : boxes'[m] <= BoxOf(m)
    BY <1>13, <2>1, BoxIsLesser DEF PushHistory, DoneWithBox, TypeInv,
       Holdings, BoxOf
  <2>3. toScan' = {}
    BY <1>13 DEF PushHistory, scanVars
  <2> QED BY <1>13, <2>1, <2>2, <2>3 DEF PushHistory, DoneWithBox, Executable,
     BoxOf, TypeInv
<1> QED BY <1>1, <1>2, <1>3, <1>4, <1>5, <1>6, <1>7, <1>8, <1>9, <1>10, <1>11,
     <1>12, <1>13 DEF Loop

(* Then the failures, the chain and the other services. *)
LEMMA OtherPromptInv ==
  ASSUME TypeInv, TypeInv', PromptInv, MergeNext, ~Loop
  PROVE  PromptInv'
<1> SUFFICES ASSUME prompt'
             PROVE  (BooksSettle /\ UnderWay /\ SeenIsThere)'
  BY DEF PromptInv
<1> USE DEF PromptInv, BooksSettle, BooksAgree, UnderWay, SeenIsThere, Settles,
        Recording, configVars, historyVars
<1>1. CASE ScanFails
  BY <1>1 DEF ScanFails, statVars, chainVars, relayerVars, Executable, BoxOf
<1>2. CASE NonceFails
  <2>1. prompt /\ UNCHANGED <<logsInfo, statVars, toScan, relayerVars, balance,
                              nonce, usdce>>
    BY <1>2 DEF NonceFails, scanVars, chainVars
  <2>2. \A m \in Markets : boxes'[m] <= boxes[m]
    BY <1>2 DEF NonceFails, DoneWithBox, TypeInv, Holdings
  <2>3. \A m \in Markets : boxes'[m] <= BoxOf(m)
    BY <1>2, <2>1, <2>2, BoxIsLesser DEF NonceFails, TypeInv, Holdings, BoxOf
  <2> QED BY <1>2, <2>1, <2>3 DEF NonceFails, DoneWithBox, statVars, relayerVars,
     Executable, BoxOf, TypeInv
<1>3. CASE RecordFails
  BY <1>3, Zenon DEF RecordFails
<1>4. CASE Crash
  BY <1>4 DEF Crash, statVars, chainVars, relayerVars, Executable, BoxOf
<1>5. CASE TxExecutes
  <2>1. PICK tx \in pending :
          /\ balance' = [balance EXCEPT ![tx.market] =
                           [o \in Outcomes |-> @[o] - tx.amount]]
          /\ usdce' = usdce + tx.amount
          /\ pending' = pending \ {tx}
    BY <1>5 DEF TxExecutes
  <2>2. prompt /\ pending = {tx} /\ pending' = {}
    BY <1>5, <2>1 DEF TxExecutes
  <2>3. nonce' = nonce + 1 /\ UNCHANGED <<logsInfo, statVars, pc, scanVars, current,
                                         boxes, signedFor, accepted, promised>>
    BY <1>5 DEF TxExecutes
  <2>4. BooksSettle'
    BY <2>1, <2>2, <2>3 DEF TypeInv, statVars, Transactions, Holdings
  <2>5. \A m \in Markets \ {tx.market} : UNCHANGED BoxOf(m)
    BY <2>1 DEF BoxOf, TypeInv
  <2>6. ASSUME pc \notin {"down", "idle"}, NEW m \in Markets,
               ~(Recording /\ m = current)
        PROVE  boxes[m] <= BoxOf(m)'
    <3>1. CASE m # tx.market
      BY <2>2, <2>5, <2>6, <3>1
    <3>2. CASE m = tx.market
      <4>1. boxes[m] = 0
        BY <2>2, <2>6, <3>2 DEF TypeInv
      <4>2. BoxOf(m)' \in Holdings
        BY BoxIsLesser DEF BoxOf, TypeInv
      <4> QED BY <4>1, <4>2 DEF Holdings
    <3> QED BY <3>1, <3>2
  <2> QED BY <2>2, <2>3, <2>4, <2>6 DEF scanVars
<1>6. CASE TxReverts
  BY <1>6 DEF TxReverts
<1>7. CASE TxDropped
  BY <1>7, Zenon DEF TxDropped
<1>8. ASSUME NEW m \in Markets, NEW o \in Outcomes, Trade(m, o)
      PROVE  (BooksSettle /\ UnderWay /\ SeenIsThere)'
  <2>1. PICK held \in Holdings :
          /\ balance' = [balance EXCEPT ![m][o] = held]
          /\ prompt' = (prompt /\ (held > balance[m][o] \/ AtRest))
    BY <1>8 DEF Trade
  <2>2. prompt /\ (held > balance[m][o] \/ AtRest)
    BY <2>1
  <2>3. UNCHANGED <<logsInfo, statVars, pc, scanVars, current, boxes, signedFor,
                    nonce, usdce, relayerVars>>
    BY <1>8 DEF Trade
  <2>4. CASE AtRest
    BY <2>2, <2>3, <2>4 DEF AtRest, statVars, scanVars, relayerVars
  <2>5. CASE held > balance[m][o]
    <3>1. \A n \in Markets, p \in Outcomes : balance[n][p] <= balance'[n][p]
      BY <2>1, <2>5 DEF TypeInv, Holdings
    <3>2. \A n \in Markets : BoxOf(n) <= BoxOf(n)' /\ BoxOf(n) \in Nat /\ BoxOf(n)' \in Nat
      BY <3>1 DEF BoxOf, Box, TypeInv, Holdings, Outcomes
    <3>3. BooksSettle'
      BY <2>2, <2>3 DEF statVars, relayerVars
    <3>4. UnderWay'
      BY <2>2, <2>3, <3>2 DEF scanVars, relayerVars, Executable, TypeInv,
         Transactions, Holdings
    <3>5. SeenIsThere'
      BY <2>2, <2>3, <3>1, <3>2 DEF scanVars, TypeInv, Holdings
    <3> QED BY <3>3, <3>4, <3>5
  <2> QED BY <2>2, <2>4, <2>5
<1> QED BY <1>1, <1>2, <1>3, <1>4, <1>5, <1>6, <1>7, <1>8 DEF MergeNext

-----------------------------------------------------------------------------
(* A transaction is never signed for a nonce that the Safe has not         *)
(* reached, the books never run ahead of the relayer's acceptances, and    *)
(* while nothing overtakes a merge what the scan has seen stays mergeable. *)
THEOREM MergeInvHolds == MergeSpec => []MergeInv
<1>1. MergeInit => MergeInv
  BY InitMergeInv
<1>2. MergeInv /\ [MergeNext]_mergeVars => MergeInv'
  <2> SUFFICES ASSUME MergeInv, [MergeNext]_mergeVars
               PROVE  MergeInv'
    OBVIOUS
  <2>1. TypeInv' /\ NonceInv' /\ BooksInv' /\ ToldInv'
    BY StepTypeInv, StepNonceInv, StepBooksInv, StepToldInv DEF MergeInv
  <2>2. PromptInv'
    <3>1. CASE Loop
      BY <2>1, <3>1, LoopPromptInv DEF MergeInv
    <3>2. CASE MergeNext /\ ~Loop
      BY <2>1, <3>2, OtherPromptInv DEF MergeInv
    <3>3. CASE UNCHANGED mergeVars
      BY <3>3 DEF MergeInv, PromptInv, BooksSettle, BooksAgree, UnderWay,
         SeenIsThere, Settles, Recording, Executable, BoxOf, mergeVars,
         configVars, statVars, scanVars, chainVars, relayerVars, historyVars
    <3> QED BY <3>1, <3>2, <3>3
  <2> QED BY <2>1, <2>2 DEF MergeInv
<1> QED BY <1>1, <1>2, PTL DEF MergeSpec

(* As long as every merge lands before the service looks again, what the    *)
(* relayer accepted is what the chain has paid, or is about to, and the     *)
(* statistics say just that, or nothing where info lines are written.       *)
THEOREM PromptMergesHold == MergeSpec => []PromptMergesAreExact
<1>1. MergeInv => PromptMergesAreExact
  BY DEF MergeInv, BooksInv, PromptInv, BooksSettle, BooksAgree,
     PromptMergesAreExact
<1> QED BY <1>1, MergeInvHolds, PTL

(* No overlap of scans, submissions and executions hides a merge from the   *)
(* statistics: only a lost answer, a lost record, or the info line does.    *)
THEOREM MergesTold == MergeSpec => []MergesAreTold
<1>1. MergeInv => MergesAreTold
  <2> SUFFICES ASSUME MergeInv, pc # "count"
               PROVE  IF logsInfo THEN merges = 0 ELSE nonce <= merges + untold
    BY DEF MergesAreTold
  <2>1. Cardinality(pending) \in Nat
    BY FS_CardinalityType DEF MergeInv, ToldInv
  <2> QED BY <2>1 DEF MergeInv, TypeInv, BooksInv, ToldInv
<1> QED BY <1>1, MergeInvHolds, PTL
=============================================================================
