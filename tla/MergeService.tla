----------------------------- MODULE MergeService -----------------------------
(***************************************************************************)
(* The settlement service (settlement/src): it looks for boxes, as many    *)
(* YES as NO tokens of one market, and has the relayer merge them back     *)
(* into USDCe.                                                             *)
(*                                                                         *)
(* The chain and the relayer are external: a submission that was accepted  *)
(* is executed, or given up, at some later time, and the Safe executes a   *)
(* transaction only under the nonce it was signed for.  Amounts count      *)
(* whole tokens.  A Safe that would not accept the service's signature is  *)
(* a relayer that refuses.                                                 *)
(***************************************************************************)
EXTENDS Naturals, FiniteSets

CONSTANTS
  Markets,
  MinMerge,              \* config.minMergeAmount
  MaxHolding,            \* bound: tokens of one outcome the Safe may hold
  StartHoldings,         \* bound: what it may hold at first
  MaxTrades,             \* bound: changes of the holdings by other services
  MaxFailures,           \* bound: failing calls, crashes, lost transactions
  MaxRepeats             \* bound: submissions that cannot bring anything

ASSUME MergeAssumption ==
  /\ MinMerge \in Nat \ {0}
  /\ {MaxHolding, MaxTrades, MaxFailures, MaxRepeats} \subseteq Nat
  /\ StartHoldings \subseteq 0 .. MaxHolding

Holdings == 0 .. MaxHolding
Outcomes == {"YES", "NO"}

VARIABLES
  described,             \* Redis: markets:active, those with all three ids
  logsInfo,              \* LOG_LEVEL lets logger.info write
  merges, returned,      \* Redis: settlement:stats
  rows,                  \* Redis: settlement's entries in trades:history
  pc,                    \* where the loop of start() is
  toScan,                \* marketIds the scan has not looked at yet
  current,               \* the market in hand
  awaited, reading,      \* the balances being read, and their values
  boxes,                 \* boxPositions: the mergeable amount, by market
  signedFor,             \* the nonce the transaction in hand is signed for
  balance,               \* chain: tokens of the Safe, by market and outcome
  nonce,                 \* chain: the Safe's nonce
  usdce,                 \* chain: the USDCe that merges have brought
  pending,               \* relayer: what it has accepted and not finished
  accepted, promised,    \* relayer: its acceptances so far, and their sum
  prompt,                \* history: nothing has overtaken a merge yet
  untold,                \* history: acceptances that never were recorded
                         \* because the answer or the first record was lost
  trades, failures, repeats      \* counters for the bounds

configVars  == <<described, logsInfo>>
statVars    == <<merges, returned, rows>>
scanVars    == <<toScan, awaited, reading>>
chainVars   == <<balance, nonce, usdce>>
relayerVars == <<pending, accepted, promised>>
historyVars == <<prompt, untold>>
boundVars   == <<trades, failures, repeats>>
mergeVars == <<configVars, statVars, pc, scanVars, current, boxes, signedFor,
               chainVars, relayerVars, historyVars, boundVars>>

Transactions == [market : Markets, amount : Holdings, nonce : Nat]

-----------------------------------------------------------------------------
(* A box is as many tokens as there are of both outcomes. *)
Box(tokens) ==
  IF tokens["YES"] < tokens["NO"] THEN tokens["YES"] ELSE tokens["NO"]

(* What the chain would let be merged of market m. *)
BoxOf(m) == Box(balance[m])

(* The Safe would execute tx now. *)
Executable(tx) == tx.nonce = nonce /\ tx.amount <= BoxOf(tx.market)

(* The transaction the loop has signed. *)
Signed == [market |-> current, amount |-> boxes[current], nonce |-> signedFor]

(* It is about to bring something. *)
Useful == Executable(Signed) /\ \A tx \in pending : ~Executable(tx)

(* No merge is in hand or under way. *)
AtRest == pc \in {"down", "idle"} /\ pending = {}

(* A call, a process or a transaction is lost. *)
Fails == failures < MaxFailures /\ failures' = failures + 1

MergeInit ==
  /\ described \in SUBSET Markets
  /\ logsInfo \in BOOLEAN
  /\ merges = 0 /\ returned = 0 /\ rows = 0
  /\ pc = "down"
  /\ toScan = {} /\ awaited = {} /\ reading = [o \in Outcomes |-> 0]
  /\ current \in Markets
  /\ boxes = [m \in Markets |-> 0]
  /\ signedFor = 0
  /\ balance \in [Markets -> [Outcomes -> StartHoldings]]
  /\ nonce = 0 /\ usdce = 0
  /\ pending = {} /\ accepted = 0 /\ promised = 0
  /\ prompt = TRUE /\ untold = 0
  /\ trades = 0 /\ failures = 0 /\ repeats = 0

-----------------------------------------------------------------------------
(* One turn of the loop. *)

(* main() constructs the service and enters the loop. *)
Boot ==
  /\ pc = "down"
  /\ pc' = "idle"
  /\ UNCHANGED <<configVars, statVars, scanVars, current, boxes, signedFor,
                 chainVars, relayerVars, historyVars, boundVars>>

(* The sleep is over: smembers('markets:active').  A merge that is still   *)
(* under way is no reason to wait.                                         *)
StartScan ==
  /\ pc = "idle"
  /\ pc' = "scan"
  /\ toScan' = Markets
  /\ boxes' = [m \in Markets |-> 0]
  /\ prompt' = (prompt /\ pending = {})
  /\ UNCHANGED <<configVars, statVars, awaited, reading, current, signedFor,
                 chainVars, relayerVars, untold, boundVars>>

(* A market that lacks an id is passed over; of another the two balances   *)
(* are asked for at once.                                                  *)
LookAt(m) ==
  /\ pc = "scan"
  /\ m \in toScan
  /\ toScan' = toScan \ {m}
  /\ IF m \in described
     THEN current' = m /\ awaited' = Outcomes /\ pc' = "balances"
     ELSE UNCHANGED <<current, awaited, pc>>
  /\ UNCHANGED <<configVars, statVars, reading, boxes, signedFor, chainVars,
                 relayerVars, historyVars, boundVars>>

(* getTokenBalance(): a call that fails says 0.  The box is the lesser of  *)
(* the two.                                                                *)
ReadBalance(o) ==
  /\ pc = "balances"
  /\ o \in awaited
  /\ awaited' = awaited \ {o}
  /\ \/ /\ reading' = [reading EXCEPT ![o] = balance[current][o]]
        /\ UNCHANGED failures
     \/ /\ reading' = [reading EXCEPT ![o] = 0]
        /\ Fails
  /\ IF awaited' = {}
     THEN /\ boxes' = [boxes EXCEPT ![current] = Box(reading')]
          /\ pc' = "scan"
     ELSE UNCHANGED <<boxes, pc>>
  /\ UNCHANGED <<configVars, statVars, toScan, current, signedFor, chainVars,
                 relayerVars, historyVars, trades, repeats>>

(* A Redis call of the scan fails: what it has found is forgotten.         *)
ScanFails ==
  /\ pc = "scan"
  /\ Fails
  /\ boxes' = [m \in Markets |-> 0]
  /\ pc' = "idle"
  /\ UNCHANGED <<configVars, statVars, scanVars, current, signedFor, chainVars,
                 relayerVars, historyVars, trades, repeats>>

(* Mutant: a box of exactly the minimum is left alone. *)
AboveMinimum(m) == boxes[m] > MinMerge

(* The loop over boxPositions. *)
Mergeable(m) == boxes[m] >= MinMerge

TakeBox(m) ==
  /\ pc = "scan"
  /\ toScan = {}
  /\ Mergeable(m)
  /\ current' = m
  /\ pc' = "sign"
  /\ UNCHANGED <<configVars, statVars, scanVars, boxes, signedFor, chainVars,
                 relayerVars, historyVars, boundVars>>

EndScan ==
  /\ pc = "scan"
  /\ toScan = {}
  /\ \A m \in Markets : ~Mergeable(m)
  /\ pc' = "idle"
  /\ UNCHANGED <<configVars, statVars, scanVars, current, boxes, signedFor,
                 chainVars, relayerVars, historyVars, boundVars>>

-----------------------------------------------------------------------------
(* mergePosition(): one box to the relayer. *)

(* Whatever the outcome, the loop goes on to the next box. *)
DoneWithBox ==
  /\ pc' = "scan"
  /\ boxes' = [boxes EXCEPT ![current] = 0]

(* getSafeNonce(), asked of the chain for every transaction. *)
ReadNonce ==
  /\ pc = "sign"
  /\ signedFor' = nonce
  /\ pc' = "submit"
  /\ prompt' = (prompt /\ pending = {})
  /\ UNCHANGED <<configVars, statVars, scanVars, current, boxes, chainVars,
                 relayerVars, untold, boundVars>>

(* Without a nonce nothing is submitted. *)
NonceFails ==
  /\ pc = "sign"
  /\ Fails
  /\ DoneWithBox
  /\ UNCHANGED <<configVars, statVars, scanVars, current, signedFor, chainVars,
                 relayerVars, historyVars, trades, repeats>>

(* The relayer takes the transaction.  One that adds nothing to what is    *)
(* pending, or that the Safe would not execute, counts as a repeat.        *)
RelayerTakes ==
  /\ IF Useful
     THEN UNCHANGED repeats
     ELSE repeats < MaxRepeats /\ repeats' = repeats + 1
  /\ pending' = pending \cup {Signed}

(* Mutant: writing the info line throws at every level. *)
AcceptedUntold ==
  /\ pc = "submit"
  /\ RelayerTakes
  /\ accepted' = accepted + 1
  /\ promised' = promised + boxes[current]
  /\ DoneWithBox
  /\ UNCHANGED <<configVars, statVars, scanVars, current, signedFor, chainVars,
                 historyVars, trades, failures>>

(* response.data.success: submitted, not mined.  The line that says so has  *)
(* the result, whose amounts are bigints: where it is written,              *)
(* JSON.stringify throws, the catch of mergePosition() makes it a failed    *)
(* merge, and the record is not reached.                                    *)
Accepted ==
  /\ pc = "submit"
  /\ RelayerTakes
  /\ accepted' = accepted + 1
  /\ promised' = promised + boxes[current]
  /\ IF logsInfo THEN DoneWithBox ELSE pc' = "count" /\ UNCHANGED boxes
  /\ UNCHANGED <<configVars, statVars, scanVars, current, signedFor, chainVars,
                 historyVars, trades, failures>>

(* Mutant: what the relayer has answered is not looked at. *)
RefusalIsSuccess ==
  /\ pc = "submit"
  /\ IF Useful THEN Fails ELSE UNCHANGED failures
  /\ pc' = "count"
  /\ UNCHANGED <<configVars, statVars, scanVars, current, boxes, signedFor,
                 chainVars, relayerVars, historyVars, trades, repeats>>

(* The relayer refuses, for good reason or not. *)
Refused ==
  /\ pc = "submit"
  /\ IF Useful
     THEN Fails
     ELSE UNCHANGED failures
  /\ DoneWithBox
  /\ UNCHANGED <<configVars, statVars, scanVars, current, signedFor, chainVars,
                 relayerVars, historyVars, trades, repeats>>

(* No answer within ten seconds, though the relayer may have accepted. *)
TimedOut ==
  /\ pc = "submit"
  /\ Fails
  /\ \/ UNCHANGED <<pending, repeats, historyVars>>
     \/ RelayerTakes /\ prompt' = FALSE /\ untold' = untold + 1
  /\ DoneWithBox
  /\ UNCHANGED <<configVars, statVars, scanVars, current, signedFor, chainVars,
                 accepted, promised, trades>>

-----------------------------------------------------------------------------
(* recordMerge(): one Redis command after the other; mergePosition()       *)
(* catches what fails.                                                     *)

CountMerge ==
  /\ pc = "count"
  /\ merges' = merges + 1
  /\ pc' = "add"
  /\ UNCHANGED <<configVars, returned, rows, scanVars, current, boxes,
                 signedFor, chainVars, relayerVars, historyVars, boundVars>>

AddReturned ==
  /\ pc = "add"
  /\ returned' = returned + boxes[current]
  /\ pc' = "push"
  /\ UNCHANGED <<configVars, merges, rows, scanVars, current, boxes, signedFor,
                 chainVars, relayerVars, historyVars, boundVars>>

PushHistory ==
  /\ pc = "push"
  /\ rows' = rows + 1
  /\ DoneWithBox
  /\ UNCHANGED <<configVars, merges, returned, scanVars, current, signedFor,
                 chainVars, relayerVars, historyVars, boundVars>>

RecordFails ==
  /\ pc \in {"count", "add", "push"}
  /\ Fails
  /\ prompt' = FALSE
  /\ untold' = IF pc = "count" THEN untold + 1 ELSE untold
  /\ DoneWithBox
  /\ UNCHANGED <<configVars, statVars, scanVars, current, signedFor, chainVars,
                 relayerVars, trades, repeats>>

(* The process ends, by stop() or otherwise; main() starts it again. *)
Crash ==
  /\ pc # "down"
  /\ Fails
  /\ pc' = "down"
  /\ boxes' = [m \in Markets |-> 0]
  /\ toScan' = {} /\ awaited' = {}
  /\ prompt' = (prompt /\ pc \notin {"count", "add", "push"})
  /\ untold' = IF pc = "count" THEN untold + 1 ELSE untold
  /\ UNCHANGED <<configVars, statVars, reading, current, signedFor, chainVars,
                 relayerVars, trades, repeats>>

-----------------------------------------------------------------------------
(* The relayer and the chain. *)

TxExecutes ==
  /\ \E tx \in pending :
       /\ Executable(tx)
       /\ balance' = [balance EXCEPT ![tx.market] =
                        [o \in Outcomes |-> @[o] - tx.amount]]
       /\ usdce' = usdce + tx.amount
       /\ pending' = pending \ {tx}
  /\ nonce' = nonce + 1
  /\ UNCHANGED <<configVars, statVars, pc, scanVars, current, boxes, signedFor,
                 accepted, promised, historyVars, boundVars>>

(* A transaction that the Safe would not execute is given up. *)
TxReverts ==
  /\ \E tx \in pending : ~Executable(tx) /\ pending' = pending \ {tx}
  /\ UNCHANGED <<configVars, statVars, pc, scanVars, current, boxes, signedFor,
                 chainVars, accepted, promised, historyVars, boundVars>>

(* One that it would have executed is lost. *)
TxDropped ==
  /\ \E tx \in pending : Executable(tx) /\ pending' = pending \ {tx}
  /\ Fails
  /\ prompt' = FALSE
  /\ UNCHANGED <<configVars, statVars, pc, scanVars, current, boxes, signedFor,
                 chainVars, accepted, promised, untold, trades, repeats>>

(* Another service trades; a sale while a merge is under way overtakes it. *)
Trade(m, o) ==
  /\ trades < MaxTrades
  /\ trades' = trades + 1
  /\ \E held \in Holdings \ {balance[m][o]} :
       /\ balance' = [balance EXCEPT ![m][o] = held]
       /\ prompt' = (prompt /\ (held > balance[m][o] \/ AtRest))
  /\ UNCHANGED <<configVars, statVars, pc, scanVars, current, boxes, signedFor,
                 nonce, usdce, relayerVars, untold, failures, repeats>>

-----------------------------------------------------------------------------
Loop ==
  \/ Boot \/ StartScan \/ EndScan \/ ReadNonce
  \/ \E m \in Markets : LookAt(m) \/ TakeBox(m)
  \/ \E o \in Outcomes : ReadBalance(o)
  \/ Accepted \/ Refused \/ TimedOut
  \/ CountMerge \/ AddReturned \/ PushHistory

MergeNext ==
  \/ Loop
  \/ ScanFails \/ NonceFails \/ RecordFails \/ Crash
  \/ TxExecutes \/ TxReverts \/ TxDropped
  \/ \E m \in Markets, o \in Outcomes : Trade(m, o)

MergeSpec == MergeInit /\ [][MergeNext]_mergeVars

(* The loop is a while (isRunning) in one process, and every call of it    *)
(* returns; the relayer works off what it has accepted.                    *)
MergeFairSpec ==
  MergeSpec /\ WF_mergeVars(Loop) /\ WF_mergeVars(TxExecutes)

-----------------------------------------------------------------------------
(* Properties. *)

Recording == pc \in {"count", "add", "push"}

TypeInv ==
  /\ described \subseteq Markets /\ logsInfo \in BOOLEAN
  /\ merges \in Nat /\ returned \in Nat /\ rows \in Nat
  /\ nonce \in Nat /\ usdce \in Nat
  /\ accepted \in Nat /\ promised \in Nat
  /\ trades \in Nat /\ failures \in Nat /\ repeats \in Nat
  /\ pc \in {"down", "idle", "scan", "balances", "sign", "submit",
             "count", "add", "push"}
  /\ toScan \subseteq Markets /\ awaited \subseteq Outcomes
  /\ current \in Markets
  /\ reading \in [Outcomes -> Holdings]
  /\ boxes \in [Markets -> Holdings]
  /\ balance \in [Markets -> [Outcomes -> Holdings]]
  /\ pending \subseteq Transactions
  /\ signedFor \in Nat
  /\ prompt \in BOOLEAN /\ untold \in Nat

(* Nothing is signed for a nonce the Safe has not reached, so a lost       *)
(* transaction never blocks the ones that follow.                          *)
NonceInv ==
  /\ signedFor <= nonce
  /\ \A tx \in pending : tx.nonce <= nonce

(* The books follow, command by command, what the relayer has accepted, and *)
(* stay empty where info lines are written.                                 *)
BooksInv ==
  /\ rows <= merges /\ merges <= accepted /\ returned <= promised
  /\ pc \in {"add", "push"} => rows < merges
  /\ pc = "count" => merges < accepted
  /\ pc \in {"count", "add"} => returned + boxes[current] <= promised
  /\ logsInfo => merges = 0 /\ returned = 0 /\ ~Recording

(* What may still be executed, and what has been, was accepted or lost its  *)
(* answer; what was accepted is counted, about to be, or lost its record.   *)
ToldInv ==
  /\ IsFiniteSet(pending)
  /\ ~logsInfo => nonce + Cardinality(pending)
                    <= merges + untold + (IF pc = "count" THEN 1 ELSE 0)

(* The chain has paid r in m merges, the one under way included. *)
Settles(m, r) ==
  \/ pending = {} /\ r = usdce /\ m = nonce
  \/ \E tx \in pending :
       pending = {tx} /\ r = usdce + tx.amount /\ m = nonce + 1

(* The books, with what the loop is about to add, are what was accepted.    *)
BooksAgree ==
  ~logsInfo =>
    /\ accepted = IF pc = "count" THEN merges + 1 ELSE merges
    /\ promised = IF pc \in {"count", "add"} THEN returned + boxes[current]
                                             ELSE returned

BooksSettle == Settles(accepted, promised) /\ BooksAgree

(* The merge under way will be executed, and is not looked at meanwhile. *)
UnderWay ==
  \A tx \in pending :
    /\ Executable(tx)
    /\ pc \notin {"balances", "submit"}
    /\ pc = "scan" => toScan = {}
    /\ Recording => tx.market = current /\ tx.amount = boxes[current]
    /\ pc \in {"scan", "sign"} => boxes[tx.market] = 0

(* What the scan has seen is still there. *)
SeenIsThere ==
  /\ pc \notin {"down", "idle"} =>
       \A m \in Markets : boxes[m] <= BoxOf(m) \/ (Recording /\ m = current)
  /\ pc = "balances" =>
       \A o \in Outcomes \ awaited : reading[o] <= balance[current][o]
  /\ pc = "submit" => signedFor = nonce
  /\ pc \in {"sign", "submit"} \/ Recording => toScan = {}

PromptInv == prompt => BooksSettle /\ UnderWay /\ SeenIsThere

MergeInv == TypeInv /\ NonceInv /\ BooksInv /\ ToldInv /\ PromptInv

(* A merge counts when the relayer has accepted it, not when the chain has  *)
(* executed it (recordMerge()).  As long as every merge lands before the    *)
(* service looks at the chain again, and no reply, record or token is lost  *)
(* on the way, the two agree: what was accepted is what the chain has paid  *)
(* or is about to pay, each merge once; and whenever the service sleeps,    *)
(* settlement:stats say just that, or nothing at all where info lines are   *)
(* written.                                                                 *)
PromptMergesAreExact ==
  prompt /\ pc = "idle" =>
    /\ Settles(accepted, promised)
    /\ <<merges, returned>> = IF logsInfo THEN <<0, 0>>
                                         ELSE <<accepted, promised>>

(* However scans, submissions and executions overlap, and whatever else     *)
(* trades: where info lines are not written, the chain has executed no more *)
(* merges than settlement:stats count, but for those whose answer or record *)
(* was lost; where they are written, none is ever counted.                  *)
MergesAreTold ==
  pc # "count" => IF logsInfo THEN merges = 0 ELSE nonce <= merges + untold

(* A box of a market that Redis describes does not stay: when the trading, *)
(* the failures and the useless submissions end, it is merged down to less *)
(* than minMergeAmount, whatever went wrong before.                        *)
BoxesAreMerged ==
  <>[](\A m \in described : BoxOf(m) < MinMerge)
=============================================================================
