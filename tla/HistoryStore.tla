----------------------------- MODULE HistoryStore -----------------------------
(***************************************************************************)
(* The SQLite history that services write behind what they do              *)
(* (shared/src/db.ts).  Every call opens the database if that is not done, *)
(* writes a row, and keeps any error to itself.  Calls are synchronous:    *)
(* only the end of the process comes between the two calls of the latency  *)
(* bot and of the alpha executor.                                          *)
(*                                                                         *)
(* One service is looked at; others may create the tables.  The signal     *)
(* service that writes here as well is the module SportsSignals.           *)
(***************************************************************************)
EXTENDS Integers

CONSTANTS
  Writers,               \* the services to look at
  MaxRows,               \* bound: units of a service's work
  MaxFaults              \* bound: faults

Tables == {"signals", "trades", "positions", "days"}

ASSUME HistoryStoreAssumption ==
  /\ Writers \subseteq {"sports", "latency", "alpha"}
  /\ MaxRows \in Nat /\ MaxFaults \in Nat

VARIABLES
  writer,                \* the service
  handle,                \* db of its process: none, bare (no schema) or ready
  schema,                \* the tables exist
  hadTables,             \* history: they did when it all began
  rows,                  \* rows written; for days, the sum of trades_count
  done,                  \* units of work it was to record
  call,                  \* the call it makes next
  faults                 \* counter for the bound

storeVars == <<writer, handle, schema, hadTables, rows, done, call, faults>>

Fault == faults < MaxFaults /\ faults' = faults + 1

HistoryInit ==
  /\ writer \in Writers
  /\ handle = "none"
  /\ schema \in BOOLEAN /\ hadTables = schema
  /\ rows = [t \in Tables |-> 0]
  /\ done = 0 /\ call = "none" /\ faults = 0

-----------------------------------------------------------------------------
(* getDb() and a statement. *)

(* Mutant: a row that could not be written is tried once more, though it   *)
(* may have been.                                                          *)
WrittenTwice(t) ==
  /\ handle # "bare" \/ schema
  /\ IF handle = "none" THEN handle' = "ready" /\ schema' = TRUE
                        ELSE UNCHANGED <<handle, schema>>
  /\ \/ rows' = [rows EXCEPT ![t] = @ + 1] /\ UNCHANGED faults
     \/ rows' = [rows EXCEPT ![t] = @ + 2] /\ Fault

Written(t) ==
  /\ handle # "bare" \/ schema
  /\ IF handle = "none" THEN handle' = "ready" /\ schema' = TRUE
                        ELSE UNCHANGED <<handle, schema>>
  /\ rows' = [rows EXCEPT ![t] = @ + 1]
  /\ UNCHANGED faults

(* The file cannot be opened; or initSchema() throws and the connection    *)
(* stays, or the statement throws.                                         *)
NotWritten ==
  /\ Fault
  /\ IF handle = "none" THEN handle' \in {"none", "bare"} ELSE UNCHANGED handle
  /\ UNCHANGED <<schema, rows>>

(* Nothing creates the tables for a connection that failed to. *)
NoTables ==
  /\ handle = "bare" /\ ~schema
  /\ UNCHANGED <<handle, schema, rows, faults>>

Record(t) ==
  /\ Written(t) \/ NotWritten \/ NoTables
  /\ UNCHANGED <<writer, hadTables, done>>

-----------------------------------------------------------------------------
(* The latency bot's window, and the alpha executor's order. *)

Work(first) ==
  /\ call = "none" /\ call' = first
  /\ done < MaxRows /\ done' = done + 1
  /\ UNCHANGED <<writer, handle, schema, hadTables, rows, faults>>

WindowEnds == writer = "latency" /\ Work("trades")
OrderFilled == writer = "alpha" /\ Work("positions")

RecordTrade ==
  /\ call = "trades"
  /\ call' = IF writer = "latency" THEN "days" ELSE "none"
  /\ Record("trades")

(* The first trade of a day inserts its row, later ones add to it. *)
UpdateDailyStats == call = "days" /\ call' = "none" /\ Record("days")

RecordPosition == call = "positions" /\ call' = "trades" /\ Record("positions")

-----------------------------------------------------------------------------
(* Another service opens the database. *)
OthersInit ==
  /\ ~schema /\ schema' = TRUE
  /\ UNCHANGED <<writer, handle, hadTables, rows, done, call, faults>>

(* The process is killed and started again. *)
ProcessEnds ==
  /\ Fault
  /\ handle' = "none" /\ call' = "none"
  /\ UNCHANGED <<writer, schema, hadTables, rows, done>>

HistoryNext ==
  \/ WindowEnds \/ OrderFilled
  \/ RecordTrade \/ UpdateDailyStats \/ RecordPosition
  \/ OthersInit

-----------------------------------------------------------------------------
(* The rows that a service's work should have brought, and still may. *)
TablesOf == IF writer = "sports" THEN {"signals"}
            ELSE IF writer = "latency" THEN {"trades", "days"}
            ELSE {"positions", "trades"}

Awaited == IF call = "none" THEN {}
           ELSE IF call = "days" THEN {"days"}
           ELSE IF writer = "alpha" /\ call = "trades" THEN {"trades"}
           ELSE TablesOf

(* recordSignal(), recordTrade(), updateDailyStats(), recordPosition():    *)
(* where the tables were there from the start, each table of a service     *)
(* follows its work: no row without work, and no more rows missing than    *)
(* there were faults, so that trades and daily statistics agree up to them.*)
HistoryFollows ==
  hadTables =>
    \A t \in TablesOf :
      LET expected == done - (IF t \in Awaited THEN 1 ELSE 0) IN
      rows[t] \in expected - faults .. expected
=============================================================================
