---------------------------- MODULE InvoiceBatch ----------------------------
(***************************************************************************)
(* The two handlers of invoice_handler.go and the pool of connections all  *)
(* requests share.  HandleProcess runs the pipeline for the one invoice of *)
(* its request.  HandleProcessBatch launches a goroutine for each file,    *)
(* holds back while maxBatchConcurrency of them hold its semaphore, waits  *)
(* for all and answers with one result for each file, in their order.      *)
(*                                                                         *)
(* Of the pipeline there remain its queries: each takes a connection from  *)
(* the pool, waiting for one if need be, and gives it back.  Save's        *)
(* transaction is one of them, since it keeps its connection throughout.   *)
(*                                                                         *)
(* The pool has ten connections.  A server that has migrated by itself has *)
(* nine of them for its requests: golang-migrate has taken one for itself, *)
(* which nobody closes.                                                    *)
(***************************************************************************)
EXTENDS Integers, Sequences, FiniteSets

CONSTANTS
  Requests,             \* requests that reach the handlers
  Batches,              \* those of them for HandleProcessBatch
  Files,                \* Files[r]: what kind of file each of its files is
  Queries,              \* how many times an invoice needs a connection
  maxBatchConcurrency,  \* capacity of a batch's semaphore
  MaxOpenConns          \* connections of the pool there are for requests

Kinds == {"invoice",     \* reaches the database
          "rejected",    \* the parser rejects it
          "unreadable"}  \* cannot be opened or read, or is too large

ASSUME FilesAssumption ==
  /\ Batches \subseteq Requests
  /\ Files \in [Requests -> Seq(Kinds)]
  /\ \A r \in Requests \ Batches : Len(Files[r]) =< 1

ASSUME CapacityAssumption ==
  /\ Queries \in Nat \ {0} /\ maxBatchConcurrency \in Nat \ {0}
  /\ MaxOpenConns \in Nat /\ maxBatchConcurrency < MaxOpenConns

VARIABLES
  launched,   \* launched[r]: how many files of r are launched
  sem,        \* sem[r]: tokens in the batch's channel
  wg,         \* wg[r]: count of its WaitGroup
  at,         \* at[r][i]: how far the goroutine of file i is
  left,       \* left[r][i]: queries file i has yet to make
  results,    \* results[r][i]
  response    \* response[r]

local == <<launched, sem, wg>>
vars  == <<launched, sem, wg, at, left, results, response>>

Nothing    == "nothing"          \* the zero value of a result
NoResponse == <<>>
BadRequest == <<"bad request">>

\* Where a goroutine is between its launch and its end.
Processing == {"read", "query", "connected", "reported"}

Indices(r) == DOMAIN Files[r]
Goto(r, i, place) == at' = [at EXCEPT ![r][i] = place]

\* Connections in use.
Uploads == UNION {{r} \X Indices(r) : r \in Requests}
Connected == {f \in Uploads : at[f[1]][f[2]] = "connected"}
InUse     == Cardinality(Connected)

-----------------------------------------------------------------------------
Init ==
  /\ launched = [r \in Requests |-> 0]
  /\ sem = [r \in Requests |-> 0]
  /\ wg = [r \in Requests |-> 0]
  /\ at = [r \in Requests |-> [i \in Indices(r) |-> "idle"]]
  /\ left = [r \in Requests |-> [i \in Indices(r) |-> Queries]]
  /\ results = [r \in Requests |-> [i \in Indices(r) |-> Nothing]]
  /\ response = [r \in Requests |-> NoResponse]

\* HandleProcess calls the pipeline itself.
HandleProcess(r) ==
  /\ r \notin Batches /\ launched[r] < Len(Files[r])
  /\ launched' = [launched EXCEPT ![r] = 1]
  /\ Goto(r, 1, "read")
  /\ UNCHANGED <<sem, wg, left, results, response>>

\* Bug: no semaphore.
LaunchAtOnce(r) ==
  /\ r \in Batches /\ launched[r] < Len(Files[r])
  /\ launched' = [launched EXCEPT ![r] = @ + 1]
  /\ sem' = [sem EXCEPT ![r] = @ + 1]
  /\ wg' = [wg EXCEPT ![r] = @ + 1]
  /\ Goto(r, launched[r] + 1, "read")
  /\ UNCHANGED <<left, results, response>>

\* Bug: the WaitGroup is counted up by the goroutine, too late.
LaunchUncounted(r) ==
  /\ r \in Batches /\ launched[r] < Len(Files[r])
  /\ sem[r] < maxBatchConcurrency
  /\ launched' = [launched EXCEPT ![r] = @ + 1]
  /\ sem' = [sem EXCEPT ![r] = @ + 1]
  /\ Goto(r, launched[r] + 1, "read")
  /\ UNCHANGED <<wg, left, results, response>>

\* The next turn of the batch's loop, blocked while the channel is full.
Launch(r) ==
  /\ r \in Batches /\ launched[r] < Len(Files[r])
  /\ sem[r] < maxBatchConcurrency
  /\ launched' = [launched EXCEPT ![r] = @ + 1]
  /\ sem' = [sem EXCEPT ![r] = @ + 1]
  /\ wg' = [wg EXCEPT ![r] = @ + 1]
  /\ Goto(r, launched[r] + 1, "read")
  /\ UNCHANGED <<left, results, response>>

\* Bug: the goroutine writes to the index the loop is at.
ReportAtLoop(r, i, result) ==
  /\ results' = [results EXCEPT ![r][launched[r]] = result]
  /\ Goto(r, i, "reported")

\* processBatchFile returns and its result is written at the file's index.
Report(r, i, result) ==
  /\ results' = [results EXCEPT ![r][i] = result]
  /\ Goto(r, i, "reported")

Read(r, i) ==
  /\ at[r][i] = "read"
  /\ \/ /\ Files[r][i] = "invoice"
        /\ Goto(r, i, "query")
        /\ UNCHANGED results
     \/ /\ Files[r][i] # "invoice"
        /\ Report(r, i, "error")
  /\ UNCHANGED <<local, left, response>>

\* A connection is free, or has become so.
Connect(r, i) ==
  /\ at[r][i] = "query"
  /\ InUse < MaxOpenConns
  /\ Goto(r, i, "connected")
  /\ UNCHANGED <<local, left, results, response>>

\* Bug: a connection is kept until the last query, which needs a second one.
QueryHoldingOn(r, i) ==
  /\ at[r][i] = "connected"
  /\ InUse < MaxOpenConns
  /\ left' = [left EXCEPT ![r][i] = @ - 1]
  /\ IF left[r][i] = 1 THEN Report(r, i, "success")
     ELSE UNCHANGED <<at, results>>
  /\ UNCHANGED <<local, response>>

\* A query ends and gives its connection back.
Query(r, i) ==
  /\ at[r][i] = "connected"
  /\ left' = [left EXCEPT ![r][i] = @ - 1]
  /\ \/ /\ left[r][i] = 1
        /\ Report(r, i, "success")
     \/ /\ left[r][i] > 1
        /\ Goto(r, i, "query")
        /\ UNCHANGED results
  /\ UNCHANGED <<local, response>>

\* The pipeline fails: no connection can be opened, a query fails, or waiting or
\* working ends with the request's context, its client gone away.
QueryFails(r, i) ==
  /\ at[r][i] \in {"query", "connected"}
  /\ Report(r, i, "error")
  /\ UNCHANGED <<local, left, response>>

\* The deferred calls, last first: the token, then the WaitGroup.
ReleaseToken(r, i) ==
  /\ r \in Batches /\ at[r][i] = "reported"
  /\ sem' = [sem EXCEPT ![r] = @ - 1]
  /\ Goto(r, i, "released")
  /\ UNCHANGED <<launched, wg, left, results, response>>

Done(r, i) ==
  /\ r \in Batches /\ at[r][i] = "released"
  /\ wg' = [wg EXCEPT ![r] = @ - 1]
  /\ Goto(r, i, "done")
  /\ UNCHANGED <<launched, sem, left, results, response>>

\* wg.Wait returns, or HandleProcess has its result.
Respond(r) ==
  /\ response[r] = NoResponse
  /\ Files[r] # <<>> /\ launched[r] = Len(Files[r])
  /\ IF r \in Batches THEN wg[r] = 0 ELSE at[r][1] = "reported"
  /\ response' = [response EXCEPT ![r] = results[r]]
  /\ UNCHANGED <<local, at, left, results>>

\* A batch without files, or an empty body, is refused.
Refuse(r) ==
  /\ response[r] = NoResponse /\ Files[r] = <<>>
  /\ response' = [response EXCEPT ![r] = BadRequest]
  /\ UNCHANGED <<local, at, left, results>>

Terminated ==
  /\ \A r \in Requests : response[r] # NoResponse
  /\ UNCHANGED vars

HandlerStep(r) == HandleProcess(r) \/ Launch(r) \/ Respond(r) \/ Refuse(r)

FileStep(r, i) ==
  Read(r, i) \/ Connect(r, i) \/ Query(r, i) \/ ReleaseToken(r, i) \/ Done(r, i)

Next ==
  \/ \E r \in Requests :
       \/ HandlerStep(r)
       \/ \E i \in Indices(r) : FileStep(r, i) \/ QueryFails(r, i)
  \/ Terminated

Spec == Init /\ [][Next]_vars

\* Goroutines run, queries end, and database/sql serves those who wait for a
\* connection in turn, so that one who can have one again and again gets it.
FairSpec ==
  /\ Spec
  /\ \A r \in Requests :
       /\ WF_vars(HandlerStep(r))
       /\ \A i \in Indices(r) : WF_vars(FileStep(r, i)) /\ SF_vars(Connect(r, i))

-----------------------------------------------------------------------------
(* Properties.                                                             *)

InProgress(r) == {i \in Indices(r) : at[r][i] \in Processing}

TypeOK ==
  /\ launched \in [Requests -> Nat] /\ sem \in [Requests -> Nat]
  /\ wg \in [Requests -> Nat]
  /\ at \in [Requests -> UNION {[Indices(r) -> {"idle", "released", "done"} \cup Processing]
                                  : r \in Requests}]
  /\ left \in [Requests -> UNION {[Indices(r) -> 0..Queries] : r \in Requests}]
  /\ \A r \in Requests : \A i \in Indices(r) :
        results[r][i] \in {Nothing, "success", "error"}
  /\ \A r \in Batches : sem[r] = Cardinality(InProgress(r))
                            /\ sem[r] =< maxBatchConcurrency
  /\ InUse =< MaxOpenConns

\* Each file answers for itself, at its own index: success for the one whose
\* queries were all made, an error for any other, and no result is missing.
EachFileHasItsResult ==
  \A r \in Requests : response[r] \notin {NoResponse, BadRequest} =>
     \A i \in Indices(r) :
        response[r][i] = IF Files[r][i] = "invoice" /\ left[r][i] = 0
                         THEN "success" ELSE "error"

\* Once a request is answered its context ends, so none of its files may still
\* be at work: no query would be cut off, no result written to nobody.
NothingRunsAfterResponse ==
  \A r \in Requests : response[r] # NoResponse =>
     \A i \in Indices(r) : at[r][i] \notin {"read", "query", "connected"}

\* Every request is answered: neither the semaphore nor the pool nor a failing
\* file holds it up for ever.
EveryRequestIsAnswered ==
  \A r \in Requests : <>(response[r] # NoResponse)

\* invoice_handler.go:19-20: the cap is "kept below the DB pool's max open
\* connections to avoid starving it": no file finds the pool exhausted.
PoolIsNotStarved ==
  \A r \in Requests : \A i \in Indices(r) :
     at[r][i] = "query" => InUse < MaxOpenConns

=============================================================================
