------------------------ MODULE InvoiceBatchProofs --------------------------
(***************************************************************************)
(* Proofs about InvoiceBatch, for any requests, files, capacities and      *)
(* numbers of queries.  The invariant counts: a batch's semaphore and      *)
(* WaitGroup are the goroutines that have yet to give each back, so that   *)
(* wg.Wait returns only when every file has its result.                    *)
(***************************************************************************)
EXTENDS InvoiceBatch, FiniteSetTheorems, TLAPS

-----------------------------------------------------------------------------
(* The invariant.                                                          *)

Places  == {"idle", "released", "done"} \cup Processing
Results == {Nothing, "success", "error"}
Ended   == {"reported", "released", "done"}

\* Files whose goroutine has yet to call wg.Done.
Unfinished(r) == {i \in Indices(r) : at[r][i] \in Processing \cup {"released"}}

\* What each variable is, over all requests.
Shape ==
  /\ launched \in [Requests -> Nat] /\ sem \in [Requests -> Nat]
  /\ wg \in [Requests -> Nat]
  /\ at \in [Requests -> UNION {[Indices(r) -> Places] : r \in Requests}]
  /\ left \in [Requests -> UNION {[Indices(r) -> 0..Queries] : r \in Requests}]
  /\ results \in [Requests -> UNION {[Indices(r) -> Results] : r \in Requests}]
  /\ response \in [Requests -> {NoResponse, BadRequest}
                       \cup UNION {[Indices(r) -> Results] : r \in Requests}]

\* What a file's place says of its queries and its result.
FileInv(r, i) ==
  /\ at[r][i] = "idle" <=> i > launched[r]
  /\ at[r][i] \in {"idle", "read"} => left[r][i] = Queries
  /\ at[r][i] \in {"query", "connected"} => Files[r][i] = "invoice" /\ left[r][i] >= 1
  /\ at[r][i] \in Ended =>
        results[r][i] = IF Files[r][i] = "invoice" /\ left[r][i] = 0
                        THEN "success" ELSE "error"

\* The counts of a batch, and what its answer says; a single invoice's
\* goroutine, the handler's own, has nothing to give back.
RequestInv(r) ==
  /\ at[r] \in [Indices(r) -> Places]
  /\ left[r] \in [Indices(r) -> 0..Queries]
  /\ results[r] \in [Indices(r) -> Results]
  /\ launched[r] =< Len(Files[r])
  /\ \A i \in Indices(r) : FileInv(r, i)
  /\ IF r \in Batches
     THEN /\ sem[r] = Cardinality(InProgress(r)) /\ sem[r] =< maxBatchConcurrency
          /\ wg[r] = Cardinality(Unfinished(r))
     ELSE \A i \in Indices(r) : at[r][i] \notin {"released", "done"}
  /\ response[r] # NoResponse =>
        \/ Indices(r) = {}
        \/ response[r] = results[r] /\ \A i \in Indices(r) : at[r][i] \in Ended

IInv == Shape /\ \A r \in Requests : RequestInv(r)

-----------------------------------------------------------------------------
(* Files and the sets the counters count.                                  *)

\* A batch has finitely many files.
LEMMA IndicesType ==
  ASSUME NEW r \in Requests
  PROVE  /\ Len(Files[r]) \in Nat /\ Indices(r) = 1..Len(Files[r])
         /\ \A i \in Indices(r) : i \in Nat \ {0} /\ i =< Len(Files[r])
BY FilesAssumption DEF Indices

\* What is counted of a batch is finite.
LEMMA FiniteFiles ==
  ASSUME NEW r \in Requests
  PROVE  /\ \A S \in SUBSET Indices(r) : IsFiniteSet(S) /\ Cardinality(S) \in Nat
         /\ IsFiniteSet(InProgress(r)) /\ IsFiniteSet(Unfinished(r))
         /\ Cardinality(InProgress(r)) \in Nat /\ Cardinality(Unfinished(r)) \in Nat
<1>1. IsFiniteSet(Indices(r))
  BY IndicesType, FS_Interval
<1>2. \A S \in SUBSET Indices(r) : IsFiniteSet(S) /\ Cardinality(S) \in Nat
  BY <1>1, FS_Subset, FS_CardinalityType
<1>3. InProgress(r) \in SUBSET Indices(r) /\ Unfinished(r) \in SUBSET Indices(r)
  BY DEF InProgress, Unfinished
<1> QED
  BY <1>2, <1>3

\* What at, left and results are: a file's entry in its request's entry.
LEMMA FileUpdate ==
  ASSUME NEW V, NEW f \in [Requests -> UNION {[Indices(r) -> V] : r \in Requests}],
         NEW r \in Requests, f[r] \in [Indices(r) -> V], NEW i \in Indices(r), NEW v \in V
  PROVE  LET g == [f EXCEPT ![r][i] = v]
         IN  /\ g \in [Requests -> UNION {[Indices(q) -> V] : q \in Requests}]
             /\ g[r] \in [Indices(r) -> V]
             /\ \A j \in Indices(r) : g[r][j] = IF j = i THEN v ELSE f[r][j]
             /\ \A q \in Requests \ {r} : g[q] = f[q]
<1> DEFINE h == [f[r] EXCEPT ![i] = v]
<1>1. h \in [Indices(r) -> V] /\ \A j \in Indices(r) : h[j] = IF j = i THEN v ELSE f[r][j]
  OBVIOUS
<1>2. [f EXCEPT ![r][i] = v] = [f EXCEPT ![r] = h]
  OBVIOUS
<1>3. h \in UNION {[Indices(q) -> V] : q \in Requests}
  BY <1>1
<1> HIDE DEF h
<1> QED
  BY <1>1, <1>2, <1>3

\* A request keeps its invariant while others move.
LEMMA RequestFrame ==
  ASSUME NEW r \in Requests, RequestInv(r),
         launched'[r] = launched[r], sem'[r] = sem[r], wg'[r] = wg[r],
         at'[r] = at[r], left'[r] = left[r], results'[r] = results[r],
         response'[r] = response[r]
  PROVE  RequestInv(r)'
<1>1. InProgress(r)' = InProgress(r) /\ Unfinished(r)' = Unfinished(r)
  BY DEF InProgress, Unfinished
<1>2. \A i \in Indices(r) : FileInv(r, i)'
  BY DEF RequestInv, FileInv
<1> QED
  BY <1>1, <1>2 DEF RequestInv

\* A file that moves on is counted, or no longer counted, and the rest are as
\* they were.
LEMMA FileMoves ==
  ASSUME Shape, NEW r \in Requests, RequestInv(r), NEW i \in Indices(r),
         NEW p \in Places, Goto(r, i, p)
  PROVE  /\ at' \in [Requests -> UNION {[Indices(q) -> Places] : q \in Requests}]
         /\ at'[r] \in [Indices(r) -> Places]
         /\ \A j \in Indices(r) : at'[r][j] = IF j = i THEN p ELSE at[r][j]
         /\ \A q \in Requests \ {r} : at'[q] = at[q]
         /\ InProgress(r)' = IF p \in Processing THEN InProgress(r) \cup {i}
                                                 ELSE InProgress(r) \ {i}
         /\ Unfinished(r)' = IF p \in Processing \cup {"released"}
                             THEN Unfinished(r) \cup {i} ELSE Unfinished(r) \ {i}
<1>1. /\ at' \in [Requests -> UNION {[Indices(q) -> Places] : q \in Requests}]
      /\ at'[r] \in [Indices(r) -> Places]
      /\ \A j \in Indices(r) : at'[r][j] = IF j = i THEN p ELSE at[r][j]
      /\ \A q \in Requests \ {r} : at'[q] = at[q]
  <2>1. at \in [Requests -> UNION {[Indices(q) -> Places] : q \in Requests}]
        /\ at[r] \in [Indices(r) -> Places]
    BY DEF Shape, RequestInv
  <2>2. at' = [at EXCEPT ![r][i] = p]
    BY DEF Goto
  <2> QED
    BY <2>1, <2>2, FileUpdate
<1>2. InProgress(r)' = IF p \in Processing THEN InProgress(r) \cup {i}
                                           ELSE InProgress(r) \ {i}
  BY <1>1 DEF InProgress
<1>3. Unfinished(r)' = IF p \in Processing \cup {"released"}
                       THEN Unfinished(r) \cup {i} ELSE Unfinished(r) \ {i}
  BY <1>1 DEF Unfinished
<1> QED
  BY <1>1, <1>2, <1>3

-----------------------------------------------------------------------------
(* The handlers.                                                           *)

\* What each action does to the invariant.
LEMMA HandleProcessKeeps ==
  ASSUME IInv, NEW r \in Requests, HandleProcess(r)
  PROVE  IInv'
<1> USE DEF IInv
<1>1. /\ launched' = [launched EXCEPT ![r] = 1] /\ Goto(r, 1, "read") /\ r \notin Batches
      /\ launched[r] < Len(Files[r])
      /\ UNCHANGED <<sem, wg, left, results, response>>
  BY DEF HandleProcess
<1>2. /\ Len(Files[r]) = 1 /\ launched[r] = 0 /\ Indices(r) = {1}
  <2>1. launched[r] \in Nat
    BY DEF Shape
  <2>2. Len(Files[r]) =< 1 /\ Len(Files[r]) \in Nat /\ Indices(r) = 1..Len(Files[r])
    BY <1>1, FilesAssumption, IndicesType
  <2>3. \A m, n \in Nat : (n =< 1 /\ m < n) => (n = 1 /\ m = 0)
    OBVIOUS
  <2>4. Len(Files[r]) = 1 /\ launched[r] = 0
    BY <1>1, <2>1, <2>2, <2>3
  <2>5. 1..1 = {1}
    OBVIOUS
  <2> QED
    BY <2>2, <2>4, <2>5
<1>3. /\ at' \in [Requests -> UNION {[Indices(q) -> Places] : q \in Requests}]
      /\ at'[r] \in [Indices(r) -> Places] /\ at'[r][1] = "read"
      /\ \A q \in Requests \ {r} : at'[q] = at[q]
  <2>1. 1 \in Indices(r) /\ "read" \in Places /\ RequestInv(r)
    BY <1>2 DEF Places, Processing
  <2> QED
    BY <1>1, <2>1, FileMoves
<1>4. Shape'
  BY <1>1, <1>3 DEF Shape
<1>5. /\ launched'[r] = 1 /\ at[r][1] = "idle"
  BY <1>1, <1>2 DEF Shape, RequestInv, FileInv
<1>6. FileInv(r, 1)'
  BY <1>1, <1>2, <1>3, <1>5 DEF RequestInv, FileInv, Ended
<1>7. response[r] = NoResponse
  BY <1>2, <1>5 DEF RequestInv, Ended
<1>8. RequestInv(r)'
  <2>1. \A i \in Indices(r) : FileInv(r, i)'
    BY <1>2, <1>6
  <2>2. \A i \in Indices(r) : at'[r][i] \notin {"released", "done"}
    BY <1>2, <1>3
  <2>3. left[r] \in [Indices(r) -> 0..Queries] /\ results[r] \in [Indices(r) -> Results]
    BY DEF RequestInv
  <2>4. launched'[r] =< Len(Files[r])
    BY <1>2, <1>5
  <2> QED
    BY <1>1, <1>3, <1>7, <2>1, <2>2, <2>3, <2>4 DEF RequestInv
<1>9. ASSUME NEW q \in Requests \ {r} PROVE RequestInv(q)'
  BY <1>1, <1>3, RequestFrame DEF Shape
<1> QED
  BY <1>4, <1>8, <1>9

\* The file launched takes a token, of which there is one, and is counted.
LEMMA LaunchKeeps ==
  ASSUME IInv, NEW r \in Requests, Launch(r)
  PROVE  IInv'
<1> USE DEF IInv
<1> DEFINE i == launched[r] + 1
<1>1. /\ launched' = [launched EXCEPT ![r] = @ + 1] /\ sem' = [sem EXCEPT ![r] = @ + 1]
      /\ wg' = [wg EXCEPT ![r] = @ + 1] /\ Goto(r, i, "read") /\ r \in Batches
      /\ launched[r] < Len(Files[r]) /\ sem[r] < maxBatchConcurrency
      /\ UNCHANGED <<left, results, response>>
  BY DEF Launch
<1>2. /\ i \in Indices(r) /\ launched[r] \in Nat /\ sem[r] \in Nat /\ wg[r] \in Nat
      /\ at[r][i] = "idle"
  <2>1. launched[r] \in Nat /\ sem[r] \in Nat /\ wg[r] \in Nat
    BY DEF Shape
  <2>2. i \in Indices(r)
    BY <1>1, <2>1, IndicesType
  <2>3. FileInv(r, i) /\ i > launched[r]
    BY <2>1, <2>2 DEF RequestInv
  <2> HIDE DEF i
  <2> QED
    BY <2>1, <2>2, <2>3 DEF FileInv
<1>3. /\ launched'[r] = launched[r] + 1 /\ sem'[r] = sem[r] + 1 /\ wg'[r] = wg[r] + 1
      /\ launched' \in [Requests -> Nat] /\ sem' \in [Requests -> Nat]
      /\ wg' \in [Requests -> Nat]
  <2>1. /\ launched \in [Requests -> Nat] /\ sem \in [Requests -> Nat]
        /\ wg \in [Requests -> Nat]
    BY DEF Shape
  <2> HIDE DEF IInv
  <2> QED
    BY <1>1, <1>2, <2>1
<1> HIDE DEF i
<1>4. /\ at' \in [Requests -> UNION {[Indices(q) -> Places] : q \in Requests}]
      /\ at'[r] \in [Indices(r) -> Places]
      /\ \A j \in Indices(r) : at'[r][j] = IF j = i THEN "read" ELSE at[r][j]
      /\ \A q \in Requests \ {r} : at'[q] = at[q]
      /\ InProgress(r)' = InProgress(r) \cup {i}
      /\ Unfinished(r)' = Unfinished(r) \cup {i}
  BY <1>1, <1>2, FileMoves DEF Places, Processing
<1>5. Shape'
  BY <1>1, <1>3, <1>4 DEF Shape
<1>6. i \notin InProgress(r) /\ i \notin Unfinished(r)
  BY <1>2 DEF InProgress, Unfinished, Processing
<1>7. /\ Cardinality(InProgress(r)') = Cardinality(InProgress(r)) + 1
      /\ Cardinality(Unfinished(r)') = Cardinality(Unfinished(r)) + 1
  BY <1>4, <1>6, FiniteFiles, FS_AddElement
<1>8. ASSUME NEW j \in Indices(r) PROVE FileInv(r, j)'
  <2>1. FileInv(r, j) /\ FileInv(r, i) /\ j \in Nat
    BY <1>2, IndicesType DEF RequestInv
  <2>2. j > launched[r] <=> (j > launched'[r] \/ j = i)
    BY <1>2, <1>3, <2>1 DEF i
  <2>3. ~(i > launched'[r])
    BY <1>2, <1>3 DEF i
  <2> QED
    BY <1>1, <1>2, <1>4, <2>1, <2>2, <2>3 DEF FileInv, Ended
<1>9. response[r] = NoResponse
  BY <1>2 DEF RequestInv, Ended
<1>10. /\ sem[r] = Cardinality(InProgress(r)) /\ wg[r] = Cardinality(Unfinished(r))
       /\ left[r] \in [Indices(r) -> 0..Queries] /\ results[r] \in [Indices(r) -> Results]
  BY <1>1 DEF RequestInv
<1>11. launched'[r] =< Len(Files[r]) /\ sem'[r] =< maxBatchConcurrency
  BY <1>1, <1>2, <1>3, IndicesType, CapacityAssumption
<1>12. RequestInv(r)'
  BY <1>1, <1>3, <1>4, <1>7, <1>8, <1>9, <1>10, <1>11 DEF RequestInv
<1>13. ASSUME NEW q \in Requests \ {r} PROVE RequestInv(q)'
  BY <1>1, <1>4, RequestFrame DEF Shape
<1> QED
  BY <1>5, <1>12, <1>13

\* wg.Wait returns when every file has ended: all were counted when launched.
LEMMA RespondKeeps ==
  ASSUME IInv, NEW r \in Requests, Respond(r) \/ Refuse(r)
  PROVE  IInv'
<1> USE DEF IInv
<1>1. UNCHANGED <<launched, sem, wg, at, left, results>>
  BY DEF Respond, Refuse, local
<1>2. CASE Respond(r)
  <2>1. ASSUME NEW i \in Indices(r) PROVE at[r][i] \in Ended
    <3>1. at[r][i] \in Places /\ at[r][i] # "idle"
      BY <1>2, IndicesType DEF Respond, RequestInv, FileInv
    <3>2. CASE r \in Batches
      <4>1. Cardinality(Unfinished(r)) = 0
        BY <1>2, <3>2 DEF Respond, RequestInv
      <4>2. Unfinished(r) = {}
        BY <4>1, FiniteFiles, FS_EmptySet
      <4> QED
        BY <3>1, <4>2 DEF Unfinished, Places, Ended
    <3>3. CASE r \notin Batches
      <4>1. i = 1
        BY <3>3, FilesAssumption, IndicesType
      <4> QED
        BY <1>2, <3>3, <4>1 DEF Respond, Ended
    <3> QED
      BY <3>2, <3>3
  <2>2. response'[r] = results[r] /\ response' = [response EXCEPT ![r] = results[r]]
    BY <1>2 DEF Respond, Shape
  <2>3. Shape'
    BY <1>1, <2>2 DEF Shape
  <2>4. RequestInv(r)'
    <3>1. InProgress(r)' = InProgress(r) /\ Unfinished(r)' = Unfinished(r)
      BY <1>1 DEF InProgress, Unfinished
    <3>2. \A i \in Indices(r) : FileInv(r, i)'
      BY <1>1 DEF RequestInv, FileInv
    <3> QED
      BY <1>1, <2>1, <2>2, <3>1, <3>2 DEF RequestInv
  <2>5. ASSUME NEW q \in Requests \ {r} PROVE RequestInv(q)'
    BY <1>1, <2>2, RequestFrame DEF Shape
  <2> QED
    BY <2>3, <2>4, <2>5
<1>3. CASE Refuse(r)
  <2>1. Indices(r) = {} /\ response' = [response EXCEPT ![r] = BadRequest]
    BY <1>3 DEF Refuse, Indices
  <2>2. Shape'
    BY <1>1, <2>1 DEF Shape
  <2>3. RequestInv(r)'
    <3>1. InProgress(r)' = InProgress(r) /\ Unfinished(r)' = Unfinished(r)
      BY <1>1 DEF InProgress, Unfinished
    <3> QED
      BY <1>1, <2>1, <3>1 DEF RequestInv
  <2>4. ASSUME NEW q \in Requests \ {r} PROVE RequestInv(q)'
    BY <1>1, <2>1, RequestFrame DEF Shape
  <2> QED
    BY <2>2, <2>3, <2>4
<1> QED
  BY <1>2, <1>3

-----------------------------------------------------------------------------
(* The goroutine of a file.                                                *)

\* A file that is set to what it was is unchanged.
LEMMA FileSame ==
  ASSUME NEW V, NEW f \in [Requests -> UNION {[Indices(r) -> V] : r \in Requests}],
         NEW r \in Requests, f[r] \in [Indices(r) -> V], NEW i \in Indices(r)
  PROVE  f[r][i] \in V /\ [f EXCEPT ![r][i] = f[r][i]] = f
<1>1. f[r][i] \in V /\ [f[r] EXCEPT ![i] = f[r][i]] = f[r]
  OBVIOUS
<1>2. [f EXCEPT ![r][i] = f[r][i]] = [f EXCEPT ![r] = [f[r] EXCEPT ![i] = f[r][i]]]
  OBVIOUS
<1> QED
  BY <1>1, <1>2

\* A step of the pipeline: the file goes from a place with a query to make, or
\* the reading, to another such place or to its result, and stays counted.
LEMMA PipelineKeeps ==
  ASSUME IInv, NEW r \in Requests, NEW i \in Indices(r),
         at[r][i] \in {"read", "query", "connected"},
         NEW p \in {"query", "connected", "reported"}, Goto(r, i, p),
         NEW n \in 0..Queries, left' = [left EXCEPT ![r][i] = n],
         NEW v \in Results, results' = [results EXCEPT ![r][i] = v],
         p \in {"query", "connected"} => Files[r][i] = "invoice" /\ n >= 1,
         p = "reported" => v = IF Files[r][i] = "invoice" /\ n = 0
                               THEN "success" ELSE "error",
         UNCHANGED <<launched, sem, wg, response>>
  PROVE  IInv'
<1> USE DEF IInv
<1>1. Shape /\ RequestInv(r)
  OBVIOUS
<1>2. /\ at' \in [Requests -> UNION {[Indices(q) -> Places] : q \in Requests}]
      /\ at'[r] \in [Indices(r) -> Places]
      /\ \A j \in Indices(r) : at'[r][j] = IF j = i THEN p ELSE at[r][j]
      /\ \A q \in Requests \ {r} : at'[q] = at[q]
      /\ InProgress(r)' = InProgress(r) \cup {i}
      /\ Unfinished(r)' = Unfinished(r) \cup {i}
  BY <1>1, FileMoves DEF Places, Processing
<1>3. /\ left' \in [Requests -> UNION {[Indices(q) -> 0..Queries] : q \in Requests}]
      /\ left'[r] \in [Indices(r) -> 0..Queries]
      /\ \A j \in Indices(r) : left'[r][j] = IF j = i THEN n ELSE left[r][j]
      /\ \A q \in Requests \ {r} : left'[q] = left[q]
  <2>1. /\ left \in [Requests -> UNION {[Indices(q) -> 0..Queries] : q \in Requests}]
        /\ left[r] \in [Indices(r) -> 0..Queries]
    BY <1>1 DEF Shape, RequestInv
  <2> HIDE DEF IInv
  <2> QED
    BY <2>1, FileUpdate
<1>4. /\ results' \in [Requests -> UNION {[Indices(q) -> Results] : q \in Requests}]
      /\ results'[r] \in [Indices(r) -> Results]
      /\ \A j \in Indices(r) : results'[r][j] = IF j = i THEN v ELSE results[r][j]
      /\ \A q \in Requests \ {r} : results'[q] = results[q]
  <2>1. /\ results \in [Requests -> UNION {[Indices(q) -> Results] : q \in Requests}]
        /\ results[r] \in [Indices(r) -> Results]
    BY <1>1 DEF Shape, RequestInv
  <2> HIDE DEF IInv
  <2> QED
    BY <2>1, FileUpdate
<1>5. Shape'
  BY <1>1, <1>2, <1>3, <1>4 DEF Shape
<1>6. InProgress(r)' = InProgress(r) /\ Unfinished(r)' = Unfinished(r)
  BY <1>2 DEF InProgress, Unfinished, Processing
<1>7. ASSUME NEW j \in Indices(r) PROVE FileInv(r, j)'
  <2>1. FileInv(r, j)
    BY <1>1 DEF RequestInv
  <2> QED
    BY <1>2, <1>3, <1>4, <2>1 DEF FileInv, Ended
<1>8. response[r] = NoResponse
  BY <1>1 DEF RequestInv, Ended
<1>9. r \notin Batches => \A j \in Indices(r) : at'[r][j] \notin {"released", "done"}
  BY <1>1, <1>2 DEF RequestInv
<1>10. RequestInv(r)'
  BY <1>1, <1>2, <1>3, <1>4, <1>6, <1>7, <1>8, <1>9 DEF RequestInv
<1>11. ASSUME NEW q \in Requests \ {r} PROVE RequestInv(q)'
  BY <1>2, <1>3, <1>4, RequestFrame
<1> QED
  BY <1>5, <1>10, <1>11

\* Reading a file keeps the invariant.
LEMMA ReadKeeps ==
  ASSUME IInv, NEW r \in Requests, NEW i \in Indices(r), Read(r, i)
  PROVE  IInv'
<1>1. /\ left[r][i] \in 0..Queries /\ [left EXCEPT ![r][i] = left[r][i]] = left
      /\ results[r][i] \in Results /\ [results EXCEPT ![r][i] = results[r][i]] = results
      /\ FileInv(r, i)
  BY FileSame DEF IInv, Shape, RequestInv
<1>2. left[r][i] = Queries /\ left[r][i] >= 1 /\ left[r][i] # 0
  BY <1>1, CapacityAssumption DEF Read, FileInv
<1>3. /\ at[r][i] = "read" /\ left' = [left EXCEPT ![r][i] = left[r][i]]
      /\ UNCHANGED <<launched, sem, wg, response>>
  BY <1>1 DEF Read, local
<1>4. CASE Files[r][i] = "invoice" /\ Goto(r, i, "query") /\ UNCHANGED results
  <2>1. results' = [results EXCEPT ![r][i] = results[r][i]]
    BY <1>1, <1>4
  <2> QED
    BY <1>1, <1>2, <1>3, <1>4, <2>1, PipelineKeeps
<1>5. CASE Files[r][i] # "invoice" /\ Report(r, i, "error")
  <2>1. Goto(r, i, "reported") /\ results' = [results EXCEPT ![r][i] = "error"]
    BY <1>5 DEF Report
  <2> QED
    BY <1>1, <1>3, <1>5, <2>1, PipelineKeeps DEF Results
<1> QED
  BY <1>4, <1>5 DEF Read

\* Taking a connection keeps it.
LEMMA ConnectKeeps ==
  ASSUME IInv, NEW r \in Requests, NEW i \in Indices(r), Connect(r, i)
  PROVE  IInv'
<1>1. /\ left[r][i] \in 0..Queries /\ [left EXCEPT ![r][i] = left[r][i]] = left
      /\ results[r][i] \in Results /\ [results EXCEPT ![r][i] = results[r][i]] = results
      /\ FileInv(r, i)
  BY FileSame DEF IInv, Shape, RequestInv
<1>2. /\ at[r][i] = "query" /\ Goto(r, i, "connected")
      /\ left' = [left EXCEPT ![r][i] = left[r][i]]
      /\ results' = [results EXCEPT ![r][i] = results[r][i]]
      /\ UNCHANGED <<launched, sem, wg, response>>
  BY <1>1 DEF Connect, local
<1>3. Files[r][i] = "invoice" /\ left[r][i] >= 1
  BY <1>1, <1>2 DEF FileInv
<1> QED
  BY <1>1, <1>2, <1>3, PipelineKeeps

\* A query keeps it.
LEMMA QueryKeeps ==
  ASSUME IInv, NEW r \in Requests, NEW i \in Indices(r), Query(r, i)
  PROVE  IInv'
<1>1. /\ left[r][i] \in 0..Queries /\ FileInv(r, i)
      /\ results[r][i] \in Results /\ [results EXCEPT ![r][i] = results[r][i]] = results
  BY FileSame DEF IInv, Shape, RequestInv
<1>2. /\ at[r][i] = "connected" /\ left' = [left EXCEPT ![r][i] = left[r][i] - 1]
      /\ UNCHANGED <<launched, sem, wg, response>>
  BY DEF Query, local
<1>3. Files[r][i] = "invoice" /\ left[r][i] >= 1
  BY <1>1, <1>2 DEF FileInv
<1>4. left[r][i] - 1 \in 0..Queries
  BY <1>1, <1>3, CapacityAssumption
<1>5. CASE left[r][i] = 1 /\ Report(r, i, "success")
  <2>1. Goto(r, i, "reported") /\ results' = [results EXCEPT ![r][i] = "success"]
    BY <1>5 DEF Report
  <2>2. left[r][i] - 1 = 0 /\ "success" \in Results
    BY <1>5 DEF Results
  <2> QED
    BY <1>2, <1>3, <1>4, <2>1, <2>2, PipelineKeeps
<1>6. CASE left[r][i] > 1 /\ Goto(r, i, "query") /\ UNCHANGED results
  <2>1. left[r][i] - 1 >= 1 /\ results' = [results EXCEPT ![r][i] = results[r][i]]
    BY <1>1, <1>6
  <2> QED
    BY <1>1, <1>2, <1>3, <1>4, <1>6, <2>1, PipelineKeeps
<1> QED
  BY <1>5, <1>6 DEF Query

\* A query that fails keeps it.
LEMMA QueryFailsKeeps ==
  ASSUME IInv, NEW r \in Requests, NEW i \in Indices(r), QueryFails(r, i)
  PROVE  IInv'
<1>1. /\ left[r][i] \in 0..Queries /\ [left EXCEPT ![r][i] = left[r][i]] = left
      /\ FileInv(r, i)
  BY FileSame DEF IInv, Shape, RequestInv
<1>2. /\ at[r][i] \in {"query", "connected"} /\ Goto(r, i, "reported")
      /\ left' = [left EXCEPT ![r][i] = left[r][i]]
      /\ results' = [results EXCEPT ![r][i] = "error"]
      /\ UNCHANGED <<launched, sem, wg, response>>
  BY <1>1 DEF QueryFails, Report, local
<1>3. left[r][i] # 0
  BY <1>1, <1>2 DEF FileInv
<1> QED
  BY <1>1, <1>2, <1>3, PipelineKeeps DEF Results

\* The deferred calls give back what the launch took, once.
LEMMA ReleaseKeeps ==
  ASSUME IInv, NEW r \in Requests, NEW i \in Indices(r),
         ReleaseToken(r, i) \/ Done(r, i)
  PROVE  IInv'
<1>1. Shape /\ RequestInv(r) /\ r \in Batches
  BY DEF IInv, ReleaseToken, Done
<1>2. PICK p \in {"released", "done"} :
         Goto(r, i, p) /\ at[r][i] = IF p = "released" THEN "reported" ELSE "released"
  BY DEF ReleaseToken, Done
<1>3. UNCHANGED <<launched, left, results, response>>
  BY DEF ReleaseToken, Done
<1>4. /\ at' \in [Requests -> UNION {[Indices(q) -> Places] : q \in Requests}]
      /\ at'[r] \in [Indices(r) -> Places]
      /\ \A j \in Indices(r) : at'[r][j] = IF j = i THEN p ELSE at[r][j]
      /\ \A q \in Requests \ {r} : at'[q] = at[q]
      /\ InProgress(r)' = InProgress(r) \ {i}
      /\ Unfinished(r)' = IF p = "released" THEN Unfinished(r) \cup {i}
                                            ELSE Unfinished(r) \ {i}
  BY <1>1, <1>2, FileMoves DEF Places, Processing
<1>5. sem[r] \in Nat /\ wg[r] \in Nat /\ sem \in [Requests -> Nat] /\ wg \in [Requests -> Nat]
  BY <1>1 DEF Shape
<1>6. /\ sem' \in [Requests -> Nat] /\ wg' \in [Requests -> Nat]
      /\ sem'[r] = Cardinality(InProgress(r)') /\ wg'[r] = Cardinality(Unfinished(r)')
      /\ sem'[r] =< maxBatchConcurrency
      /\ \A q \in Requests \ {r} : sem'[q] = sem[q] /\ wg'[q] = wg[q]
  <2>1. /\ sem[r] = Cardinality(InProgress(r)) /\ sem[r] =< maxBatchConcurrency
        /\ wg[r] = Cardinality(Unfinished(r))
    BY <1>1 DEF RequestInv
  <2>2. CASE ReleaseToken(r, i)
    <3>1. p = "released" /\ sem' = [sem EXCEPT ![r] = @ - 1] /\ wg' = wg
      BY <1>2, <2>2 DEF ReleaseToken
    <3>2. i \in InProgress(r) /\ i \in Unfinished(r)
      BY <1>2, <3>1 DEF InProgress, Unfinished, Processing
    <3>3. Unfinished(r)' = Unfinished(r)
      BY <1>4, <3>1, <3>2
    <3>4. Cardinality(InProgress(r)') = Cardinality(InProgress(r)) - 1
      BY <1>4, <3>2, FiniteFiles, FS_RemoveElement
    <3>5. Cardinality(InProgress(r)') \in Nat
      <4>1. InProgress(r)' \in SUBSET Indices(r)
        BY DEF InProgress
      <4> QED
        BY <4>1, FiniteFiles
    <3> QED
      BY <1>5, <2>1, <3>1, <3>3, <3>4, <3>5, CapacityAssumption
  <2>3. CASE Done(r, i)
    <3>1. p = "done" /\ wg' = [wg EXCEPT ![r] = @ - 1] /\ sem' = sem
      BY <1>2, <2>3 DEF Done
    <3>2. i \notin InProgress(r) /\ i \in Unfinished(r)
      BY <1>2, <3>1 DEF InProgress, Unfinished, Processing
    <3>3. InProgress(r)' = InProgress(r)
      BY <1>4, <3>2
    <3>4. Cardinality(Unfinished(r)') = Cardinality(Unfinished(r)) - 1
      BY <1>4, <3>1, <3>2, FiniteFiles, FS_RemoveElement
    <3>5. Cardinality(Unfinished(r)') \in Nat
      <4>1. Unfinished(r)' \in SUBSET Indices(r)
        BY DEF Unfinished
      <4> QED
        BY <4>1, FiniteFiles
    <3> QED
      BY <1>5, <2>1, <3>1, <3>3, <3>4, <3>5
  <2> QED
    BY <2>2, <2>3
<1>7. Shape'
  BY <1>1, <1>3, <1>4, <1>6 DEF Shape
<1>8. ASSUME NEW j \in Indices(r) PROVE FileInv(r, j)'
  <2>1. FileInv(r, j)
    BY <1>1 DEF RequestInv
  <2> QED
    BY <1>2, <1>3, <1>4, <2>1 DEF FileInv, Ended
<1>9. RequestInv(r)'
  BY <1>1, <1>2, <1>3, <1>4, <1>6, <1>8 DEF RequestInv, Ended
<1>10. ASSUME NEW q \in Requests \ {r} PROVE RequestInv(q)'
  BY <1>3, <1>4, <1>6, RequestFrame DEF IInv
<1> QED
  BY <1>7, <1>9, <1>10 DEF IInv

-----------------------------------------------------------------------------
\* It holds at first.
LEMMA InitInv == Init => IInv
<1> SUFFICES ASSUME Init PROVE IInv
  OBVIOUS
<1>1. \A r \in Requests : /\ at[r] = [i \in Indices(r) |-> "idle"]
                          /\ left[r] = [i \in Indices(r) |-> Queries]
                          /\ results[r] = [i \in Indices(r) |-> Nothing]
                          /\ launched[r] = 0 /\ sem[r] = 0 /\ wg[r] = 0
                          /\ response[r] = NoResponse
  BY DEF Init
<1>2. \A r \in Requests : /\ at[r] \in [Indices(r) -> Places]
                          /\ left[r] \in [Indices(r) -> 0..Queries]
                          /\ results[r] \in [Indices(r) -> Results]
  <2>1. "idle" \in Places /\ Queries \in 0..Queries /\ Nothing \in Results
    BY CapacityAssumption DEF Places, Results
  <2> QED
    BY <1>1, <2>1
<1>3. Shape
  <2>1. /\ at = [r \in Requests |-> at[r]] /\ left = [r \in Requests |-> left[r]]
        /\ results = [r \in Requests |-> results[r]]
    BY DEF Init
  <2>2. /\ at \in [Requests -> UNION {[Indices(r) -> Places] : r \in Requests}]
        /\ left \in [Requests -> UNION {[Indices(r) -> 0..Queries] : r \in Requests}]
        /\ results \in [Requests -> UNION {[Indices(r) -> Results] : r \in Requests}]
    BY <1>2, <2>1
  <2> QED
    BY <2>2 DEF Init, Shape
<1>4. ASSUME NEW r \in Requests PROVE RequestInv(r)
  <2>1. InProgress(r) = {} /\ Unfinished(r) = {}
    BY <1>1 DEF InProgress, Unfinished, Processing
  <2>2. \A i \in Indices(r) : FileInv(r, i)
    <3>1. \A i \in Indices(r) : at[r][i] = "idle" /\ left[r][i] = Queries
      BY <1>1
    <3>2. launched[r] = 0
      BY <1>1
    <3>3. \A i \in Indices(r) : i > launched[r]
      BY <3>2, IndicesType
    <3> QED
      BY <3>1, <3>3 DEF FileInv, Ended
  <2>3. Len(Files[r]) >= 0 /\ maxBatchConcurrency >= 0
    BY IndicesType, CapacityAssumption
  <2> QED
    BY <1>1, <1>2, <2>1, <2>2, <2>3, FS_EmptySet DEF RequestInv
<1> QED
  BY <1>3, <1>4 DEF IInv

\* Every step keeps the invariant.
LEMMA NextInv == IInv /\ [Next]_vars => IInv'
<1> SUFFICES ASSUME IInv, [Next]_vars PROVE IInv'
  OBVIOUS
<1>1. CASE UNCHANGED vars
  <2>1. UNCHANGED <<launched, sem, wg, at, left, results, response>>
    BY <1>1 DEF vars
  <2> QED
    BY <2>1, RequestFrame DEF IInv, Shape
<1> QED
  BY <1>1, HandleProcessKeeps, LaunchKeeps, RespondKeeps, ReadKeeps, ConnectKeeps,
     QueryKeeps, QueryFailsKeeps, ReleaseKeeps
     DEF Next, HandlerStep, FileStep, Terminated

\* The invariant holds in every reachable state.
THEOREM Invariance == Spec => []IInv
BY InitInv, NextInv, PTL DEF Spec

-----------------------------------------------------------------------------
(* The pool.  There may be any number of requests, so that the connections *)
(* in use are finitely many is part of the invariant.                      *)

PoolInv == IsFiniteSet(Connected) /\ InUse =< MaxOpenConns

\* Only Connect gives a file a connection.
LEMMA ConnectedGrows ==
  ASSUME IInv, [Next]_vars
  PROVE  \/ Connected' \subseteq Connected
         \/ InUse < MaxOpenConns /\ \E f : Connected' \subseteq Connected \cup {f}
<1>1. ASSUME NEW r \in Requests, NEW i \in Indices(r), NEW p, Goto(r, i, p)
      PROVE  Connected' \subseteq IF p = "connected" THEN Connected \cup {<<r, i>>}
                                                     ELSE Connected
  <2>1. \A q \in Requests : \A j \in Indices(q) :
          at'[q][j] = IF q = r /\ j = i THEN p ELSE at[q][j]
    BY <1>1 DEF Goto, IInv, Shape, RequestInv
  <2>2. \A f \in Uploads : \E q \in Requests : \E j \in Indices(q) : f = <<q, j>>
    BY DEF Uploads
  <2> QED
    BY <2>1, <2>2 DEF Connected
<1>2. ASSUME UNCHANGED at
      PROVE  Connected' \subseteq Connected
  BY <1>2 DEF Connected
<1>3. ASSUME NEW r \in Requests, NEW i \in Indices(r), Connect(r, i)
      PROVE  InUse < MaxOpenConns /\ Connected' \subseteq Connected \cup {<<r, i>>}
  BY <1>1, <1>3 DEF Connect
<1>4. ASSUME NEW r \in Requests, HandleProcess(r) \/ Launch(r)
      PROVE  Connected' \subseteq Connected
  <2>1. launched[r] \in Nat /\ launched[r] < Len(Files[r])
    BY <1>4 DEF HandleProcess, Launch, IInv, Shape
  <2>2. 1 \in Indices(r) /\ launched[r] + 1 \in Indices(r)
    BY <2>1, IndicesType
  <2>3. \E i \in Indices(r) : Goto(r, i, "read")
    BY <1>4, <2>2 DEF HandleProcess, Launch
  <2> QED
    BY <1>1, <2>3
<1>5. ASSUME NEW r \in Requests, NEW i \in Indices(r),
             \/ Read(r, i) \/ Query(r, i) \/ QueryFails(r, i)
             \/ ReleaseToken(r, i) \/ Done(r, i)
      PROVE  Connected' \subseteq Connected
  <2>1. \E p \in {"query", "reported", "released", "done"} : Goto(r, i, p)
    BY <1>5 DEF Read, Query, QueryFails, ReleaseToken, Done, Report
  <2> QED
    BY <1>1, <2>1
<1> QED
  BY <1>2, <1>3, <1>4, <1>5
     DEF Next, HandlerStep, FileStep, Respond, Refuse, Terminated, vars

\* No more connections are in use than there are.
LEMMA PoolInvariance == Spec => []PoolInv
<1>1. Init => PoolInv
  <2> SUFFICES ASSUME Init PROVE PoolInv
    OBVIOUS
  <2>1. Connected = {}
    BY DEF Init, Connected, Uploads
  <2> QED
    BY <2>1, FS_EmptySet, CapacityAssumption DEF PoolInv, InUse
<1>2. IInv /\ PoolInv /\ [Next]_vars => PoolInv'
  <2> SUFFICES ASSUME IInv, PoolInv, [Next]_vars PROVE PoolInv'
    OBVIOUS
  <2>1. IsFiniteSet(Connected) /\ InUse \in Nat /\ InUse =< MaxOpenConns
    BY FS_CardinalityType DEF PoolInv, InUse
  <2>2. CASE Connected' \subseteq Connected
    BY <2>1, <2>2, FS_Subset, FS_CardinalityType, CapacityAssumption DEF PoolInv, InUse
  <2>3. ASSUME InUse < MaxOpenConns, NEW f, Connected' \subseteq Connected \cup {f}
        PROVE  PoolInv'
    <3>1. /\ IsFiniteSet(Connected \cup {f})
          /\ Cardinality(Connected \cup {f}) =< InUse + 1
      BY <2>1, FS_AddElement DEF InUse
    <3> QED
      BY <2>1, <2>3, <3>1, FS_Subset, FS_CardinalityType, CapacityAssumption
         DEF PoolInv, InUse
  <2> QED
    BY <2>2, <2>3, ConnectedGrows
<1> QED
  BY <1>1, <1>2, Invariance, PTL DEF Spec

-----------------------------------------------------------------------------
\* A batch's semaphore counts its files at work and never more than its cap, and
\* no more connections are in use than the pool has.
THEOREM TypeCorrect == Spec => []TypeOK
<1>1. IInv /\ PoolInv => TypeOK
  <2> SUFFICES ASSUME IInv, PoolInv PROVE TypeOK
    OBVIOUS
  <2>1. \A r \in Requests : \A i \in Indices(r) : results[r][i] \in Results
    BY DEF IInv, RequestInv
  <2>2. \A r \in Batches : /\ sem[r] = Cardinality(InProgress(r))
                           /\ sem[r] =< maxBatchConcurrency
    BY FilesAssumption DEF IInv, RequestInv
  <2> QED
    BY <2>1, <2>2 DEF IInv, Shape, TypeOK, Places, Results, PoolInv
<1> QED
  BY Invariance, PoolInvariance, <1>1, PTL

\* Whatever files fail and in whatever order they end, a response has the
\* result of each file, right, at the file's index.
THEOREM ResultsCorrect == Spec => []EachFileHasItsResult
<1>1. IInv => EachFileHasItsResult
  BY DEF IInv, RequestInv, FileInv, EachFileHasItsResult
<1> QED
  BY Invariance, <1>1, PTL

\* wg.Wait, or the handler's own return, comes after the last query of every
\* file: none is cut off by the end of the request's context.
THEOREM WaitCorrect == Spec => []NothingRunsAfterResponse
<1>1. IInv => NothingRunsAfterResponse
  BY DEF IInv, RequestInv, NothingRunsAfterResponse, Ended
<1> QED
  BY Invariance, <1>1, PTL

\* A batch alone leaves the pool a connection: its cap is below the pool's
\* size, as the comment on maxBatchConcurrency asks, for one batch.
THEOREM OneBatchLeavesRoom ==
  Spec => [](\A r \in Batches :
               Cardinality({i \in Indices(r) : at[r][i] = "connected"}) < MaxOpenConns)
<1>1. IInv => \A r \in Batches :
                Cardinality({i \in Indices(r) : at[r][i] = "connected"}) < MaxOpenConns
  <2> SUFFICES ASSUME IInv, NEW r \in Batches
               PROVE  Cardinality({i \in Indices(r) : at[r][i] = "connected"})
                         < MaxOpenConns
    OBVIOUS
  <2> DEFINE S == {i \in Indices(r) : at[r][i] = "connected"}
  <2>1. r \in Requests
    BY FilesAssumption
  <2>2. S \in SUBSET InProgress(r) /\ S \in SUBSET Indices(r)
    BY DEF InProgress, Processing
  <2> HIDE DEF S
  <2>3. Cardinality(S) =< Cardinality(InProgress(r))
    BY <2>1, <2>2, FiniteFiles, FS_Subset
  <2>4. /\ Cardinality(S) \in Nat /\ Cardinality(InProgress(r)) \in Nat
        /\ Cardinality(InProgress(r)) =< maxBatchConcurrency
    BY <2>1, <2>2, FiniteFiles DEF IInv, RequestInv
  <2>5. Cardinality(S) < MaxOpenConns
    BY <2>3, <2>4, CapacityAssumption
  <2> QED
    BY <2>5 DEF S
<1> QED
  BY Invariance, <1>1, PTL

=============================================================================
