---------------------------- MODULE StartupProofs ---------------------------
(***************************************************************************)
(* Proofs about Startup, for any processes, settings, requests, catalogs   *)
(* and bounds: the advisory lock keeps migrations apart, and a server      *)
(* that listens is ready and names the concepts its classifier knows.      *)
(***************************************************************************)
EXTENDS Startup, TLAPS

\* What at and got are: a caller's entry in a server's entry.
LEMMA NestedUpdate ==
  ASSUME NEW S, NEW C, NEW T, NEW f \in [S -> [C -> T]],
         NEW s \in S, NEW c \in C, NEW t \in T
  PROVE  /\ [f EXCEPT ![s][c] = t] \in [S -> [C -> T]]
         /\ \A x \in S, y \in C :
               [f EXCEPT ![s][c] = t][x][y] = IF x = s /\ y = c THEN t ELSE f[x][y]
<1>1. [f EXCEPT ![s][c] = t] = [f EXCEPT ![s] = [f[s] EXCEPT ![c] = t]]
  OBVIOUS
<1>2. [f[s] EXCEPT ![c] = t] \in [C -> T]
  OBVIOUS
<1> QED
  BY <1>1, <1>2

-----------------------------------------------------------------------------
(* Types, and with them that a migration holds the lock.                   *)

Steps == {"idle", "check", "read", "query", "fill", "returned"}

\* A caller that moves to a step leaves the others where they are.
LEMMA AdvanceType ==
  ASSUME TypeOK, NEW p \in Servers, NEW c \in Callers, NEW s \in Steps,
         Advance(p, c, s)
  PROVE  /\ at' \in [Servers -> [Callers -> Steps]]
         /\ \A q \in Servers, d \in Callers :
               at'[q][d] = IF q = p /\ d = c THEN s ELSE at[q][d]
<1>1. at \in [Servers -> [Callers -> Steps]]
  BY DEF TypeOK, Steps
<1> QED
  BY <1>1, NestedUpdate DEF Advance

\* The types hold at first.
LEMMA InitType == Init => TypeOK
<1> SUFFICES ASSUME Init PROVE TypeOK
  OBVIOUS
<1>1. deaths \in 0..MaxDeaths /\ edits \in 0..MaxEdits
  BY BoundsAssumption DEF Init
<1>2. /\ at \in [Servers -> [Callers -> {"idle"}]]
      /\ got \in [Servers -> [Callers -> {Nil}]]
  BY DEF Init
<1>3. pc \in [Processes -> {"idle"}]
  BY DEF Init
<1> QED
  BY <1>1, <1>2, <1>3 DEF Init, TypeOK, Migrating

\* Steps of a migration move the process that holds the lock.
LEMMA MigrateType ==
  ASSUME TypeOK, NEW p \in Processes, Open(p) \/ Migrate(p)
  PROVE  TypeOK'
<1> USE DEF TypeOK, Goto, Starting, Started, Migrating, Catalogs, database, catalog,
            bounds
<1>0. ASSUME p \in Servers, CallForClassifier(p)
      PROVE  at' \in [Servers -> [Callers -> Steps]]
  BY <1>0, AdvanceType DEF CallForClassifier, Advance, Steps, Callers
<1>1. CASE Open(p)
  <2>1. at' \in [Servers -> [Callers -> Steps]]
    BY <1>0, <1>1 DEF Open, Migrates, Processes, Steps
  <2> QED
    BY <1>1, <2>1 DEF Open, Steps
<1>2. CASE Lock(p)
  BY <1>2, ServersAssumption DEF Lock
<1>3. CASE Version(p)
  BY <1>3 DEF Version
<1>4. CASE MarkDirty(p)
  BY <1>4 DEF MarkDirty
<1>5. CASE Run(p)
  BY <1>5 DEF Run
<1>6. CASE MarkClean(p)
  BY <1>6 DEF MarkClean
<1>7. CASE Unlock(p)
  <2>1. at' \in [Servers -> [Callers -> Steps]]
    BY <1>0, <1>7 DEF Unlock, Steps
  <2> QED
    BY <1>7, <2>1 DEF Unlock, Steps
<1> QED
  BY <1>1, <1>2, <1>3, <1>4, <1>5, <1>6, <1>7 DEF Migrate

\* Steps of a server move no migration.
LEMMA ServeType ==
  ASSUME TypeOK, NEW p \in Servers,
         \/ Serve(p)
         \/ \E c \in Requests : Request(p, c) \/ ListConcepts(p, c)
  PROVE  TypeOK'
<1> USE DEF TypeOK, Goto, Starting, Started, Migrating, Catalogs, database, catalog,
            bounds, Advance, Runs, Processes, Callers
<1>1. ASSUME NEW c \in Callers, ReadCache(p, c) PROVE TypeOK'
  BY <1>1 DEF ReadCache
<1>2. ASSUME NEW c \in Callers, ReleaseCache(p, c) PROVE TypeOK'
  BY <1>2 DEF ReleaseCache
<1>3. ASSUME NEW c \in Callers, QueryConcepts(p, c) PROVE TypeOK'
  BY <1>3 DEF QueryConcepts
<1>4. ASSUME NEW c \in Callers, Fill(p, c) PROVE TypeOK'
  <2>1. at' \in [Servers -> [Callers -> Steps]]
    BY <1>4, AdvanceType DEF Fill, Steps
  <2>2. got[p][c] \in Catalogs \cup {Nil}
    OBVIOUS
  <2> QED
    BY <1>4, <2>1, <2>2 DEF Fill, Steps
<1>5. ASSUME NEW c \in Callers, Request(p, c) PROVE TypeOK'
  BY <1>5 DEF Request
<1>6. CASE QueryFails(p)
  BY <1>6 DEF QueryFails
<1>7. CASE NewClassifier(p)
  <2>1. got[p][Wiring] \in Catalogs \cup {Nil}
    OBVIOUS
  <2> QED
    BY <1>7, <2>1 DEF NewClassifier
<1> QED
  BY <1>1, <1>2, <1>3, <1>4, <1>5, <1>6, <1>7 DEF Serve, ListConcepts

\* Every step keeps the types.
LEMMA NextType == TypeOK /\ [Next]_vars => TypeOK'
<1> SUFFICES ASSUME TypeOK, [Next]_vars PROVE TypeOK'
  OBVIOUS
<1> USE DEF TypeOK, Goto, Starting, Started, Migrating, Catalogs, database, catalog,
            bounds
<1>1. ASSUME NEW p \in Processes, Die(p) PROVE TypeOK'
  BY <1>1, BoundsAssumption DEF Die
<1>2. ASSUME NEW p \in Processes, Restart(p) PROVE TypeOK'
  <2>1. deaths' \in 0..MaxDeaths
    BY <1>2, BoundsAssumption DEF Restart
  <2>2. pc' = [pc EXCEPT ![p] = "idle"]
    BY <1>2 DEF Restart
  <2>3. CASE p \in Servers
    <3>1. /\ cache' = [cache EXCEPT ![p] = Nil]
          /\ held' = [held EXCEPT ![p] = {}]
          /\ at' = [at EXCEPT ![p] = [c \in Callers |-> "idle"]]
          /\ got' = [got EXCEPT ![p] = [c \in Callers |-> Nil]]
          /\ classifier' = [classifier EXCEPT ![p] = Nil]
      BY <1>2, <2>3 DEF Restart
    <3>2. at' \in [Servers -> [Callers -> Steps]]
      <4>1. [c \in Callers |-> "idle"] \in [Callers -> Steps]
        BY DEF Steps
      <4> QED
        BY <3>1, <4>1 DEF Steps
    <3>3. got' \in [Servers -> [Callers -> Catalogs \cup {Nil}]]
      <4>1. [c \in Callers |-> Nil] \in [Callers -> Catalogs \cup {Nil}]
        OBVIOUS
      <4> HIDE DEF Catalogs
      <4> QED
        BY <3>1, <4>1
    <3>4. /\ cache' \in [Servers -> Catalogs \cup {Nil}]
          /\ held' \in [Servers -> SUBSET Callers]
          /\ classifier' \in [Servers -> Catalogs \cup {Nil}]
      BY <3>1
    <3> QED
      BY <1>2, <2>1, <2>2, <3>2, <3>3, <3>4 DEF Restart, Steps
  <2>4. CASE p \notin Servers
    BY <1>2, <2>1, <2>2, <2>4 DEF Restart
  <2> QED
    BY <2>3, <2>4
<1>3. CASE Edit
  BY <1>3, BoundsAssumption DEF Edit
<1>4. CASE UNCHANGED vars
  BY <1>4 DEF vars
<1> QED
  BY <1>1, <1>2, <1>3, <1>4, MigrateType, ServeType DEF Next, Terminated

\* Values stay within their types, and a process that migrates holds the
\* advisory lock until its last step.
THEOREM TypeCorrect == Spec => []TypeOK
BY InitType, NextType, PTL DEF Spec

-----------------------------------------------------------------------------
(* The schema's version, as the holder of the lock moves it.               *)

\* Only the process that migrates, of which there is one, has a version that
\* is dirty for a reason other than a death; where it is tells what it found.
SchemaInv ==
  /\ VersionTellsSchema
  /\ \A p \in Processes :
       /\ pc[p] = "dirty"  => version = "none"
       /\ pc[p] = "run"    => version = "dirty" /\ concepts = NoTable
       /\ pc[p] = "clean"  => version = "dirty" /\ concepts # NoTable
       /\ pc[p] = "unlock" => version = "clean"

\* A caller's steps in ListConcepts, and what it knows at each: what it has
\* read or filled in is the cache; no request comes before the startup's own
\* call has filled the cache the classifier was built from.
CallerInv(p) ==
  /\ cache[p] # Nil => concepts # NoTable
  /\ at[p][Wiring] = "fill" => got[p][Wiring] \in Catalogs /\ concepts # NoTable
  /\ at[p][Wiring] \in {"read", "returned"} => got[p][Wiring] = cache[p]
  /\ at[p][Wiring] = "returned" => cache[p] \in Catalogs
  /\ pc[p] = "listening" => /\ at[p][Wiring] = "returned"
                            /\ classifier[p] = cache[p]
                            /\ cache[p] # {}
  /\ \A c \in Requests :
       at[p][c] # "idle" => /\ at[p][c] \in {"check", "read", "returned"}
                            /\ pc[p] \in {"listening", "exited"}
                            /\ at[p][Wiring] = "returned"
                            /\ classifier[p] = cache[p]
                            /\ at[p][c] # "check" => got[p][c] = cache[p]

IInv == TypeOK /\ SchemaInv /\ \A p \in Servers : CallerInv(p)

\* No process holds the lock of another, and steps that are not a migration's
\* leave the version, and a holder of the lock, alone.
LEMMA NextSchema == TypeOK /\ SchemaInv /\ [Next]_vars => SchemaInv'
<1> SUFFICES ASSUME TypeOK, SchemaInv, [Next]_vars PROVE SchemaInv'
  OBVIOUS
<1> USE ServersAssumption DEF TypeOK, SchemaInv, VersionTellsSchema, Goto, Migrating,
                              database, bounds
<1>1. ASSUME NEW p \in Processes, Open(p) PROVE SchemaInv'
  BY <1>1 DEF Open
<1>2. ASSUME NEW p \in Processes, Lock(p) PROVE SchemaInv'
  BY <1>2 DEF Lock
<1>3. ASSUME NEW p \in Processes, Version(p) PROVE SchemaInv'
  BY <1>3 DEF Version
<1>4. ASSUME NEW p \in Processes, MarkDirty(p) PROVE SchemaInv'
  BY <1>4 DEF MarkDirty
<1>5. ASSUME NEW p \in Processes, Run(p) PROVE SchemaInv'
  BY <1>5, MarksAssumption DEF Run, Catalogs
<1>6. ASSUME NEW p \in Processes, MarkClean(p) PROVE SchemaInv'
  BY <1>6 DEF MarkClean
<1>7. ASSUME NEW p \in Processes, Unlock(p) PROVE SchemaInv'
  BY <1>7 DEF Unlock
<1>8. ASSUME NEW p \in Processes, Die(p) PROVE SchemaInv'
  BY <1>8 DEF Die
<1>9. ASSUME NEW p \in Processes, Restart(p) PROVE SchemaInv'
  <2>1. UNCHANGED <<version, concepts, lock, broken>> /\ pc[p] = "exited"
    BY <1>9 DEF Restart
  <2>2. pc' = [pc EXCEPT ![p] = "idle"]
    BY <1>9 DEF Restart
  <2> QED
    BY <2>1, <2>2
<1>10. ASSUME NEW p \in Servers, Serve(p) PROVE SchemaInv'
  <2>1. /\ UNCHANGED <<version, concepts, lock, broken>> /\ pc[p] \in {"catalog", "listening"}
        /\ \/ pc' = pc
           \/ pc' = [pc EXCEPT ![p] = "exited"]
           \/ pc' = [pc EXCEPT ![p] = "listening"]
    BY <1>10 DEF Serve, ListConcepts, ReadCache, ReleaseCache, QueryConcepts, Fill,
                 QueryFails, NewClassifier, Runs
  <2> QED
    BY <2>1 DEF Processes
<1>11. ASSUME NEW p \in Servers, NEW c \in Requests, Request(p, c) \/ ListConcepts(p, c)
       PROVE  SchemaInv'
  BY <1>11 DEF Request, ListConcepts, ReadCache, ReleaseCache, QueryConcepts, Fill
<1>12. CASE Edit
  BY <1>12, MarksAssumption DEF Edit, Catalogs
<1>13. CASE UNCHANGED vars
  BY <1>13 DEF vars
<1> QED
  BY <1>1, <1>2, <1>3, <1>4, <1>5, <1>6, <1>7, <1>8, <1>9, <1>10, <1>11, <1>12, <1>13
     DEF Next, Migrate, Terminated

-----------------------------------------------------------------------------
(* Callers of ListConcepts.                                                *)

\* A server keeps its invariant while others move, the table is edited, or it
\* goes on, without its callers, to anything but listening.
LEMMA CallerFrame ==
  ASSUME NEW p \in Servers, CallerInv(p),
         cache'[p] = cache[p], at'[p] = at[p], got'[p] = got[p],
         classifier'[p] = classifier[p],
         concepts # NoTable => concepts' # NoTable,
         pc'[p] = "listening" => pc[p] = "listening",
         pc[p] \in {"listening", "exited"} => pc'[p] \in {"listening", "exited"}
  PROVE  CallerInv(p)'
BY DEF CallerInv

\* The startup's call begins when no request has been let in.
LEMMA CallForClassifierKeeps ==
  ASSUME TypeOK, NEW p \in Servers, CallerInv(p), CallForClassifier(p),
         pc[p] \notin {"listening", "exited"}, pc'[p] = "catalog",
         UNCHANGED <<cache, got, classifier, concepts>>
  PROVE  CallerInv(p)'
<1>1. \A c \in Callers : at'[p][c] = IF c = Wiring THEN "check" ELSE at[p][c]
  BY AdvanceType DEF CallForClassifier, Advance, Steps, Callers
<1> QED
  BY <1>1, CallersAssumption DEF CallerInv, Callers

\* A step of ListConcepts, for whichever caller.
LEMMA ListConceptsKeeps ==
  ASSUME TypeOK, NEW p \in Servers, CallerInv(p), NEW c \in Callers, ListConcepts(p, c)
  PROVE  CallerInv(p)'
<1> USE CallersAssumption, MarksAssumption DEF CallerInv, Callers, Runs
<1>1. ASSUME NEW s \in Steps, Advance(p, c, s)
      PROVE  \A d \in Callers : at'[p][d] = IF d = c THEN s ELSE at[p][d]
  BY <1>1, AdvanceType
<1>2. ASSUME NEW v \in Catalogs \cup {Nil}, got' = [got EXCEPT ![p][c] = v]
      PROVE  \A d \in Callers : got'[p][d] = IF d = c THEN v ELSE got[p][d]
  BY <1>2, NestedUpdate DEF TypeOK
<1>3. cache[p] \in Catalogs \cup {Nil}
  BY DEF TypeOK
<1>4. CASE ReadCache(p, c)
  <2>1. \A d \in Callers : at'[p][d] = IF d = c THEN "read" ELSE at[p][d]
    BY <1>1, <1>4 DEF ReadCache, Steps
  <2>2. \A d \in Callers : got'[p][d] = IF d = c THEN cache[p] ELSE got[p][d]
    BY <1>2, <1>3, <1>4 DEF ReadCache
  <2> QED
    BY <1>4, <2>1, <2>2 DEF ReadCache, database
<1>5. CASE ReleaseCache(p, c)
  <2>1. \A d \in Callers :
           at'[p][d] = IF d = c THEN IF got[p][c] = Nil THEN "query" ELSE "returned"
                                ELSE at[p][d]
    BY <1>1, <1>5 DEF ReleaseCache, Steps
  <2>2. got[p][c] = cache[p]
    BY <1>5 DEF ReleaseCache
  <2> QED
    BY <1>3, <1>5, <2>1, <2>2 DEF ReleaseCache, database
<1>6. CASE QueryConcepts(p, c)
  <2>1. c = Wiring /\ concepts \in Catalogs
    BY <1>6 DEF QueryConcepts, TypeOK
  <2>2. \A d \in Callers : at'[p][d] = IF d = c THEN "fill" ELSE at[p][d]
    BY <1>1, <1>6 DEF QueryConcepts, Steps
  <2>3. \A d \in Callers : got'[p][d] = IF d = c THEN concepts ELSE got[p][d]
    BY <1>2, <1>6, <2>1 DEF QueryConcepts
  <2> QED
    BY <1>6, <2>1, <2>2, <2>3 DEF QueryConcepts, database
<1>7. CASE Fill(p, c)
  <2>1. c = Wiring /\ got[p][c] \in Catalogs /\ concepts # NoTable
    BY <1>7 DEF Fill
  <2>2. \A d \in Callers : at'[p][d] = IF d = c THEN "returned" ELSE at[p][d]
    BY <1>1, <1>7 DEF Fill, Steps
  <2>3. cache'[p] = got[p][c]
    BY <1>7 DEF Fill, TypeOK
  <2>4. pc[p] # "listening"
    BY <1>7, <2>1 DEF Fill
  <2> QED
    BY <1>7, <2>1, <2>2, <2>3, <2>4 DEF Fill, database
<1> QED
  BY <1>4, <1>5, <1>6, <1>7 DEF ListConcepts

\* What a server does of its own, besides ListConcepts.
LEMMA ServerKeeps ==
  ASSUME TypeOK, NEW p \in Servers, CallerInv(p),
         \/ QueryFails(p) \/ NewClassifier(p)
         \/ \E c \in Requests : Request(p, c)
  PROVE  CallerInv(p)'
<1> USE CallersAssumption, MarksAssumption DEF CallerInv, Callers, Runs, Goto
<1>0. p \in Processes
  BY DEF Processes
<1>1. CASE QueryFails(p)
  <2>1. \A d \in Callers : at'[p][d] = IF d = Wiring THEN "idle" ELSE at[p][d]
    BY <1>1, AdvanceType DEF QueryFails, Advance, Steps
  <2>2. pc'[p] = "exited"
    BY <1>0, <1>1 DEF QueryFails, TypeOK
  <2> QED
    BY <1>1, <2>1, <2>2 DEF QueryFails, database
<1>2. CASE NewClassifier(p)
  <2>1. pc'[p] = IF got[p][Wiring] = {} THEN "exited" ELSE "listening"
    BY <1>0, <1>2 DEF NewClassifier, TypeOK
  <2>2. classifier'[p] = IF got[p][Wiring] = {} THEN classifier[p] ELSE got[p][Wiring]
    BY <1>2 DEF NewClassifier, TypeOK
  <2> QED
    BY <1>2, <2>1, <2>2 DEF NewClassifier, database, catalog
<1>3. ASSUME NEW c \in Requests, Request(p, c) PROVE CallerInv(p)'
  <2>1. \A d \in Callers : at'[p][d] = IF d = c THEN "check" ELSE at[p][d]
    BY <1>3, AdvanceType DEF Request, Steps
  <2> QED
    BY <1>3, <2>1 DEF Request, database
<1> QED
  BY <1>1, <1>2, <1>3

\* A step of another process, or of the database's holder, that is not the
\* server's own.
LEMMA NextCallers ==
  ASSUME TypeOK, SchemaInv, [Next]_vars, NEW p \in Servers, CallerInv(p)
  PROVE  CallerInv(p)'
<1> USE DEF Goto, database, catalog, bounds
<1>0. p \in Processes
  BY DEF Processes
<1>1. ASSUME NEW q \in Processes, Open(q) PROVE CallerInv(p)'
  <2>1. CASE q = p /\ ~Migrates(p)
    BY <1>0, <1>1, <2>1, CallForClassifierKeeps DEF Open, TypeOK
  <2>2. CASE ~(q = p /\ ~Migrates(p))
    <3>1. pc'[p] = IF q = p THEN "lock" ELSE pc[p]
      BY <1>0, <1>1, <2>2 DEF Open, TypeOK
    <3>2. at'[p] = at[p]
      BY <1>1, <2>2 DEF Open, CallForClassifier, TypeOK
    <3> QED
      BY <1>1, <3>1, <3>2, CallerFrame DEF Open
  <2> QED
    BY <2>1, <2>2
<1>2. ASSUME NEW q \in Processes, Unlock(q) PROVE CallerInv(p)'
  <2>1. CASE q = p
    BY <1>0, <1>2, <2>1, CallForClassifierKeeps DEF Unlock, TypeOK
  <2>2. CASE q # p
    <3>1. pc'[p] = pc[p] /\ at'[p] = at[p]
      BY <1>0, <1>2, <2>2 DEF Unlock, CallForClassifier, TypeOK
    <3> QED
      BY <1>2, <3>1, CallerFrame DEF Unlock
  <2> QED
    BY <2>1, <2>2
<1>3. ASSUME NEW q \in Processes,
             Lock(q) \/ Version(q) \/ MarkDirty(q) \/ Run(q) \/ MarkClean(q) \/ Die(q)
      PROVE  CallerInv(p)'
  <2>1. UNCHANGED <<cache, at, got, classifier>>
    BY <1>3 DEF Lock, Version, MarkDirty, Run, MarkClean, Die
  <2>2. concepts # NoTable => concepts' # NoTable
    BY <1>3, MarksAssumption DEF Lock, Version, MarkDirty, Run, MarkClean, Die, Catalogs
  <2>3. /\ pc'[p] = "listening" => pc[p] = "listening"
        /\ pc[p] \in {"listening", "exited"} => pc'[p] \in {"listening", "exited"}
    BY <1>0, <1>3 DEF Lock, Version, MarkDirty, Run, MarkClean, Die, TypeOK
  <2> QED
    BY <2>1, <2>2, <2>3, CallerFrame
<1>4. ASSUME NEW q \in Processes, Restart(q) PROVE CallerInv(p)'
  <2>1. CASE q = p
    <3>1. /\ cache'[p] = Nil /\ pc'[p] = "idle"
          /\ \A c \in Callers : at'[p][c] = "idle"
      BY <1>0, <1>4, <2>1 DEF Restart, TypeOK
    <3> QED
      BY <3>1 DEF CallerInv, Callers
  <2>2. CASE q # p
    <3>1. /\ pc'[p] = pc[p] /\ at'[p] = at[p] /\ cache'[p] = cache[p]
          /\ got'[p] = got[p] /\ classifier'[p] = classifier[p]
      BY <1>0, <1>4, <2>2 DEF Restart, TypeOK
    <3> QED
      BY <1>4, <3>1, CallerFrame DEF Restart
  <2> QED
    BY <2>1, <2>2
<1>5. ASSUME NEW q \in Servers, NEW c \in Callers, ListConcepts(q, c) PROVE CallerInv(p)'
  <2>1. CASE q = p
    BY <1>5, <2>1, ListConceptsKeeps
  <2>2. CASE q # p
    <3>1. /\ at'[p] = at[p] /\ cache'[p] = cache[p] /\ got'[p] = got[p]
          /\ UNCHANGED <<pc, classifier, concepts>>
      BY <1>5, <2>2 DEF ListConcepts, ReadCache, ReleaseCache, QueryConcepts, Fill,
                        Advance, TypeOK
    <3> QED
      BY <3>1, CallerFrame
  <2> QED
    BY <2>1, <2>2
<1>6. ASSUME NEW q \in Servers,
             \/ QueryFails(q) \/ NewClassifier(q)
             \/ \E c \in Requests : Request(q, c)
      PROVE  CallerInv(p)'
  <2>1. CASE q = p
    BY <1>6, <2>1, ServerKeeps
  <2>2. CASE q # p
    <3>1. /\ at'[p] = at[p] /\ classifier'[p] = classifier[p] /\ pc'[p] = pc[p]
          /\ UNCHANGED <<cache, got, concepts>>
      BY <1>0, <1>6, <2>2 DEF QueryFails, NewClassifier, Request, Advance, TypeOK
    <3> QED
      BY <3>1, CallerFrame
  <2> QED
    BY <2>1, <2>2
<1>7. CASE Edit
  BY <1>7, CallerFrame, MarksAssumption DEF Edit, Catalogs
<1>8. CASE UNCHANGED vars
  BY <1>8, CallerFrame DEF vars
<1> QED
  BY <1>1, <1>2, <1>3, <1>4, <1>5, <1>6, <1>7, <1>8
     DEF Next, Migrate, Serve, Terminated, Callers

-----------------------------------------------------------------------------
\* The invariant holds at first.
LEMMA InitInv == Init => IInv
<1> SUFFICES ASSUME Init PROVE IInv
  OBVIOUS
<1>1. TypeOK
  BY InitType
<1>2. SchemaInv
  BY DEF Init, SchemaInv, VersionTellsSchema
<1>3. ASSUME NEW p \in Servers PROVE CallerInv(p)
  BY DEF Init, CallerInv, Callers, Processes
<1> QED
  BY <1>1, <1>2, <1>3 DEF IInv

\* Every step keeps the invariant.
LEMMA NextInv == IInv /\ [Next]_vars => IInv'
BY NextType, NextSchema, NextCallers DEF IInv

\* The invariant holds in every reachable state.
THEOREM Invariance == Spec => []IInv
BY InitInv, NextInv, PTL DEF Spec

\* A dirty version is a running migration's or a dead one's, and the version
\* never tells of a schema that is not there: golang-migrate's lock is enough
\* for any processes that start together.
THEOREM VersionCorrect == Spec => []VersionTellsSchema
BY Invariance, PTL DEF IInv, SchemaInv

\* However startups, deaths, restarts and edits interleave, a server listens
\* over a migrated schema, with a classifier of some concepts.
THEOREM ListeningCorrect == Spec => []ListeningIsReady
<1>1. IInv => ListeningIsReady
  BY MarksAssumption DEF IInv, CallerInv, ListeningIsReady
<1> QED
  BY Invariance, <1>1, PTL

\* ListConcepts returns a request the catalog of its server's classifier, for
\* any number of requests and whatever is done to the table meanwhile.
THEOREM NamesCorrect == Spec => []NamesMatchClassifier
<1>1. IInv => NamesMatchClassifier
  BY DEF IInv, CallerInv, NamesMatchClassifier
<1> QED
  BY Invariance, <1>1, PTL

=============================================================================
