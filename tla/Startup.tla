------------------------------ MODULE Startup -------------------------------
(***************************************************************************)
(* How the program starts: processes `cifrato serve` and `cifrato migrate` *)
(* open one database, bring its schema up to date, and a server reads the  *)
(* catalog of concepts, builds its classifier from it and listens.         *)
(* Processes may run side by side (a deploy overlaps the server it         *)
(* replaces), die at any point and be started again.                       *)
(*                                                                         *)
(* A server's requests call the ListConcepts its startup has called, so    *)
(* its cache is here too.  golang-migrate is external: it takes an         *)
(* advisory lock, marks the version dirty, runs the one file of the        *)
(* repository, which is one transaction, and marks the version clean.      *)
(***************************************************************************)
EXTENDS Integers, FiniteSets

CONSTANTS
  Servers,        \* processes `cifrato serve`
  Migrators,      \* processes `cifrato migrate`
  RunMigrations,  \* RunMigrations[p]: the setting of server p
  Requests,       \* requests that reach a server while it listens
  Wiring,         \* what calls ListConcepts when a server starts
  Seed,           \* the concepts the migration inserts
  Edits,          \* catalogs somebody may leave in the table by hand
  MaxDeaths,      \* bound: how often processes die on an error or a crash
  MaxEdits,       \* bound: how often the table is edited
  NoTable,        \* the table before the migration
  Nil,            \* the nil of conceptsCache, and of a classifier not built
  Nobody          \* no process

Processes == Servers \cup Migrators
Callers   == Requests \cup {Wiring}
Catalogs  == {Seed} \cup Edits

ASSUME ServersAssumption == Servers \cap Migrators = {} /\ Nobody \notin Processes
ASSUME FlagAssumption    == RunMigrations \in [Servers -> BOOLEAN]
ASSUME CallersAssumption == Wiring \notin Requests
ASSUME SeedAssumption    == Seed # {} /\ IsFiniteSet(Seed)
ASSUME BoundsAssumption  == MaxDeaths \in Nat /\ MaxEdits \in Nat
ASSUME MarksAssumption   == NoTable \notin Catalogs /\ Nil \notin Catalogs

VARIABLES
  version,     \* of the schema, as schema_migrations has it
  concepts,    \* the table withholding_concepts
  lock,        \* who holds golang-migrate's advisory lock
  pc,          \* pc[p]: the step process p is at
  cache,       \* cache[p]: conceptsCache
  held,        \* held[p]: the callers in p that hold conceptsMu for reading
  at,          \* at[p][c]: the step of ListConcepts caller c is at
  got,         \* got[p][c]: the concepts c has read or been given
  classifier,  \* classifier[p]: the catalog the classifier was built from
  deaths, edits,  \* counters for the bounds
  broken       \* history: a process died between marking the version dirty
               \* and marking it clean

database == <<version, concepts, lock>>
catalog  == <<cache, held, at, got>>
bounds   == <<deaths, edits>>
vars     == <<version, concepts, lock, pc, cache, held, at, got, classifier,
              deaths, edits, broken>>

Migrating == {"lock", "version", "dirty", "run", "clean", "unlock"}
\* Where a process is that NewWire's container, or the command, brings up.
Starting  == Migrating \cup {"catalog"}
Started   == {"listening", "completed", "exited"}

Goto(p, s) == pc' = [pc EXCEPT ![p] = s]

Migrates(p) == p \in Migrators \/ RunMigrations[p]

-----------------------------------------------------------------------------
Init ==
  /\ version = "none"
  /\ concepts = NoTable
  /\ lock = Nobody
  /\ pc = [p \in Processes |-> "idle"]
  /\ cache = [p \in Servers |-> Nil]
  /\ held = [p \in Servers |-> {}]
  /\ at = [p \in Servers |-> [c \in Callers |-> "idle"]]
  /\ got = [p \in Servers |-> [c \in Callers |-> Nil]]
  /\ classifier = [p \in Servers |-> Nil]
  /\ deaths = 0 /\ edits = 0
  /\ broken = FALSE

\* The call of ListConcepts that dig makes for the classifier.
CallForClassifier(p) == at' = [at EXCEPT ![p][Wiring] = "check"]

\* OpenAndMigrate, or the command migrate, which ignores the setting.
Open(p) ==
  /\ pc[p] = "idle"
  /\ Goto(p, IF Migrates(p) THEN "lock" ELSE "catalog")
  /\ IF Migrates(p) THEN UNCHANGED at ELSE CallForClassifier(p)
  /\ UNCHANGED <<database, cache, held, got, classifier, bounds, broken>>

\* Bug: a migrator that takes no lock.
NoLock(p) ==
  /\ pc[p] = "lock"
  /\ Goto(p, "version")
  /\ UNCHANGED <<database, catalog, classifier, bounds, broken>>

\* pg_advisory_lock, granted when nobody has it.
Lock(p) ==
  /\ pc[p] = "lock"
  /\ lock = Nobody
  /\ lock' = p
  /\ Goto(p, "version")
  /\ UNCHANGED <<version, concepts, catalog, classifier, bounds, broken>>

\* Up: a dirty version is an error, one up to date is ErrNoChange, no error.
Version(p) ==
  /\ pc[p] = "version"
  /\ \/ version = "none"  /\ Goto(p, "dirty")  /\ UNCHANGED lock
     \/ version = "clean" /\ Goto(p, "unlock") /\ UNCHANGED lock
     \/ version = "dirty" /\ Goto(p, "exited") /\ lock' = Nobody
  /\ UNCHANGED <<version, concepts, catalog, classifier, bounds, broken>>

MarkDirty(p) ==
  /\ pc[p] = "dirty"
  /\ version' = "dirty"
  /\ Goto(p, "run")
  /\ UNCHANGED <<concepts, lock, catalog, classifier, bounds, broken>>

\* up.sql as one implicit transaction: its CREATEs fail on tables that exist.
Run(p) ==
  /\ pc[p] = "run"
  /\ \/ /\ concepts = NoTable
        /\ concepts' = Seed
        /\ Goto(p, "clean")
        /\ UNCHANGED lock
     \/ /\ concepts # NoTable
        /\ Goto(p, "exited")
        /\ lock' = Nobody
        /\ UNCHANGED concepts
  /\ UNCHANGED <<version, catalog, classifier, bounds, broken>>

MarkClean(p) ==
  /\ pc[p] = "clean"
  /\ version' = "clean"
  /\ Goto(p, "unlock")
  /\ UNCHANGED <<concepts, lock, catalog, classifier, bounds, broken>>

\* Up releases the lock before it returns: the command is done, and the server
\* goes on to its catalog.
Unlock(p) ==
  /\ pc[p] = "unlock"
  /\ lock' = IF lock = p THEN Nobody ELSE lock
  /\ Goto(p, IF p \in Servers THEN "catalog" ELSE "completed")
  /\ IF p \in Servers THEN CallForClassifier(p) ELSE UNCHANGED at
  /\ UNCHANGED <<version, concepts, cache, held, got, classifier, bounds, broken>>

-----------------------------------------------------------------------------
(* ListConcepts, called by the startup and then by requests at once.       *)

Runs(p) == pc[p] \in {"catalog", "listening"}

Advance(p, c, s) == at' = [at EXCEPT ![p][c] = s]

\* RLock, which waits for a writer only, and Fill is one step.
ReadCache(p, c) ==
  /\ Runs(p) /\ at[p][c] = "check"
  /\ held' = [held EXCEPT ![p] = @ \cup {c}]
  /\ got' = [got EXCEPT ![p][c] = cache[p]]
  /\ Advance(p, c, "read")
  /\ UNCHANGED <<database, pc, cache, classifier, bounds, broken>>

\* Bug: the RUnlock is deferred to the return of ListConcepts.
DeferReleaseCache(p, c) ==
  /\ Runs(p) /\ at[p][c] = "read"
  /\ held' = IF got[p][c] = Nil THEN held ELSE [held EXCEPT ![p] = @ \ {c}]
  /\ Advance(p, c, IF got[p][c] = Nil THEN "query" ELSE "returned")
  /\ UNCHANGED <<database, pc, cache, got, classifier, bounds, broken>>

\* RUnlock; what was cached is returned.
ReleaseCache(p, c) ==
  /\ Runs(p) /\ at[p][c] = "read"
  /\ held' = [held EXCEPT ![p] = @ \ {c}]
  /\ Advance(p, c, IF got[p][c] = Nil THEN "query" ELSE "returned")
  /\ UNCHANGED <<database, pc, cache, got, classifier, bounds, broken>>

QueryConcepts(p, c) ==
  /\ Runs(p) /\ at[p][c] = "query"
  /\ concepts # NoTable
  /\ got' = [got EXCEPT ![p][c] = concepts]
  /\ Advance(p, c, "fill")
  /\ UNCHANGED <<database, pc, cache, held, classifier, bounds, broken>>

\* Bug: what was read is returned and not kept.
FillNothing(p, c) ==
  /\ Runs(p) /\ at[p][c] = "fill"
  /\ Advance(p, c, "returned")
  /\ UNCHANGED <<database, pc, cache, held, got, classifier, bounds, broken>>

\* Under Lock, which waits for the readers.
Fill(p, c) ==
  /\ Runs(p) /\ at[p][c] = "fill"
  /\ held[p] = {}
  /\ cache' = [cache EXCEPT ![p] = got[p][c]]
  /\ Advance(p, c, "returned")
  /\ UNCHANGED <<database, pc, held, got, classifier, bounds, broken>>

\* The query needs the table; without it the server exits.
QueryFails(p) ==
  /\ Runs(p) /\ at[p][Wiring] = "query"
  /\ concepts = NoTable
  /\ Goto(p, "exited")
  /\ at' = [at EXCEPT ![p][Wiring] = "idle"]
  /\ UNCHANGED <<database, cache, held, got, classifier, bounds, broken>>

\* Bug: any catalog will do.
NewClassifierOfAny(p) ==
  /\ pc[p] = "catalog"
  /\ at[p][Wiring] = "returned"
  /\ classifier' = [classifier EXCEPT ![p] = got[p][Wiring]]
  /\ Goto(p, "listening")
  /\ UNCHANGED <<database, catalog, bounds, broken>>

\* NewClassifier refuses an empty catalog; else NewRouter returns and the
\* server listens.
NewClassifier(p) ==
  /\ pc[p] = "catalog"
  /\ at[p][Wiring] = "returned"
  /\ \/ /\ got[p][Wiring] = {}
        /\ Goto(p, "exited")
        /\ UNCHANGED classifier
     \/ /\ got[p][Wiring] # {}
        /\ classifier' = [classifier EXCEPT ![p] = got[p][Wiring]]
        /\ Goto(p, "listening")
  /\ UNCHANGED <<database, catalog, bounds, broken>>

\* A request comes to loadConceptNames.
Request(p, c) ==
  /\ pc[p] = "listening"
  /\ c # Wiring
  /\ at[p][c] = "idle"
  /\ Advance(p, c, "check")
  /\ UNCHANGED <<database, pc, cache, held, got, classifier, bounds, broken>>

-----------------------------------------------------------------------------
(* What happens to processes and to the table.                             *)

\* A connection or statement fails, which is fatal before the server listens (in
\* main for the command, in NewRouter, router.go:23-25, for the server), the lock
\* is not granted in time, or the process is killed.  Its session ends and with
\* it the advisory lock; its memory is gone.
Die(p) ==
  /\ deaths < MaxDeaths
  /\ pc[p] \in Starting \cup {"listening"}
  /\ deaths' = deaths + 1
  /\ broken' = (broken \/ pc[p] \in {"run", "clean"})
  /\ lock' = IF lock = p THEN Nobody ELSE lock
  /\ Goto(p, "exited")
  /\ UNCHANGED <<version, concepts, catalog, classifier, edits>>

\* It is started again, with a new memory.
Restart(p) ==
  /\ pc[p] = "exited"
  /\ deaths < MaxDeaths
  /\ deaths' = deaths + 1
  /\ Goto(p, "idle")
  /\ IF p \in Servers
     THEN /\ cache' = [cache EXCEPT ![p] = Nil]
          /\ held' = [held EXCEPT ![p] = {}]
          /\ at' = [at EXCEPT ![p] = [c \in Callers |-> "idle"]]
          /\ got' = [got EXCEPT ![p] = [c \in Callers |-> Nil]]
          /\ classifier' = [classifier EXCEPT ![p] = Nil]
     ELSE UNCHANGED <<catalog, classifier>>
  /\ UNCHANGED <<database, edits, broken>>

\* The table's rows are changed by hand, by no code of the program.
Edit ==
  /\ edits < MaxEdits
  /\ concepts # NoTable
  /\ concepts' \in Edits
  /\ edits' = edits + 1
  /\ UNCHANGED <<version, lock, pc, catalog, classifier, deaths, broken>>

Terminated ==
  /\ \A p \in Processes : pc[p] \in Started
  /\ UNCHANGED vars

ListConcepts(p, c) ==
  ReadCache(p, c) \/ ReleaseCache(p, c) \/ QueryConcepts(p, c) \/ Fill(p, c)

Migrate(p) ==
  Lock(p) \/ Version(p) \/ MarkDirty(p) \/ Run(p) \/ MarkClean(p) \/ Unlock(p)

Serve(p) == ListConcepts(p, Wiring) \/ QueryFails(p) \/ NewClassifier(p)

Next ==
  \/ \E p \in Processes : Open(p) \/ Migrate(p) \/ Die(p) \/ Restart(p)
  \/ \E p \in Servers : \/ Serve(p)
                        \/ \E c \in Requests : Request(p, c) \/ ListConcepts(p, c)
  \/ Edit
  \/ Terminated

Spec == Init /\ [][Next]_vars

\* A process that runs goes on: its statements return, the advisory lock and
\* conceptsMu are granted once free.
FairSpec ==
  /\ Spec
  /\ \A p \in Processes : WF_vars(Open(p) \/ Migrate(p))
  /\ \A p \in Servers : WF_vars(Serve(p))

-----------------------------------------------------------------------------
(* Properties.                                                             *)

TypeOK ==
  /\ version \in {"none", "dirty", "clean"}
  /\ concepts \in Catalogs \cup {NoTable}
  /\ lock \in Processes \cup {Nobody}
  /\ pc \in [Processes -> {"idle"} \cup Starting \cup Started]
  /\ cache \in [Servers -> Catalogs \cup {Nil}]
  /\ held \in [Servers -> SUBSET Callers]
  /\ at \in [Servers -> [Callers -> 
                 {"idle", "check", "read", "query", "fill", "returned"}]]
  /\ got \in [Servers -> [Callers -> Catalogs \cup {Nil}]]
  /\ classifier \in [Servers -> Catalogs \cup {Nil}]
  /\ \A p \in Processes : pc[p] \in Migrating \ {"lock"} => lock = p
  /\ deaths \in 0..MaxDeaths /\ edits \in 0..MaxEdits /\ broken \in BOOLEAN

\* Whatever its setting, and whoever died in the middle of a migration, a
\* server that listens has a migrated schema and concepts to classify into.
ListeningIsReady ==
  \A p \in Servers : pc[p] = "listening" =>
     concepts # NoTable /\ classifier[p] \in Catalogs \ {{}}

\* The version is dirty only while a process runs the migration or after one
\* died running it: processes that start together do not fail each other's
\* migration and leave a database that needs repair.  A clean version has the
\* schema and no version none of it.
VersionTellsSchema ==
  /\ version = "dirty" => broken \/ (lock # Nobody /\ pc[lock] \in {"run", "clean"})
  /\ version = "clean" => concepts # NoTable
  /\ version = "none"  => concepts = NoTable

\* All callers in a server get the catalog its classifier was built from,
\* whatever has become of the table: a concept the classifier assigns has a
\* name in every response.
NamesMatchClassifier ==
  \A p \in Servers : \A c \in Requests :
     at[p][c] = "returned" => got[p][c] = classifier[p]

\* A process that starts comes to listen, completes or exits: it is not stuck
\* on the advisory lock, which the dead release, nor on its own cache's lock.
EveryStartEnds ==
  \A p \in Processes : pc[p] \in Starting ~> pc[p] \in Started

=============================================================================
