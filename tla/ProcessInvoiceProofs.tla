------------------------ MODULE ProcessInvoiceProofs ------------------------
(***************************************************************************)
(* Proofs about ProcessInvoice, for any uploads, files and tables.         *)
(***************************************************************************)
EXTENDS ProcessInvoice, SequenceTheorems, TLAPS
LOCAL INSTANCE FiniteSets
LOCAL INSTANCE SequencesExt

\* What is proved of uploads that only classify, with the substitutions of
\* Classification.
Alone == INSTANCE ClassifyInvoiceLinesProofs
  WITH invoice <- [u \in Uploads |-> Classifiable(file[u])],
       Invoices <- {Classifiable(f) : f \in Files},
       Catalog <- Concepts

-----------------------------------------------------------------------------
(* Stages.                                                                 *)

\* Where an upload is in its classification, seen from its stage, and that an
\* upload has a row pending only between its INSERT and its COMMIT.
StageInv(u) ==
  /\ stage[u] \in {"idle"} \cup InProgress \cup Ended
  /\ stage[u] = "idle" <=> pc[u] = "idle"
  /\ stage[u] = "classify" <=> pc[u] \in Classification!Working
  /\ stage[u] \in {"save", "calculate", "responded"} => pc[u] = "classified"
  /\ pc[u] # "commit" => tx[u] = {}

Functions ==
  /\ stage = [u \in Uploads |-> stage[u]]
  /\ pc = [u \in Uploads |-> pc[u]]
  /\ tx = [u \in Uploads |-> tx[u]]
  /\ known = [u \in Uploads |-> known[u]]

StagesInv == Functions /\ \A u \in Uploads : StageInv(u)

\* What a step of u's classification may do to where uploads are.
Moves(u) ==
  \E to \in Classification!Working \cup Classification!Settled :
     /\ pc' = [pc EXCEPT ![u] = to]
     /\ tx' = [tx EXCEPT ![u] = tx'[u]]
     /\ to # "commit" => tx'[u] = {}

\* A line's station is where nothing is pending.
LEMMA StationIsBusy ==
  ASSUME NEW u, NEW i
  PROVE  Classification!Station(u, i)
           \in (Classification!Working \cup Classification!Settled) \ {"commit"}
BY DEF Classification!Station, Classification!Working, Classification!Settled

\* The steps of a classification move one upload.
LEMMA BeginMoves ==
  ASSUME StagesInv, NEW u \in Uploads, Classification!Begin(u)
  PROVE  Moves(u)
<1>1. tx' = [tx EXCEPT ![u] = tx'[u]] /\ tx'[u] = {}
  BY DEF StagesInv, Functions, StageInv, Classification!Begin
<1> QED
  BY <1>1, StationIsBusy DEF Moves, Classification!Begin, Classification!Goto

\* A step that reads the cache moves its upload only.
LEMMA ReadMoves ==
  ASSUME StagesInv, NEW u \in Uploads,
         \/ Classification!FindByIssuerAndSKU(u)
         \/ Classification!FindByDescription(u)
         \/ Classification!Classify(u)
  PROVE  Moves(u)
<1>1. tx' = [tx EXCEPT ![u] = tx'[u]] /\ tx'[u] = {}
  BY DEF StagesInv, Functions, StageInv, Classification!FindByIssuerAndSKU,
     Classification!FindByDescription, Classification!Classify
<1>2. \E to \in (Classification!Working \cup Classification!Settled) \ {"commit"} :
        pc' = [pc EXCEPT ![u] = to]
  BY StationIsBusy
     DEF Classification!FindByIssuerAndSKU, Classification!FindByDescription,
         Classification!Classify, Classification!Advance, Classification!Goto,
         Classification!Working, Classification!Settled
<1> QED
  BY <1>1, <1>2 DEF Moves

\* So does one that writes it, or fails.
LEMMA WriteMoves ==
  ASSUME StagesInv, NEW u \in Uploads,
         \/ Classification!Save(u)
         \/ Classification!Commit(u)
         \/ Classification!RepositoryError(u)
         \/ Classification!CommitUnacknowledged(u)
  PROVE  Moves(u)
<1>1. tx' = [tx EXCEPT ![u] = tx'[u]]
  BY DEF StagesInv, Functions, Classification!Save, Classification!Commit,
     Classification!RepositoryError, Classification!CommitUnacknowledged
<1>2. CASE Classification!Save(u)
  BY <1>1, <1>2 DEF Classification!Save, Classification!Goto, Moves, Classification!Working
<1>3. CASE Classification!Commit(u)
  <2>1. tx'[u] = {}
    BY <1>3 DEF StagesInv, Functions, Classification!Commit
  <2> QED
    BY <1>1, <1>3, <2>1, StationIsBusy
       DEF Classification!Commit, Classification!Advance, Classification!Goto, Moves
<1>4. CASE Classification!RepositoryError(u) \/ Classification!CommitUnacknowledged(u)
  BY <1>1, <1>4
     DEF StagesInv, Functions, Classification!RepositoryError,
         Classification!CommitUnacknowledged, Classification!Goto, Moves,
         Classification!Settled
<1> QED
  BY <1>2, <1>3, <1>4

\* Stages follow the classification.
LEMMA ClassifiedKeepsStages ==
  ASSUME StagesInv, NEW u \in Uploads, Moves(u), Classified(u),
         known' = [known EXCEPT ![u] = known'[u]]
  PROVE  StagesInv'
<1>1. PICK to \in Classification!Working \cup Classification!Settled :
        /\ pc' = [pc EXCEPT ![u] = to]
        /\ tx' = [tx EXCEPT ![u] = tx'[u]]
        /\ to # "commit" => tx'[u] = {}
  BY DEF Moves
<1>2. stage' = [stage EXCEPT ![u] = CASE to = "classified" -> "save"
                                      [] to = "failed"     -> "failed"
                                      [] OTHER             -> "classify"]
  BY <1>1 DEF Classified, Goto, StagesInv, Functions
<1>3. Functions'
  BY <1>1, <1>2 DEF StagesInv, Functions
<1>4. StageInv(u)'
  BY <1>1, <1>2 DEF StagesInv, Functions, StageInv, InProgress, Ended,
     Classification!Working, Classification!Settled
<1>5. ASSUME NEW v \in Uploads, v # u
      PROVE  StageInv(v)'
  BY <1>1, <1>2, <1>5 DEF StagesInv, Functions, StageInv
<1> QED
  BY <1>3, <1>4, <1>5 DEF StagesInv

\* The steps after the classification change the stage only.
LEMMA GotoKeepsStages ==
  ASSUME StagesInv, NEW u \in Uploads, UNCHANGED <<cacheVars, known>>,
         stage[u] \in {"save", "calculate"},
         NEW s \in {"calculate", "responded", "failed"}, Goto(u, s)
  PROVE  StagesInv'
BY DEF StagesInv, Functions, StageInv, Goto, cacheVars, InProgress, Ended,
   Classification!Working

\* The stages agree with the components at first.
LEMMA InitStages == Init => StagesInv
BY DEF Init, StagesInv, Functions, StageInv, Classification!Init, InProgress, Ended,
   Classification!Working

\* Every step of the pipeline keeps a stage in line with its classification.
LEMMA NextStages == StagesInv /\ [Next]_vars => StagesInv'
<1> SUFFICES ASSUME StagesInv, [Next]_vars
             PROVE  StagesInv'
  OBVIOUS
<1>1. ASSUME NEW u \in Uploads, Parse(u)
      PROVE  StagesInv'
  <2>1. known' = [known EXCEPT ![u] = known'[u]]
    BY <1>1 DEF Parse, StagesInv, Functions
  <2> QED
    BY <1>1, <2>1, BeginMoves, ClassifiedKeepsStages DEF Parse
<1>2. ASSUME NEW u \in Uploads, ClassifyStep(u) \/ ClassifyError(u)
      PROVE  StagesInv'
  <2>1. known' = [known EXCEPT ![u] = known'[u]]
    BY <1>2 DEF ClassifyStep, ClassifyError, StagesInv, Functions
  <2> QED
    BY <1>2, <2>1, ReadMoves, WriteMoves, ClassifiedKeepsStages
       DEF ClassifyStep, ClassifyError
<1>3. ASSUME NEW u \in Uploads,
             SaveInvoice(u) \/ SaveError(u) \/ CalculateStep(u) \/ CalculateError(u)
      PROVE  StagesInv'
  BY <1>3, GotoKeepsStages DEF SaveInvoice, SaveError, CalculateStep, CalculateError
<1>4. CASE Crash
  BY <1>4 DEF Crash, StagesInv, Functions, StageInv, InProgress, Ended,
     Classification!Working
<1>5. CASE UNCHANGED vars
  BY <1>5 DEF vars, StagesInv, Functions, StageInv
<1> QED
  BY <1>1, <1>2, <1>3, <1>4, <1>5 DEF Next, Step, Error, Terminated

-----------------------------------------------------------------------------
(* The pipeline implements uploads that only classify.                     *)

\* The pipeline's first states, and its steps, seen by the classification alone.
LEMMA InitClassification == Init => Classification!Init
BY DEF Init

\* When the server dies with nobody classifying, no row was pending.
LEMMA CrashIsCrash ==
  ASSUME StagesInv, Crash
  PROVE  [Classification!Next]_(Classification!vars)
<1>1. pc' = [u \in Uploads |-> IF pc[u] \in Classification!Working THEN "failed" ELSE pc[u]]
  BY DEF Crash, StagesInv, StageInv
<1>2. CASE \E u \in Uploads : pc[u] \in Classification!Working
  BY <1>1, <1>2 DEF Crash, Classification!Crash, Classification!Next
<1>3. CASE \A u \in Uploads : pc[u] \notin Classification!Working
  <2>1. pc' = pc
    BY <1>1, <1>3 DEF StagesInv, Functions
  <2>2. tx' = tx
    BY <1>3 DEF Crash, StagesInv, Functions, StageInv, Classification!Working
  <2> QED
    BY <2>1, <2>2 DEF Crash, Classification!vars
<1> QED
  BY <1>2, <1>3

\* Every step of the pipeline is one of the classification, or none.
LEMMA NextClassification ==
  ASSUME StagesInv, [Next]_vars
  PROVE  [Classification!Next]_(Classification!vars)
<1>1. ASSUME NEW u \in Uploads, Parse(u) \/ ClassifyStep(u) \/ ClassifyError(u)
      PROVE  Classification!Next
  BY <1>1 DEF Parse, ClassifyStep, ClassifyError, Classification!Next, Classification!Step
<1>2. ASSUME UNCHANGED <<file, cacheVars>>
      PROVE  UNCHANGED Classification!vars
  BY <1>2 DEF cacheVars, Classification!vars
<1>3. ASSUME NEW u \in Uploads,
             SaveInvoice(u) \/ SaveError(u) \/ CalculateStep(u) \/ CalculateError(u)
      PROVE  UNCHANGED Classification!vars
  BY <1>2, <1>3 DEF SaveInvoice, SaveError, CalculateStep, CalculateError
<1>4. CASE UNCHANGED vars
  BY <1>2, <1>4 DEF vars, cacheVars
<1> QED
  BY <1>1, <1>3, <1>4, CrashIsCrash DEF Next, Step, Error, Terminated

\* The stages agree with the components.
LEMMA Stages == Spec => []StagesInv
BY InitStages, NextStages, PTL DEF Spec

\* Of the pipeline one sees in the cache what uploads that only classify would
\* do: neither what follows a classification nor a crash in it adds a step.
THEOREM ClassificationCorrect == Spec => ClassifiesAsAlone
BY InitClassification, NextClassification, Stages, PTL
   DEF Spec, ClassifiesAsAlone, Classification!Spec

\* What the proofs about uploads that only classify assume, holds here.
LEMMA AloneAssumptions ==
  Alone!NormalAssumption /\ Alone!InvoicesAssumption /\ Alone!NullAssumption
<1>1. ASSUME NEW f \in Files
      PROVE  Classifiable(f) \in Alone!Invoice
  <2>1. f \in File
    BY FilesAssumption
  <2>2. PICK n \in Nat : DOMAIN f.lines = 1..n
    BY <2>1 DEF File
  <2>3. \A i \in 1..n : f.lines[i] \in FileLine
    BY <2>1, <2>2 DEF File
  <2>4. [i \in DOMAIN f.lines |-> [sku |-> f.lines[i].sku, desc |-> f.lines[i].desc]]
          \in Seq(Alone!Line)
    <3>1. \A i \in 1..n : [sku |-> f.lines[i].sku, desc |-> f.lines[i].desc] \in Alone!Line
      BY <2>3 DEF FileLine, Alone!Line
    <3> QED
      BY <2>2, <3>1, SeqDef
  <2> QED
    BY <2>1, <2>4 DEF Classifiable, Alone!Invoice, File
<1> QED
  BY <1>1, NormalAssumption, NullAssumption
     DEF Alone!NormalAssumption, Alone!InvoicesAssumption, Alone!NullAssumption

\* A step of uploads that only classify, under the names of their proofs.
LEMMA AloneNext ==
  [Classification!Next]_(Classification!vars) => [Alone!Next]_(Alone!vars)
BY DEF Alone!Next, Classification!Next, Alone!vars, Classification!vars,
   Alone!Step, Alone!RepositoryError, Alone!CommitUnacknowledged, Alone!Crash,
   Alone!Terminated, Alone!Begin, Alone!FindByIssuerAndSKU, Alone!FindByDescription,
   Alone!Classify, Alone!Save, Alone!Commit, Alone!Advance, Alone!Publish,
   Alone!Blocked, Alone!NewEntry, Alone!IsFirst, Alone!BySKU, Alone!ByDescription,
   Alone!Station, Alone!Current, Alone!CurrentKey, Alone!normalizeDescription,
   Alone!Goto, Alone!Working, Alone!Settled,
   Classification!Step, Classification!RepositoryError,
   Classification!CommitUnacknowledged, Classification!Crash,
   Classification!Terminated, Classification!Begin,
   Classification!FindByIssuerAndSKU, Classification!FindByDescription,
   Classification!Classify, Classification!Save, Classification!Commit,
   Classification!Advance, Classification!Publish, Classification!Blocked,
   Classification!NewEntry, Classification!IsFirst, Classification!BySKU,
   Classification!ByDescription, Classification!Station, Classification!Current,
   Classification!CurrentKey, Classification!normalizeDescription,
   Classification!Goto, Classification!Working, Classification!Settled

\* The behaviours under the two names are the same.
LEMMA AloneSpec == ClassifiesAsAlone => Alone!Spec
<1>1. Classification!Init => Alone!Init
  BY DEF Alone!Init, Classification!Init
<1> QED
  BY <1>1, AloneNext, PTL DEF ClassifiesAsAlone, Classification!Spec, Alone!Spec

\* Hence what is proved of the cache holds while the rest of the pipeline runs:
\* one entry for an issuer and SKU, and a classified line's entry in the cache.
THEOREM CacheCorrect ==
  Spec => [](Classification!OneEntryPerSKU /\ Classification!ClassifiedLineIsCached)
<1>1. Alone!OneEntryPerSKU => Classification!OneEntryPerSKU
  BY DEF Alone!OneEntryPerSKU, Classification!OneEntryPerSKU
<1>2. Alone!ClassifiedLineIsCached => Classification!ClassifiedLineIsCached
  BY DEF Alone!ClassifiedLineIsCached, Classification!ClassifiedLineIsCached,
     Alone!CachedFor, Classification!CachedFor, Alone!BySKU, Classification!BySKU,
     Alone!ByDescription, Classification!ByDescription, Alone!normalizeDescription,
     Classification!normalizeDescription
<1> QED
  BY <1>1, <1>2, ClassificationCorrect, AloneSpec, AloneAssumptions,
     Alone!OneEntryForEachSKU, Alone!ClassifiedLinesAreCached, PTL

-----------------------------------------------------------------------------
(* Nothing calculated for an invoice that is not stored.                   *)

StoredCufe(c) == \E s \in stored : s.cufe = c

\* An upload calculates for an invoice that is stored, its own or another
\* upload's version of it.
OrphanInv ==
  /\ NoOrphanCalculations
  /\ \A u \in Uploads : stage[u] \in {"calculate", "responded"} => StoredCufe(file[u].cufe)

\* A save keeps the CUFEs of the invoices stored.
LEMMA ReplaceKeepsCufes ==
  ASSUME NEW u \in Uploads, Store!Replace(u)
  PROVE  /\ \A c : StoredCufe(c) => StoredCufe(c)'
         /\ \A c : c = file[u].cufe => StoredCufe(c)'
<1>1. Store!Content(doc[u]) \in stored'
  BY DEF Store!Replace
<1>2. doc[u].cufe = file[u].cufe
  BY DEF doc, StoredAs
<1>3. Store!Content(doc[u]).cufe = file[u].cufe
  BY <1>2 DEF Store!Content
<1>4. ASSUME NEW s \in stored, s.cufe # file[u].cufe
      PROVE  s \in stored'
  BY <1>2, <1>4 DEF Store!Replace
<1> QED
  BY <1>1, <1>3, <1>4 DEF StoredCufe

\* No step takes a CUFE out of the store.
LEMMA NextCufes ==
  ASSUME [Next]_vars
  PROVE  \A c : StoredCufe(c) => StoredCufe(c)'
<1>1. ASSUME NEW u \in Uploads, SaveInvoice(u) \/ SaveError(u)
      PROVE  \A c : StoredCufe(c) => StoredCufe(c)'
  BY <1>1, ReplaceKeepsCufes
     DEF SaveInvoice, SaveError, Store!Save, Store!SaveUnacknowledged, StoredCufe
<1>2. CASE UNCHANGED stored
  BY <1>2 DEF StoredCufe
<1> QED
  BY <1>1, <1>2
     DEF Next, Step, Error, Parse, ClassifyStep, ClassifyError, CalculateStep,
         CalculateError, Crash, Terminated, vars, storeVars

\* A row that an upload writes bears the CUFE of its own file.
LEMMA UpsertIsOwn ==
  ASSUME NEW u \in Uploads, NEW group, NEW tax,
         Withholdings!Upsert(Withholdings!Row(u, group, tax))
  PROVE  \A row \in calculations' : row \in calculations \/ row.invoice = file[u].cufe
<1>1. Withholdings!Row(u, group, tax).invoice
        = [v \in Uploads |-> Calculable(file[v], concept[v])][u].id
  BY DEF Withholdings!Row, Withholdings!Calculate, Withholdings!calculateMinimumBaseTax,
     Withholdings!calculateReteiva, Withholdings!calculateReteica, Withholdings!NotApplicable,
     Withholdings!CalculateWithMinimumBase, Withholdings!CalculateReteiva,
     Withholdings!Calculation
<1>2. Calculable(file[u], concept[u]).id = file[u].cufe
  BY DEF Calculable
<1> QED
  BY <1>1, <1>2 DEF Withholdings!Upsert

\* A calculation is written only for an invoice that is stored.
LEMMA NextOrphans == StagesInv /\ OrphanInv /\ [Next]_vars => OrphanInv'
<1> SUFFICES ASSUME StagesInv, OrphanInv, [Next]_vars
             PROVE  OrphanInv'
  OBVIOUS
<1>1. UNCHANGED file
  BY DEF Next, Step, Error, Parse, ClassifyStep, ClassifyError, SaveInvoice, SaveError,
     CalculateStep, CalculateError, Crash, Terminated, vars
<1>2. ASSUME NEW row \in calculations'
      PROVE  StoredCufe(row.invoice)'
  <2>1. ASSUME NEW u \in Uploads, CalculateStep(u) \/ CalculateError(u), row \notin calculations
        PROVE  row.invoice = file[u].cufe /\ stage[u] = "calculate"
    BY <2>1, UpsertIsOwn
       DEF CalculateStep, CalculateError, Withholdings!FindReferenceData,
           Withholdings!Persist, Withholdings!Fail, Withholdings!UpsertUnacknowledged,
           Withholdings!RowAt
  <2>2. CASE row \in calculations
    BY <2>2, NextCufes DEF OrphanInv, NoOrphanCalculations, StoredCufe
  <2>3. CASE row \notin calculations
    <3>1. PICK u \in Uploads : CalculateStep(u) \/ CalculateError(u)
      BY <2>3 DEF Next, Step, Error, Parse, ClassifyStep, ClassifyError, SaveInvoice,
         SaveError, Crash, Terminated, vars, calcVars
    <3> QED
      BY <2>1, <2>3, <3>1, NextCufes DEF OrphanInv
  <2> QED
    BY <2>2, <2>3
<1>3. ASSUME NEW u \in Uploads, stage'[u] \in {"calculate", "responded"}
      PROVE  StoredCufe(file[u].cufe)'
  <2>1. CASE stage[u] \in {"calculate", "responded"}
    BY <1>1, <2>1, NextCufes DEF OrphanInv
  <2>2. CASE stage[u] \notin {"calculate", "responded"}
    <3>1. SaveInvoice(u)
      BY <1>3, <2>2 DEF Next, Step, Error, Parse, ClassifyStep, ClassifyError, SaveInvoice,
         SaveError, CalculateStep, CalculateError, Crash, Terminated, vars, Goto,
         Classified, StagesInv, Functions
    <3> QED
      BY <1>1, <3>1, ReplaceKeepsCufes DEF SaveInvoice, Store!Save
  <2> QED
    BY <2>1, <2>2
<1> QED
  BY <1>1, <1>2, <1>3 DEF OrphanInv, NoOrphanCalculations, StoredCufe

\* However uploads of an invoice interleave and fail, a calculation's invoice is
\* stored: the calculation comes after the save, and no save takes a CUFE away.
THEOREM CalculationsCorrect == Spec => []NoOrphanCalculations
<1>1. Init => OrphanInv
  BY DEF Init, OrphanInv, NoOrphanCalculations, Withholdings!Init
<1>2. OrphanInv => NoOrphanCalculations
  BY DEF OrphanInv
<1> QED
  BY <1>1, <1>2, Stages, NextOrphans, PTL DEF Spec

-----------------------------------------------------------------------------
(* What is stored with a concept is cached, and what was is not asked again. *)

\* Whether the cache, being R, has an entry for a description or a line.
Described(R, key) == \E r \in R : r.desc = key

Cached(R, issuer, line) ==
  \/ \E r \in R : line.sku # Null /\ r.issuer = issuer /\ r.sku = line.sku
  \/ Described(R, Normal[line.desc])

\* The lines u knew have entries, so a lookup by SKU that misses one leaves an
\* entry to be found by its description, and the model is not asked.
KnownInv(u) ==
  /\ \A i \in known[u] :
        i \in DOMAIN file[u].lines /\ Cached(rows, file[u].issuer, file[u].lines[i])
  /\ (pc[u] = "byDescription" /\ pos[u] \in known[u])
       => Described(rows, Normal[file[u].lines[pos[u]].desc])
  /\ pc[u] = "llm" => pos[u] \notin known[u]

CachedInv == StoredConceptIsCached /\ \A u \in Uploads : KnownInv(u)

\* What is proved of the states of uploads that only classify.
AloneInv ==
  Alone!TypeInv /\ Alone!IInv /\ Classification!ClassifiedLineIsCached

\* What is proved of uploads that only classify holds of the pipeline.
LEMMA AloneInvariance == Spec => []AloneInv
BY ClassificationCorrect, AloneSpec, AloneAssumptions, CacheCorrect, Alone!Invariance, PTL
   DEF AloneInv

\* Cached and Described say what the lookups find.
LEMMA Lookups ==
  /\ \A issuer, line :
        Cached(rows, issuer, line) <=> Classification!CachedFor(issuer, line) # {}
  /\ \A key : Described(rows, key) <=> Classification!ByDescription(key) # {}
BY DEF Cached, Described, Classification!ByDescription, Classification!CachedFor,
   Classification!BySKU, Classification!normalizeDescription

\* Entries keep their keys, and so what they answer.
LEMMA CacheStays ==
  ASSUME StagesInv, AloneInv, [Next]_vars
  PROVE  /\ \A issuer, line : Cached(rows, issuer, line) => Cached(rows', issuer, line)
         /\ \A key : Described(rows, key) => Described(rows', key)
<1>1. [Alone!Next]_(Alone!vars)
  BY NextClassification, AloneNext
<1>2. ASSUME NEW r \in rows
      PROVE  \E q \in rows' : q.id = r.id /\ Alone!SameKeys(q, r)
  BY <1>1, AloneAssumptions, Alone!RowsStay DEF AloneInv, Alone!IInv
<1> QED
  BY <1>2 DEF Cached, Described, Alone!SameKeys

\* The ways u goes from call to call.
Walks(u) ==
  \/ pc'[u] \notin {"byDescription", "llm"}
  \/ pc'[u] = Classification!Station(u, pos'[u])
  \/ /\ Classification!BySKU(file[u].issuer, Classification!Current(u).sku) = {}
     /\ pc'[u] = "byDescription"
     /\ pos'[u] = pos[u]
  \/ /\ pc[u] = "byDescription"
     /\ Classification!ByDescription(Classification!CurrentKey(u)) = {}
     /\ pc'[u] = "llm"
     /\ pos'[u] = pos[u]

\* A step of u's classification goes one of these ways, and moves nobody else.
LEMMA StepWalks ==
  ASSUME StagesInv, AloneInv, NEW u \in Uploads,
         Parse(u) \/ ClassifyStep(u) \/ ClassifyError(u)
  PROVE  /\ Walks(u)
         /\ \A v \in Uploads \ {u} : pc'[v] = pc[v] /\ pos'[v] = pos[v]
<1>1. /\ pos = [v \in Uploads |-> pos[v]]
      /\ pc = [v \in Uploads |-> pc[v]]
      /\ pc[u] = "idle" => pos[u] = 1
  BY DEF AloneInv, Alone!TypeInv, Alone!TypeOK
<1>2. ASSUME NEW c, Classification!Advance(u, c)
      PROVE  /\ Walks(u)
             /\ \A v \in Uploads \ {u} : pc'[v] = pc[v] /\ pos'[v] = pos[v]
  BY <1>1, <1>2 DEF Classification!Advance, Classification!Goto, Walks
<1>3. CASE Classification!Begin(u)
  BY <1>1, <1>3 DEF Classification!Begin, Classification!Goto, Walks
<1>4. CASE Classification!FindByIssuerAndSKU(u)
  <2>1. Classifiable(file[u]).issuer = file[u].issuer
    BY DEF Classifiable
  <2> QED
    BY <1>1, <1>2, <1>4, <2>1 DEF Classification!FindByIssuerAndSKU, Classification!Goto, Walks
<1>5. CASE Classification!FindByDescription(u)
  BY <1>1, <1>2, <1>5 DEF Classification!FindByDescription, Classification!Goto, Walks
<1>6. CASE Classification!Classify(u)
  BY <1>1, <1>2, <1>6 DEF Classification!Classify, Classification!Goto, Walks
<1>7. CASE Classification!Commit(u)
  BY <1>2, <1>7 DEF Classification!Commit
<1>8. CASE \/ Classification!Save(u)
           \/ Classification!RepositoryError(u)
           \/ Classification!CommitUnacknowledged(u)
  BY <1>1, <1>8
     DEF Classification!Save, Classification!RepositoryError,
         Classification!CommitUnacknowledged, Classification!Goto, Walks
<1> QED
  BY <1>3, <1>4, <1>5, <1>6, <1>7, <1>8 DEF Parse, ClassifyStep, ClassifyError

\* A line of the file as the classification sees it.
LEMMA FileLines ==
  ASSUME NEW u \in Uploads, NEW i \in DOMAIN file[u].lines
  PROVE  /\ Classifiable(file[u]).lines[i].sku = file[u].lines[i].sku
         /\ Classifiable(file[u]).lines[i].desc = file[u].lines[i].desc
BY DEF Classifiable

\* Whichever way u goes, it is not to the model about a line it knows.
LEMMA KnownWalks ==
  ASSUME StagesInv, AloneInv, [Next]_vars, NEW u \in Uploads, KnownInv(u), Walks(u),
         UNCHANGED <<file, known>>
  PROVE  KnownInv(u)'
<1>1. \A i \in known[u] :
        i \in DOMAIN file[u].lines /\ Cached(rows', file[u].issuer, file[u].lines[i])
  BY CacheStays DEF KnownInv
<1>2. CASE pc'[u] \notin {"byDescription", "llm"}
  BY <1>1, <1>2 DEF KnownInv
<1>3. CASE pc'[u] = Classification!Station(u, pos'[u])
  <2>1. pc'[u] # "llm"
    BY <1>3 DEF Classification!Station
  <2>2. ASSUME pc'[u] = "byDescription", pos'[u] \in known[u]
        PROVE  Described(rows', Normal[file[u].lines[pos'[u]].desc])
    <3>1. file[u].lines[pos'[u]].sku = Null
      BY <1>3, <2>2, FileLines DEF KnownInv, Classification!Station
    <3> QED
      BY <1>1, <2>2, <3>1 DEF Cached
  <2> QED
    BY <1>1, <2>1, <2>2 DEF KnownInv
<1>4. CASE /\ Classification!BySKU(file[u].issuer, Classification!Current(u).sku) = {}
           /\ pc'[u] = "byDescription"
           /\ pos'[u] = pos[u]
  <2>1. ASSUME pos[u] \in known[u]
        PROVE  Described(rows', Normal[file[u].lines[pos[u]].desc])
    <3>1. Classification!Current(u).sku = file[u].lines[pos[u]].sku
      BY <2>1, FileLines DEF KnownInv, Classification!Current
    <3>2. Described(rows, Normal[file[u].lines[pos[u]].desc])
      BY <1>4, <2>1, <3>1 DEF KnownInv, Cached, Classification!BySKU
    <3> QED
      BY <3>2, CacheStays
  <2> QED
    BY <1>1, <1>4, <2>1 DEF KnownInv
<1>5. CASE /\ pc[u] = "byDescription"
           /\ Classification!ByDescription(Classification!CurrentKey(u)) = {}
           /\ pc'[u] = "llm"
           /\ pos'[u] = pos[u]
  <2>1. ASSUME pos[u] \in known[u]
        PROVE  FALSE
    <3>1. Classification!CurrentKey(u) = Normal[file[u].lines[pos[u]].desc]
      BY <2>1, FileLines DEF KnownInv, Classification!Current, Classification!CurrentKey,
         Classification!normalizeDescription
    <3> QED
      BY <1>5, <2>1, <3>1, Lookups DEF KnownInv
  <2> QED
    BY <1>1, <1>5, <2>1 DEF KnownInv
<1> QED
  BY <1>2, <1>3, <1>4, <1>5 DEF Walks

\* The lines u knows when it begins have entries: they were stored.
LEMMA KnownAtParse ==
  ASSUME StagesInv, AloneInv, CachedInv, NEW u \in Uploads, Parse(u), [Next]_vars
  PROVE  KnownInv(u)'
<1> DEFINE Items == {j \in DOMAIN file[u].lines : KnownItem(file[u].issuer, file[u].lines[j])}
<1>1. known'[u] = Items
  BY DEF Parse, StagesInv, Functions
<1>2. ASSUME NEW i \in Items
      PROVE  Cached(rows, file[u].issuer, file[u].lines[i])
  <2>1. PICK s \in stored : \E l \in s.lines :
          /\ s.head.issuer = file[u].issuer
          /\ l.body.sku = file[u].lines[i].sku
          /\ Normal[l.body.desc] = Normal[file[u].lines[i].desc]
          /\ l.body.concept # Null
    BY <1>2 DEF KnownItem
  <2>2. PICK l \in s.lines :
          /\ s.head.issuer = file[u].issuer
          /\ l.body.sku = file[u].lines[i].sku
          /\ Normal[l.body.desc] = Normal[file[u].lines[i].desc]
          /\ l.body.concept # Null
    BY <2>1
  <2>3. Cached(rows, s.head.issuer, l.body)
    BY <2>2, Lookups DEF CachedInv, StoredConceptIsCached
  <2> QED
    BY <2>2, <2>3 DEF Cached
<1>3. UNCHANGED <<file, rows>>
  BY DEF Parse, Classification!Begin
<1>4. pc'[u] = Classification!Station(u, pos'[u])
  BY DEF Parse, Classification!Begin, Classification!Goto, AloneInv, Alone!TypeInv,
     Alone!TypeOK
<1>5. ASSUME pc'[u] = "byDescription", pos'[u] \in Items
      PROVE  Described(rows, Normal[file[u].lines[pos'[u]].desc])
  <2>1. file[u].lines[pos'[u]].sku = Null
    BY <1>4, <1>5, FileLines DEF Classification!Station
  <2> QED
    BY <1>2, <1>5, <2>1 DEF Cached
<1>6. pc'[u] # "llm"
  BY <1>4 DEF Classification!Station
<1> QED
  BY <1>1, <1>2, <1>3, <1>5, <1>6 DEF KnownInv

\* Another upload's step takes nothing from what u knows.
LEMMA KnownStays ==
  ASSUME StagesInv, AloneInv, [Next]_vars, NEW u \in Uploads, KnownInv(u),
         file' = file, known'[u] = known[u], pos'[u] = pos[u],
         pc'[u] \in {pc[u], "failed"}
  PROVE  KnownInv(u)'
BY CacheStays DEF KnownInv

\* No step makes an upload ask about a line it knows.
LEMMA NextKnown ==
  ASSUME StagesInv, AloneInv, CachedInv, [Next]_vars, NEW u \in Uploads
  PROVE  KnownInv(u)'
<1>1. KnownInv(u)
  BY DEF CachedInv
<1>2. ASSUME NEW v \in Uploads, Parse(v) \/ ClassifyStep(v) \/ ClassifyError(v), v # u
      PROVE  KnownInv(u)'
  <2>1. file' = file /\ known'[u] = known[u]
    BY <1>2 DEF Parse, ClassifyStep, ClassifyError, StagesInv, Functions
  <2> QED
    BY <1>1, <1>2, <2>1, StepWalks, KnownStays
<1>3. CASE Parse(u)
  BY <1>3, KnownAtParse
<1>4. CASE ClassifyStep(u) \/ ClassifyError(u)
  BY <1>1, <1>4, StepWalks, KnownWalks DEF ClassifyStep, ClassifyError
<1>5. ASSUME NEW v \in Uploads,
             SaveInvoice(v) \/ SaveError(v) \/ CalculateStep(v) \/ CalculateError(v)
      PROVE  KnownInv(u)'
  BY <1>1, <1>5, KnownStays
     DEF SaveInvoice, SaveError, CalculateStep, CalculateError, cacheVars
<1>6. CASE Crash
  BY <1>1, <1>6, KnownStays DEF Crash
<1>7. CASE UNCHANGED vars
  BY <1>1, <1>7, KnownStays DEF vars
<1> QED
  BY <1>2, <1>3, <1>4, <1>5, <1>6, <1>7 DEF Next, Step, Error, Terminated

\* What a save stores was classified before, so it is cached.
LEMMA ReplaceKeepsCached ==
  ASSUME AloneInv, StoredConceptIsCached, NEW u \in Uploads, Store!Replace(u),
         UNCHANGED rows
  PROVE  \A s \in stored' : \A l \in s.lines :
           l.body.concept # Null => Cached(rows', s.head.issuer, l.body)
<1>1. ASSUME NEW i \in DOMAIN file[u].lines, concept[u][i] # Null
      PROVE  Cached(rows, file[u].issuer, file[u].lines[i])
  <2>1. i \in DOMAIN concept[u]
    <3>1. Classifiable(file[u]) \in Alone!Invoice
      BY AloneAssumptions DEF AloneInv, Alone!TypeInv, Alone!TypeOK, Alone!InvoicesAssumption
    <3>2. DOMAIN Classifiable(file[u]).lines = 1..Len(Classifiable(file[u]).lines)
      BY <3>1 DEF Alone!Invoice
    <3>3. DOMAIN Classifiable(file[u]).lines = DOMAIN file[u].lines
      BY DEF Classifiable
    <3>4. /\ Len(concept[u]) = Len(Classifiable(file[u]).lines)
          /\ concept[u] \in Seq(Concepts \cup {Null})
      BY DEF AloneInv, Alone!TypeInv, Alone!TypeOK
    <3>5. DOMAIN concept[u] = 1..Len(concept[u])
      BY <3>4
    <3> QED
      BY <3>2, <3>3, <3>4, <3>5
  <2>2. Cached(rows, Classifiable(file[u]).issuer, Classifiable(file[u]).lines[i])
    BY <1>1, <2>1, Lookups DEF AloneInv, Classification!ClassifiedLineIsCached
  <2> QED
    BY <2>2, FileLines DEF Cached, Classifiable
<1>2. ASSUME NEW l \in Store!LineSet(doc[u]), l.body.concept # Null
      PROVE  Cached(rows, doc[u].head.issuer, l.body)
  <2>1. PICK i \in DOMAIN doc[u].lines : l = doc[u].lines[i]
    BY DEF Store!LineSet
  <2>2. i \in DOMAIN file[u].lines
    BY DEF doc, StoredAs
  <2>3. /\ l.body.concept = concept[u][i]
        /\ l.body.sku = file[u].lines[i].sku
        /\ l.body.desc = file[u].lines[i].desc
        /\ doc[u].head.issuer = file[u].issuer
    BY <2>1, <2>2 DEF doc, StoredAs
  <2> QED
    BY <1>1, <1>2, <2>2, <2>3 DEF Cached
<1>3. /\ Store!Content(doc[u]).lines = Store!LineSet(doc[u])
      /\ Store!Content(doc[u]).head = doc[u].head
  BY DEF Store!Content
<1>4. \A s \in stored' : s \in stored \/ s = Store!Content(doc[u])
  BY DEF Store!Replace
<1> QED
  BY <1>2, <1>3, <1>4, Lookups DEF StoredConceptIsCached

\* No step stores a concept that is not cached.
LEMMA NextStored ==
  ASSUME StagesInv, AloneInv, CachedInv, [Next]_vars
  PROVE  StoredConceptIsCached'
<1>1. ASSUME NEW s \in stored', NEW l \in s.lines, l.body.concept # Null
      PROVE  Cached(rows', s.head.issuer, l.body)
  <2>1. CASE UNCHANGED stored
    BY <1>1, <2>1, CacheStays, Lookups DEF CachedInv, StoredConceptIsCached
  <2>2. ASSUME NEW u \in Uploads, SaveInvoice(u) \/ SaveError(u), stored' # stored
        PROVE  Cached(rows', s.head.issuer, l.body)
    BY <1>1, <2>2, ReplaceKeepsCached
       DEF SaveInvoice, SaveError, Store!Save, Store!SaveUnacknowledged, cacheVars, CachedInv
  <2> QED
    BY <2>1, <2>2
       DEF Next, Step, Error, Parse, ClassifyStep, ClassifyError, CalculateStep,
           CalculateError, Crash, Terminated, vars, storeVars
<1>2. \A issuer, line :
        Cached(rows', issuer, line) => Classification!CachedFor(issuer, line)' # {}
  BY DEF Cached, Described, Classification!ByDescription, Classification!CachedFor,
     Classification!BySKU, Classification!normalizeDescription
<1> QED
  BY <1>1, <1>2 DEF StoredConceptIsCached

\* What is stored is cached at first.
LEMMA InitCached == Init => CachedInv
BY DEF Init, CachedInv, KnownInv, StoredConceptIsCached, Store!Init, Classification!Init

\* What is stored with a concept is cached.
LEMMA CachedInvariance == Spec => []CachedInv
<1>1. StagesInv /\ AloneInv /\ CachedInv /\ [Next]_vars => CachedInv'
  BY NextKnown, NextStored DEF CachedInv
<1> QED
  BY <1>1, InitCached, Stages, AloneInvariance, PTL DEF Spec

\* Nothing is stored with a concept that the cache does not have under a key of
\* the line, across the transactions of the two components and their failures.
THEOREM StoredCorrect == Spec => []StoredConceptIsCached
<1>1. CachedInv => StoredConceptIsCached
  BY DEF CachedInv
<1> QED
  BY <1>1, CachedInvariance, PTL

\* The model is not asked about a line whose item was stored with a concept
\* when the upload began, whatever other uploads do meanwhile.
THEOREM AskedCorrect == Spec => []StoredItemIsNotAskedAgain
<1>1. CachedInv => StoredItemIsNotAskedAgain
  BY DEF CachedInv, KnownInv, StoredItemIsNotAskedAgain
<1> QED
  BY <1>1, CachedInvariance, PTL

-----------------------------------------------------------------------------
\* What is proved of uploads that only calculate, with the substitutions of
\* Withholdings.
Rows == INSTANCE CalculateWithholdingsProofs
  WITH inv <- [u \in Uploads |-> Calculable(file[u], concept[u])],
       Invoices <- UNION {{Calculable(f, c) :
                             c \in [DOMAIN f.lines -> Concepts \cup {Null}]} : f \in Files},
       pc <- calc

\* What the calculation is given is an invoice with the lines' concepts.
LEMMA CalculableType ==
  ASSUME NEW f \in Files, NEW c \in [DOMAIN f.lines -> Concepts \cup {Null}]
  PROVE  Calculable(f, c) \in Rows!Invoice
<1>1. f \in File /\ f.cufe \in Nat \ {0}
  BY FilesAssumption, CufesAssumption DEF File
<1>2. PICK n \in Nat : DOMAIN f.lines = 1..n
  BY <1>1 DEF File
<1>3. \A i \in 1..n : [concept |-> c[i], total |-> f.lines[i].total, iva |-> f.lines[i].iva]
                        \in Rows!Line
  <2>1. \A i \in 1..n : f.lines[i] \in FileLine
    BY <1>1, <1>2 DEF File
  <2> QED
    BY <1>2, <2>1 DEF FileLine, Rows!Line
<1>4. [i \in DOMAIN f.lines |->
         [concept |-> c[i], total |-> f.lines[i].total, iva |-> f.lines[i].iva]]
        \in Seq(Rows!Line)
  BY <1>2, <1>3, SeqDef
<1> QED
  BY <1>1, <1>4 DEF Calculable, Rows!Invoice, File

\* What the proofs about uploads that only calculate assume, holds here.
LEMMA RowsAssumptions ==
  /\ Rows!FractionAssumption
  /\ Rows!AgentAssumption
  /\ Rows!ConceptsAssumption
  /\ Rows!TablesAssumption
  /\ Rows!InvoicesAssumption
<1>1. Rows!InvoicesAssumption
  BY CalculableType DEF Rows!InvoicesAssumption
<1>3. Rows!OneHundredPercent = Withholdings!OneHundredPercent
  BY Zenon DEF Rows!OneHundredPercent, Withholdings!OneHundredPercent
<1>2. Rows!TablesAssumption
  BY <1>3, TablesAssumption
     DEF Rows!TablesAssumption, Rows!TablesAreSeeded, Withholdings!TablesAreSeeded,
         Rows!Rule, Withholdings!Rule, Rows!UVTValue, Withholdings!UVTValue,
         Rows!TaxTypes, Withholdings!TaxTypes
<1> QED
  BY <1>1, <1>2, FractionAssumption, AgentAssumption, ConceptsAssumption, NullAssumption
     DEF Rows!FractionAssumption, Rows!AgentAssumption, Rows!ConceptsAssumption

\* The operators of the two instances are the same, layer by layer.
LEMMA SameGroups ==
  ASSUME NEW i, NEW n
  PROVE  /\ Withholdings!StepsOf(i) = Rows!StepsOf(i)
         /\ Withholdings!GroupAt(i, n) = Rows!GroupAt(i, n)
         /\ Withholdings!TaxAt(n) = Rows!TaxAt(n)
BY DEF Withholdings!groupLinesByConcept, Rows!groupLinesByConcept,
         Withholdings!FoldLeft, Rows!FoldLeft, Withholdings!MapThenFoldSet,
         Rows!MapThenFoldSet, Withholdings!Grouped, Rows!Grouped, Withholdings!Max,
         Rows!Max, Withholdings!StepsOf, Rows!StepsOf, Withholdings!GroupAt,
         Rows!GroupAt, Withholdings!TaxAt, Rows!TaxAt, Withholdings!allTaxTypes,
         Rows!allTaxTypes

\* The engine of the pipeline's calculation is that of Rows.
LEMMA SameAmounts ==
  /\ \A rule, uvt, amount :
        Withholdings!CalculateWithMinimumBase(rule, uvt, amount)
          = Rows!CalculateWithMinimumBase(rule, uvt, amount)
  /\ \A rule, amount :
        Withholdings!CalculateReteiva(rule, amount) = Rows!CalculateReteiva(rule, amount)
  /\ \A tax : Withholdings!NotApplicable(tax) = Rows!NotApplicable(tax)
BY DEF Withholdings!Round, Rows!Round, Withholdings!OneHundredPercent,
         Rows!OneHundredPercent, Withholdings!MinimumBase, Rows!MinimumBase,
         Withholdings!Calculation, Rows!Calculation,
         Withholdings!CalculateWithMinimumBase, Rows!CalculateWithMinimumBase,
         Withholdings!CalculateReteiva, Rows!CalculateReteiva,
         Withholdings!NotApplicable, Rows!NotApplicable

\* Both read the tables alike.
LEMMA SameTables ==
  /\ \A at : Withholdings!FindUVTValue(at) = Rows!FindUVTValue(at)
  /\ \A name : Withholdings!FindCityByName(name) = Rows!FindCityByName(name)
  /\ \A tax, c, where, at :
        Withholdings!FindApplicable(tax, c, where, at) = Rows!FindApplicable(tax, c, where, at)
  /\ \A i : Withholdings!Uvt(i) = Rows!Uvt(i)
BY DEF Withholdings!FindUVTValue, Rows!FindUVTValue, Withholdings!FindCityByName,
         Rows!FindCityByName, Withholdings!FindApplicable, Rows!FindApplicable,
         Withholdings!Applicable, Rows!Applicable, Withholdings!Latest, Rows!Latest,
         Withholdings!ValidAt, Rows!ValidAt, Withholdings!Uvt, Rows!Uvt

\* So both calculate alike.
LEMMA SameCalculation ==
  ASSUME NEW i, NEW where, NEW group, NEW tax
  PROVE  Withholdings!Calculate(i, where, group, tax) = Rows!Calculate(i, where, group, tax)
BY DEF Withholdings!Round, Rows!Round, Withholdings!OneHundredPercent,
   Rows!OneHundredPercent, Withholdings!MinimumBase, Rows!MinimumBase,
   Withholdings!Calculation, Rows!Calculation, Withholdings!CalculateWithMinimumBase,
   Rows!CalculateWithMinimumBase, Withholdings!CalculateReteiva, Rows!CalculateReteiva,
   Withholdings!NotApplicable, Rows!NotApplicable, Withholdings!FindUVTValue,
   Rows!FindUVTValue, Withholdings!FindApplicable, Rows!FindApplicable,
   Withholdings!Applicable, Rows!Applicable, Withholdings!Latest, Rows!Latest,
   Withholdings!ValidAt, Rows!ValidAt, Withholdings!Uvt, Rows!Uvt,
   Withholdings!calculateMinimumBaseTax, Rows!calculateMinimumBaseTax,
   Withholdings!calculateReteiva, Rows!calculateReteiva, Withholdings!calculateReteica,
   Rows!calculateReteica, Withholdings!Calculate, Rows!Calculate

\* Both make and write the same rows.
LEMMA SameRows ==
  /\ \A u, group, tax : Withholdings!Row(u, group, tax) = Rows!Row(u, group, tax)
  /\ \A u, n : Withholdings!RowAt(u, n) = Rows!RowAt(u, n)
  /\ \A row : Withholdings!Upsert(row) <=> Rows!Upsert(row)
<1>1. \A u, group, tax : Withholdings!Row(u, group, tax) = Rows!Row(u, group, tax)
  BY SameCalculation DEF Withholdings!Row, Rows!Row, Withholdings!ConceptColumn,
        Rows!ConceptColumn
<1>2. \A row : Withholdings!Upsert(row) <=> Rows!Upsert(row)
  BY DEF Withholdings!Upsert, Rows!Upsert, Withholdings!SameKey, Rows!SameKey
<1> QED
  BY <1>1, <1>2, SameGroups DEF Withholdings!RowAt, Rows!RowAt

\* Both take the same steps.
LEMMA SameSteps ==
  ASSUME NEW u
  PROVE  /\ Withholdings!FindReferenceData(u) <=> Rows!FindReferenceData(u)
         /\ Withholdings!Persist(u) <=> Rows!Persist(u)
         /\ Withholdings!Fail(u) <=> Rows!Fail(u)
         /\ Withholdings!UpsertUnacknowledged(u) <=> Rows!UpsertUnacknowledged(u)
<1>1. Withholdings!FindReferenceData(u) <=> Rows!FindReferenceData(u)
  BY SameTables, SameGroups DEF Withholdings!FindReferenceData, Rows!FindReferenceData,
        Withholdings!Ready, Rows!Ready, Withholdings!Goto, Rows!Goto
<1>2. Withholdings!Persist(u) <=> Rows!Persist(u)
  BY SameRows, SameGroups DEF Withholdings!Persist, Rows!Persist, Withholdings!Goto,
        Rows!Goto, Withholdings!Pending, Rows!Pending
<1>3. Withholdings!Fail(u) <=> Rows!Fail(u)
  BY DEF Withholdings!Fail, Rows!Fail, Withholdings!Goto, Rows!Goto
<1>4. Withholdings!UpsertUnacknowledged(u) <=> Rows!UpsertUnacknowledged(u)
  BY SameRows DEF Withholdings!UpsertUnacknowledged, Rows!UpsertUnacknowledged,
        Withholdings!Goto, Rows!Goto, Withholdings!Pending, Rows!Pending
<1> QED
  BY <1>1, <1>2, <1>3, <1>4

\* Both have the same types.
LEMMA SameTypes == Rows!TypeOK => Withholdings!TypeOK
BY SameGroups DEF Withholdings!Pending, Rows!Pending, Withholdings!TypeOK, Rows!TypeOK,
         Withholdings!CalculationRow, Rows!CalculationRow, Withholdings!TaxTypes,
         Rows!TaxTypes, Withholdings!Finished, Rows!Finished
-----------------------------------------------------------------------------
(* The calculations of the pipeline are those of uploads that calculate.   *)

\* Where an upload is in its calculation, seen from its stage.
CalcStage(u) ==
  /\ stage[u] \in {"idle", "classify", "save"} => calc[u] = "idle"
  /\ stage[u] = "calculate" => calc[u] \in {"idle", "persist"}
  /\ stage[u] = "responded" => calc[u] = "calculated"

CalcInv ==
  /\ Rows!IInv
  /\ \A u \in Uploads : CalcStage(u)

\* What an upload that has its invoice to itself has left in the database.
CurrentInv(u) ==
  current[file[u].cufe] = u =>
    /\ stage[u] # "idle"
    /\ \A v \in Uploads \ {u} : file[v].cufe = file[u].cufe => stage[v] \notin InProgress
    /\ stage[u] \in {"calculate", "responded"} => Store!Content(doc[u]) \in stored
    /\ \A n \in DOMAIN results[u] : results[u][n] \in calculations

\* An invoice is stored as one of its uploads carries it, and what an upload has
\* calculated may be overwritten but never vanishes.
StoredInv ==
  /\ \A s \in stored : \E u \in Uploads :
        s = Store!Content(doc[u]) /\ stage[u] \in {"calculate", "responded", "failed"}
  /\ \A u \in Uploads : \A n \in DOMAIN results[u] :
        \E row \in calculations : Rows!SameKey(row, results[u][n])

AnswerInv ==
  /\ current \in [Cufes -> Uploads \cup {Nobody}]
  /\ StoredInv
  /\ \A u \in Uploads : CurrentInv(u)

\* No step changes which file an upload carries.
LEMMA FileStays == [Next]_vars => UNCHANGED file
BY DEF Next, Step, Error, Parse, ClassifyStep, ClassifyError, SaveInvoice, SaveError,
   CalculateStep, CalculateError, Crash, Terminated, vars

\* The invoice each upload carries: its file, with a concept or none for a line.
Carried ==
  /\ file \in [Uploads -> Files]
  /\ \A u \in Uploads : concept[u] \in [DOMAIN file[u].lines -> Concepts \cup {Null}]

\* What is calculated is what the uploads carry.
LEMMA CarriedInvariance == Spec => []Carried
<1>1. Spec => [](file \in [Uploads -> Files])
  <2>1. Init => file \in [Uploads -> Files]
    BY DEF Init
  <2>2. file \in [Uploads -> Files] /\ [Next]_vars => (file \in [Uploads -> Files])'
    BY FileStays
  <2> QED
    BY <2>1, <2>2, PTL DEF Spec
<1>2. ASSUME AloneInv, file \in [Uploads -> Files], NEW u \in Uploads
      PROVE  concept[u] \in [DOMAIN file[u].lines -> Concepts \cup {Null}]
  <2>1. Classifiable(file[u]) \in Alone!Invoice
    BY <1>2, AloneAssumptions
       DEF AloneInv, Alone!TypeInv, Alone!TypeOK, Alone!InvoicesAssumption
  <2>2. DOMAIN Classifiable(file[u]).lines = 1..Len(Classifiable(file[u]).lines)
    BY <2>1 DEF Alone!Invoice
  <2>3. DOMAIN Classifiable(file[u]).lines = DOMAIN file[u].lines
    BY DEF Classifiable
  <2>4. /\ Len(concept[u]) = Len(Classifiable(file[u]).lines)
        /\ concept[u] \in Seq(Concepts \cup {Null})
    BY <1>2 DEF AloneInv, Alone!TypeInv, Alone!TypeOK
  <2>5. concept[u] \in [1..Len(concept[u]) -> Concepts \cup {Null}]
    BY <2>4
  <2> QED
    BY <2>2, <2>3, <2>4, <2>5
<1>3. AloneInv /\ file \in [Uploads -> Files] => Carried
  BY <1>2 DEF Carried
<1> QED
  BY <1>1, <1>3, AloneInvariance, PTL

\* Lines get concepts only while they are classified.
LEMMA ConceptStays ==
  ASSUME StagesInv, AloneInv, [Next]_vars, NEW u \in Uploads, stage[u] # "classify"
  PROVE  concept'[u] = concept[u]
<1>1. concept = [v \in Uploads |-> concept[v]]
  BY DEF AloneInv, Alone!TypeInv, Alone!TypeOK
<1>2. ASSUME NEW v \in Uploads, ClassifyStep(v) \/ ClassifyError(v)
      PROVE  concept'[u] = concept[u]
  BY <1>1, <1>2
     DEF ClassifyStep, ClassifyError, Classification!FindByIssuerAndSKU,
         Classification!FindByDescription, Classification!Classify, Classification!Save,
         Classification!Commit, Classification!Advance, Classification!RepositoryError,
         Classification!CommitUnacknowledged
<1>3. CASE UNCHANGED concept
  BY <1>3
<1> QED
  BY <1>2, <1>3
     DEF Next, Step, Error, Parse, Classification!Begin, SaveInvoice, SaveError,
         CalculateStep, CalculateError, Crash, Terminated, vars, cacheVars

\* Where an upload can be after a step.
LEMMA StageMoves ==
  ASSUME StagesInv, [Next]_vars, NEW u \in Uploads
  PROVE  /\ stage[u] \in {"responded", "failed"} => stage'[u] = stage[u]
         /\ stage[u] = "calculate" => stage'[u] \in {"calculate", "responded", "failed"}
         /\ stage[u] = "save" => stage'[u] \in {"save", "calculate", "failed"}
         /\ stage[u] = "classify" => stage'[u] \in {"classify", "save", "failed"}
         /\ stage[u] = "idle" => stage'[u] \in {"idle", "classify", "save", "failed"}
<1>1. stage = [v \in Uploads |-> stage[v]]
  BY DEF StagesInv, Functions
<1>2. ASSUME NEW v \in Uploads, Parse(v) \/ ClassifyStep(v) \/ ClassifyError(v)
      PROVE  /\ stage' = [stage EXCEPT ![v] = stage'[v]]
             /\ stage[v] \in {"idle", "classify"}
             /\ stage'[v] \in {"classify", "save", "failed"}
  BY <1>1, <1>2 DEF Parse, ClassifyStep, ClassifyError, Classified, Goto
<1>3. ASSUME NEW v \in Uploads,
             SaveInvoice(v) \/ SaveError(v) \/ CalculateStep(v) \/ CalculateError(v)
      PROVE  /\ stage' = [stage EXCEPT ![v] = stage'[v]]
             /\ stage[v] = "save" => stage'[v] \in {"calculate", "failed"}
             /\ stage[v] = "calculate" => stage'[v] \in {"calculate", "responded", "failed"}
             /\ stage[v] \in {"save", "calculate"}
  BY <1>1, <1>3 DEF SaveInvoice, SaveError, CalculateStep, CalculateError, Goto
<1>4. CASE Crash
  BY <1>4 DEF Crash, InProgress
<1>5. CASE UNCHANGED vars
  BY <1>5 DEF vars
<1> QED
  BY <1>1, <1>2, <1>3, <1>4, <1>5 DEF Next, Step, Error, Terminated

\* A change to the lines of uploads that have not calculated changes no row.
LEMMA ClassifyingKeepsRows ==
  ASSUME Rows!IInv, UNCHANGED <<file, calcVars>>, Carried',
         \A u \in Uploads : calc[u] = "idle" \/ concept'[u] = concept[u]
  PROVE  Rows!IInv'
<1>1. Rows!Shape'
  <2>1. \A u \in Uploads :
          Calculable(file[u], concept[u])'
             \in UNION {{Calculable(f, c) : c \in [DOMAIN f.lines -> Concepts \cup {Null}]}
                          : f \in Files}
    BY DEF Carried
  <2> QED
    BY <2>1 DEF Rows!IInv, Rows!Shape, calcVars, Rows!CalculationRow, Rows!Finished
<1>2. Rows!RowsInv'
  BY DEF Rows!IInv, Rows!RowsInv, calcVars, Rows!Within, Rows!CalculationRow
<1>3. ASSUME NEW u \in Uploads
      PROVE  Rows!UploadInv(u)'
  <2>1. CASE calc[u] = "idle"
    <3>1. results'[u] = <<>> /\ calc'[u] = "idle" /\ Len(results'[u]) = 0
      BY <2>1 DEF Rows!IInv, Rows!UploadInv, calcVars
    <3>2. Calculable(file[u], concept[u])'
             \in UNION {{Calculable(f, c) : c \in [DOMAIN f.lines -> Concepts \cup {Null}]}
                          : f \in Files}
      BY DEF Carried
    <3>3. Rows!StepsOf(Calculable(file[u], concept[u]))' \in Nat
      BY <3>2, RowsAssumptions, Rows!InvoiceGroups
    <3> QED
      BY <3>1, <3>3 DEF Rows!UploadInv
  <2>2. CASE concept'[u] = concept[u]
    <3>1. Rows!UploadInv(u)
      BY DEF Rows!IInv
    <3>2. Calculable(file[u], concept[u])' = Calculable(file[u], concept[u])
      BY <2>2
    <3>3. \A n : Rows!RowAt(u, n)' = Rows!RowAt(u, n)
      BY <3>2 DEF Rows!RowAt, Rows!Row, calcVars
    <3>4. Rows!StepsOf(Calculable(file[u], concept[u]))'
            = Rows!StepsOf(Calculable(file[u], concept[u]))
      BY <3>2
    <3>5. calc'[u] = calc[u] /\ results'[u] = results[u]
      BY DEF calcVars
    <3> QED
      BY <3>1, <3>2, <3>3, <3>4, <3>5 DEF Rows!UploadInv
  <2> QED
    BY <1>3, <2>1, <2>2
<1> QED
  BY <1>1, <1>2, <1>3 DEF Rows!IInv

\* At the start nobody has calculated.
LEMMA InitCalc == Init /\ Carried => CalcInv
<1> SUFFICES ASSUME Init, Carried PROVE CalcInv
  OBVIOUS
<1>2. Rows!Init
  BY DEF Carried, Init, Rows!Init, Withholdings!Init
<1>3. Rows!IInv
  BY <1>2, RowsAssumptions, Rows!InitInv
<1>4. \A u \in Uploads : CalcStage(u)
  BY DEF Init, Withholdings!Init, CalcStage
<1> QED
  BY <1>3, <1>4 DEF CalcInv

\* A step of the calculation keeps the invariant of its proofs.
LEMMA CalculateKeepsRows ==
  ASSUME Rows!IInv, NEW u \in Uploads,
         \/ Withholdings!FindReferenceData(u) \/ Withholdings!Persist(u)
         \/ Withholdings!Fail(u) \/ Withholdings!UpsertUnacknowledged(u)
  PROVE  Rows!IInv'
BY RowsAssumptions, SameSteps, Rows!FindReferenceDataKeeps, Rows!PersistKeeps, Rows!FailKeeps

\* Every step of the pipeline keeps the invariant of the rows.
LEMMA NextRows ==
  ASSUME StagesInv, AloneInv, Carried, Carried', CalcInv, [Next]_vars
  PROVE  Rows!IInv'
<1>1. ASSUME UNCHANGED calcVars
      PROVE  Rows!IInv'
  <2>1. \A u \in Uploads : calc[u] = "idle" \/ concept'[u] = concept[u]
    <3>1. \A u \in Uploads : stage[u] = "classify" => calc[u] = "idle"
      BY DEF CalcInv, CalcStage
    <3> QED
      BY <3>1, ConceptStays
  <2>2. UNCHANGED file
    BY FileStays
  <2> QED
    BY <1>1, <2>1, <2>2, ClassifyingKeepsRows DEF CalcInv, calcVars
<1>2. ASSUME NEW u \in Uploads, CalculateStep(u) \/ CalculateError(u)
      PROVE  Rows!IInv'
  BY <1>2, CalculateKeepsRows DEF CalculateStep, CalculateError, CalcInv
<1> QED
  BY <1>1, <1>2
     DEF Next, Step, Error, Parse, ClassifyStep, ClassifyError, SaveInvoice, SaveError,
         Crash, Terminated, vars, calcVars

\* Uploads calculate only in the stage that follows the save.
LEMMA NextCalcStage ==
  ASSUME StagesInv, CalcInv, [Next]_vars, NEW u \in Uploads
  PROVE  CalcStage(u)'
<1>1. CalcStage(u) /\ stage = [v \in Uploads |-> stage[v]] /\ calc = [v \in Uploads |-> calc[v]]
  BY DEF CalcInv, StagesInv, Functions, Rows!IInv, Rows!Shape
<1>2. CASE UNCHANGED calc
  <2>1. CASE stage'[u] = stage[u]
    BY <1>1, <1>2, <2>1 DEF CalcStage
  <2>2. CASE stage[u] \in {"idle", "classify", "save"}
    <3>1. stage'[u] \in {"idle", "classify", "save", "calculate", "failed"}
      BY <2>2, StageMoves
    <3> QED
      BY <1>1, <1>2, <2>2, <3>1 DEF CalcStage
  <2>3. CASE stage[u] = "calculate" /\ stage'[u] # stage[u]
    <3>1. stage'[u] = "failed"
      BY <1>1, <1>2, <2>3
         DEF Next, Step, Error, Parse, ClassifyStep, ClassifyError, SaveInvoice, SaveError,
             CalculateStep, CalculateError, Crash, Terminated, vars, Goto, Classified,
             CalcStage, InProgress
    <3> QED
      BY <3>1 DEF CalcStage
  <2> QED
    BY <2>1, <2>2, <2>3, StageMoves DEF StagesInv, StageInv, InProgress, Ended
<1>3. ASSUME NEW v \in Uploads, CalculateStep(v) \/ CalculateError(v)
      PROVE  CalcStage(u)'
  <2>1. PICK to \in {"persist", "calculated", "failed"} :
          /\ calc' = [calc EXCEPT ![v] = to]
          /\ stage' = [stage EXCEPT ![v] = CASE to = "persist" -> "calculate"
                                             [] to = "calculated" -> "responded"
                                             [] OTHER -> "failed"]
    <3>1. CASE CalculateStep(v)
      <4>1. PICK to \in {"persist", "calculated"} : calc' = [calc EXCEPT ![v] = to]
        BY <3>1 DEF CalculateStep, Withholdings!FindReferenceData, Withholdings!Persist,
           Withholdings!Goto
      <4>2. calc'[v] = to
        BY <1>1, <4>1
      <4> QED
        BY <3>1, <4>1, <4>2 DEF CalculateStep, Goto
    <3>2. CASE CalculateError(v)
      BY <3>2 DEF CalculateError, Withholdings!Fail, Withholdings!UpsertUnacknowledged,
         Withholdings!Goto, Goto
    <3> QED
      BY <1>3, <3>1, <3>2
  <2> QED
    BY <1>1, <2>1 DEF CalcStage
<1> QED
  BY <1>2, <1>3
     DEF Next, Step, Error, Parse, ClassifyStep, ClassifyError, SaveInvoice, SaveError,
         Crash, Terminated, vars, calcVars

\* The rows' invariant holds of the pipeline.
LEMMA CalcInvariance == Spec => []CalcInv
<1>1. StagesInv /\ AloneInv /\ Carried /\ Carried' /\ CalcInv /\ [Next]_vars => CalcInv'
  BY NextRows, NextCalcStage DEF CalcInv
<1> QED
  BY <1>1, InitCalc, Stages, AloneInvariance, CarriedInvariance, PTL DEF Spec

-----------------------------------------------------------------------------
(* What an answer says is stored.                                          *)

\* u stores its invoice in place of any version of it.
Replaces(u) ==
  /\ stage[u] = "save"
  /\ stage'[u] \in {"calculate", "failed"}
  /\ Store!Replace(u)
  /\ UNCHANGED <<calculations, results, current>>

\* u upserts a row, and is told so or not.
Writes(u) ==
  /\ stage[u] = "calculate"
  /\ calc[u] = "persist"
  /\ Rows!Upsert(Rows!RowAt(u, Rows!Pending(u)))
  /\ \/ results' = results
     \/ results' = [results EXCEPT ![u] = Append(@, Rows!RowAt(u, Rows!Pending(u)))]
  /\ UNCHANGED <<stored, current>>

\* u begins, with or without its invoice to itself.
Begins(u) ==
  /\ stage[u] = "idle"
  /\ LET others == {v \in Uploads : stage[v] \in InProgress /\ file[v].cufe = file[u].cufe}
     IN  current' = [current EXCEPT ![file[u].cufe] = IF others = {} THEN u ELSE Nobody]
  /\ stage' = [stage EXCEPT ![u] = stage'[u]]
  /\ stage'[u] \in {"classify", "save", "failed"}
  /\ UNCHANGED <<stored, calculations, results>>

\* What each step does to the invoices stored and to the calculations.
LEMMA SaveReplaces ==
  ASSUME StagesInv, NEW u \in Uploads, SaveInvoice(u) \/ SaveError(u)
  PROVE  Replaces(u) \/ UNCHANGED <<stored, calculations, results, current>>
BY DEF SaveInvoice, SaveError, Store!Save, Store!SaveUnacknowledged, Replaces, Goto,
   calcVars, StagesInv, Functions

\* A step of the calculation overwrites rows with its own.
LEMMA CalculateWrites ==
  ASSUME NEW u \in Uploads, CalculateStep(u) \/ CalculateError(u)
  PROVE  Writes(u) \/ UNCHANGED <<stored, calculations, results, current>>
<1>1. stage[u] = "calculate" /\ UNCHANGED <<stored, current>>
  BY DEF CalculateStep, CalculateError, storeVars
<1>2. CASE Rows!Persist(u)
  BY <1>1, <1>2 DEF Rows!Persist, Rows!RowAt, Writes
<1>3. CASE Rows!UpsertUnacknowledged(u)
  BY <1>1, <1>3 DEF Rows!UpsertUnacknowledged, Writes
<1>4. CASE Rows!FindReferenceData(u) \/ Rows!Fail(u)
  BY <1>1, <1>4 DEF Rows!FindReferenceData, Rows!Fail
<1> QED
  BY <1>2, <1>3, <1>4, SameSteps DEF CalculateStep, CalculateError

\* Parse begins an upload and writes nothing.
LEMMA ParseBegins ==
  ASSUME StagesInv, NEW u \in Uploads, Parse(u)
  PROVE  Begins(u)
<1>1. stage' = [stage EXCEPT ![u] = stage'[u]] /\ stage'[u] \in {"classify", "save", "failed"}
  BY DEF Parse, Classified, Goto, StagesInv, Functions
<1> QED
  BY <1>1 DEF Parse, Begins, storeVars, calcVars

\* What a step does to the invoices and calculations stored and to who has an
\* invoice to itself.
LEMMA StepEffects ==
  ASSUME StagesInv, [Next]_vars
  PROVE  \/ \E u \in Uploads : Replaces(u) \/ Writes(u) \/ Begins(u)
         \/ UNCHANGED <<stored, calculations, results, current>>
BY SaveReplaces, CalculateWrites, ParseBegins
   DEF Next, Step, Error, ClassifyStep, ClassifyError, Crash, Terminated, vars, storeVars,
       calcVars

\* What u is to store changes only while u classifies.
LEMMA DocStays ==
  ASSUME StagesInv, AloneInv, [Next]_vars, NEW u \in Uploads, stage[u] # "classify"
  PROVE  doc'[u] = doc[u]
BY FileStays, ConceptStays DEF doc

\* An invoice is stored under the CUFE of its file.
LEMMA ContentCufe ==
  ASSUME NEW u \in Uploads
  PROVE  doc[u].cufe = file[u].cufe /\ Store!Content(doc[u]).cufe = file[u].cufe
<1>1. doc[u].cufe = file[u].cufe
  BY DEF doc, StoredAs
<1> QED
  BY <1>1 DEF Store!Content

\* The row u writes is its invoice's, and none that it has written before.
LEMMA WrittenRow ==
  ASSUME CalcInv, NEW u \in Uploads, Writes(u)
  PROVE  LET row == Rows!RowAt(u, Rows!Pending(u))
         IN  /\ row.invoice = file[u].cufe
             /\ \A n \in DOMAIN results[u] : ~ Rows!SameKey(results[u][n], row)
             /\ DOMAIN results[u] = 1..Len(results[u]) /\ Len(results[u]) \in Nat
<1> DEFINE i   == [v \in Uploads |-> Calculable(file[v], concept[v])][u]
           row == Rows!RowAt(u, Rows!Pending(u))
<1>1. /\ Rows!UploadInv(u) /\ calc[u] = "persist"
      /\ results[u] \in Seq(Rows!CalculationRow)
      /\ [v \in Uploads |-> Calculable(file[v], concept[v])]
           \in [Uploads -> UNION {{Calculable(f, c) :
                                     c \in [DOMAIN f.lines -> Concepts \cup {Null}]}
                                   : f \in Files}]
  BY DEF CalcInv, Rows!IInv, Rows!Shape, Writes
<1>2. i \in UNION {{Calculable(f, c) : c \in [DOMAIN f.lines -> Concepts \cup {Null}]}
                     : f \in Files}
  BY <1>1
<1>3. Rows!StepsOf(i) \in Nat
  BY <1>2, RowsAssumptions, Rows!InvoiceGroups
<1>4. /\ DOMAIN results[u] = 1..Len(results[u]) /\ Len(results[u]) \in Nat
      /\ Rows!Pending(u) \in 1..Rows!StepsOf(i)
      /\ Rows!IsRow(row, i, Rows!Pending(u), city[u])
  BY <1>1, RowsAssumptions, Rows!PendingRow DEF CalcInv
<1>5. row.invoice = file[u].cufe
  BY <1>4 DEF Rows!IsRow, Calculable
<1>6. ASSUME NEW n \in DOMAIN results[u], Rows!SameKey(results[u][n], row)
      PROVE  FALSE
  <2>1. n \in 1..Rows!StepsOf(i) /\ results[u][n] = Rows!RowAt(u, n)
    BY <1>1, <1>3, <1>4 DEF Rows!UploadInv
  <2>2. Rows!Ready(i)
    BY <1>1 DEF Rows!UploadInv
  <2>3. Rows!SameKey(Rows!RowAt(u, n), row)
    BY <1>6, <2>1
  <2>4. n = Rows!Pending(u)
    BY <1>2, <1>4, <2>1, <2>2, <2>3, RowsAssumptions, Rows!RowsHaveKeys
  <2> QED
    BY <1>4, <2>4 DEF Rows!Pending
<1> QED
  BY <1>4, <1>5, <1>6

\* What is stored is what an upload past its save carried.
LEMMA NextStoredInvoices ==
  ASSUME StagesInv, AloneInv, StoredInv, [Next]_vars, NEW s \in stored'
  PROVE  \E u \in Uploads : /\ s = Store!Content(doc[u])'
                            /\ stage'[u] \in {"calculate", "responded", "failed"}
<1>1. CASE s \in stored
  <2>1. PICK u \in Uploads : /\ s = Store!Content(doc[u])
                             /\ stage[u] \in {"calculate", "responded", "failed"}
    BY <1>1 DEF StoredInv
  <2>2. stage'[u] \in {"calculate", "responded", "failed"}
    BY <2>1, StageMoves
  <2>3. doc'[u] = doc[u]
    BY <2>1, DocStays
  <2> QED
    BY <2>1, <2>2, <2>3 DEF Store!Content, Store!LineSet
<1>2. CASE s \notin stored
  <2>1. PICK u \in Uploads : Replaces(u)
    BY <1>2, StepEffects DEF Writes, Begins
  <2>2. s = Store!Content(doc[u])
    BY <1>2, <2>1 DEF Replaces, Store!Replace
  <2>3. doc'[u] = doc[u]
    BY <2>1, DocStays DEF Replaces
  <2> QED
    BY <2>1, <2>2, <2>3 DEF Replaces, Store!Content, Store!LineSet
<1> QED
  BY <1>1, <1>2

\* The last result of an upload after it has written.
LEMMA WrittenResults ==
  ASSUME CalcInv, NEW u \in Uploads, Writes(u), NEW n \in DOMAIN results'[u]
  PROVE  \/ n \in DOMAIN results[u] /\ results'[u][n] = results[u][n]
         \/ results'[u][n] = Rows!RowAt(u, Rows!Pending(u))
<1> DEFINE row == Rows!RowAt(u, Rows!Pending(u))
<1>1. results = [v \in Uploads |-> results[v]] /\ results[u] \in Seq(Rows!CalculationRow)
  BY DEF CalcInv, Rows!IInv, Rows!Shape
<1>2. CASE results' = results
  BY <1>2
<1>3. CASE results' = [results EXCEPT ![u] = Append(@, row)]
  <2> HIDE DEF row
  <2>1. results'[u] = Append(results[u], row)
    BY <1>1, <1>3
  <2>2. /\ DOMAIN Append(results[u], row) = 1..Len(results[u]) + 1
        /\ \A k \in 1..Len(results[u]) : Append(results[u], row)[k] = results[u][k]
        /\ Append(results[u], row)[Len(results[u]) + 1] = row
        /\ Len(results[u]) \in Nat /\ DOMAIN results[u] = 1..Len(results[u])
    BY <1>1
  <2>3. CASE n = Len(results[u]) + 1
    BY <2>1, <2>2, <2>3 DEF row
  <2>4. CASE n # Len(results[u]) + 1
    BY <2>1, <2>2, <2>4
  <2> QED
    BY <2>3, <2>4
<1> QED
  BY <1>2, <1>3 DEF Writes

\* The results of the others are as they were.
LEMMA OtherResults ==
  ASSUME CalcInv, NEW u \in Uploads, Writes(u), NEW v \in Uploads, v # u
  PROVE  results'[v] = results[v]
BY DEF CalcInv, Rows!IInv, Rows!Shape, Writes

\* The results of who answers or calculates are in the table, or replaced.
LEMMA NextResults ==
  ASSUME StagesInv, CalcInv, StoredInv, [Next]_vars,
         NEW u \in Uploads, NEW n \in DOMAIN results'[u]
  PROVE  \E row \in calculations' : Rows!SameKey(row, results'[u][n])
<1>1. CASE UNCHANGED <<calculations, results>>
  BY <1>1 DEF StoredInv
<1>2. ASSUME NEW v \in Uploads, Writes(v)
      PROVE  \E row \in calculations' : Rows!SameKey(row, results'[u][n])
  <2> DEFINE new == Rows!RowAt(v, Rows!Pending(v))
  <2>1. calculations' = {r \in calculations : ~ Rows!SameKey(r, new)} \cup {new}
    BY <1>2 DEF Writes, Rows!Upsert
  <2>2. ASSUME NEW r, \E row \in calculations : Rows!SameKey(row, r)
        PROVE  \E row \in calculations' : Rows!SameKey(row, r)
    <3> HIDE DEF new
    <3>1. PICK row \in calculations : Rows!SameKey(row, r)
      BY <2>2
    <3> QED
      BY <2>1, <3>1 DEF Rows!SameKey
  <2>3. \/ n \in DOMAIN results[u] /\ results'[u][n] = results[u][n]
        \/ results'[u][n] = new
    BY <1>2, WrittenResults, OtherResults
  <2> HIDE DEF new
  <2>4. CASE results'[u][n] = new
    BY <2>1, <2>4 DEF Rows!SameKey
  <2>5. CASE n \in DOMAIN results[u] /\ results'[u][n] = results[u][n]
    BY <2>2, <2>5 DEF StoredInv
  <2> QED
    BY <2>3, <2>4, <2>5
<1> QED
  BY <1>1, <1>2, StepEffects DEF Replaces, Begins

\* Every step keeps both.
LEMMA NextStoredInv ==
  ASSUME StagesInv, AloneInv, CalcInv, StoredInv, [Next]_vars
  PROVE  StoredInv'
<1>1. ASSUME NEW r, NEW q
      PROVE  Rows!SameKey(r, q)' <=> Rows!SameKey(r, q)
  BY DEF Rows!SameKey
<1> QED
  BY <1>1, NextStoredInvoices, NextResults DEF StoredInv, Rows!SameKey

\* Who has its invoice to itself has stored it, whatever another upload does.
LEMMA NextCurrentStored ==
  ASSUME StagesInv, AloneInv, AnswerInv, [Next]_vars, NEW u \in Uploads,
         current[file[u].cufe] = u, stage'[u] \in {"calculate", "responded"}
  PROVE  Store!Content(doc[u])' \in stored'
<1>1. CurrentInv(u)
  BY DEF AnswerInv
<1>2. stage[u] \in {"save", "calculate", "responded"}
  BY <1>1, StageMoves DEF CurrentInv, StagesInv, StageInv, InProgress, Ended
<1>3. doc'[u] = doc[u] /\ Store!Content(doc[u])' = Store!Content(doc[u])
  <2>1. doc'[u] = doc[u]
    BY <1>2, DocStays
  <2> QED
    BY <2>1 DEF Store!Content, Store!LineSet
<1>4. CASE stage[u] = "save"
  <2>1. SaveInvoice(u)
    BY <1>4
       DEF Next, Step, Error, Parse, ClassifyStep, ClassifyError, SaveInvoice, SaveError,
           CalculateStep, CalculateError, Crash, Terminated, vars, Goto, Classified,
           StagesInv, Functions
  <2> QED
    BY <1>3, <2>1 DEF SaveInvoice, Store!Save, Store!Replace
<1>5. CASE stage[u] \in {"calculate", "responded"}
  <2>1. Store!Content(doc[u]) \in stored
    BY <1>1, <1>5 DEF CurrentInv
  <2>2. ASSUME NEW v \in Uploads, Replaces(v)
        PROVE  Store!Content(doc[u]) \in stored'
    <3>1. v # u /\ file[v].cufe # file[u].cufe
      BY <1>1, <1>5, <2>2 DEF CurrentInv, Replaces, InProgress
    <3> QED
      BY <2>1, <2>2, <3>1, ContentCufe DEF Replaces, Store!Replace
  <2> QED
    BY <1>3, <2>1, <2>2, StepEffects DEF Writes, Begins
<1> QED
  BY <1>2, <1>4, <1>5

\* Nobody else writes a row of its invoice, and it writes each of its own once.
LEMMA NextCurrentResults ==
  ASSUME StagesInv, CalcInv, AnswerInv, [Next]_vars, NEW u \in Uploads,
         current[file[u].cufe] = u, NEW n \in DOMAIN results'[u]
  PROVE  results'[u][n] \in calculations'
<1>1. \A k \in DOMAIN results[u] : results[u][k] \in calculations
  BY DEF AnswerInv, CurrentInv
<1>2. CASE UNCHANGED <<calculations, results>>
  BY <1>1, <1>2
<1>3. ASSUME NEW v \in Uploads, Writes(v)
      PROVE  results'[u][n] \in calculations'
  <2> DEFINE new == Rows!RowAt(v, Rows!Pending(v))
  <2>1. calculations' = {r \in calculations : ~ Rows!SameKey(r, new)} \cup {new}
    BY <1>3 DEF Writes, Rows!Upsert
  <2>2. CASE v = u
    <3>1. \/ n \in DOMAIN results[u] /\ results'[u][n] = results[u][n]
          \/ results'[u][n] = new
      BY <1>3, <2>2, WrittenResults
    <3>2. \A k \in DOMAIN results[u] : ~ Rows!SameKey(results[u][k], new)
      BY <1>3, <2>2, WrittenRow
    <3> HIDE DEF new
    <3> QED
      BY <1>1, <2>1, <3>1, <3>2
  <2>3. CASE v # u
    <3>1. results'[u] = results[u]
      BY <1>3, <2>3, OtherResults
    <3>2. file[v].cufe # file[u].cufe
      BY <1>3, <2>3 DEF AnswerInv, CurrentInv, Writes, InProgress
    <3>3. new.invoice = file[v].cufe
      BY <1>3, WrittenRow
    <3>4. results[u][n].invoice = file[u].cufe
      <4>1. /\ Rows!UploadInv(u) /\ results[u] \in Seq(Rows!CalculationRow)
            /\ [w \in Uploads |-> Calculable(file[w], concept[w])][u]
                 \in UNION {{Calculable(f, c) :
                               c \in [DOMAIN f.lines -> Concepts \cup {Null}]} : f \in Files}
        BY DEF CalcInv, Rows!IInv, Rows!Shape
      <4>2. Rows!StepsOf([w \in Uploads |-> Calculable(file[w], concept[w])][u]) \in Nat
        BY <4>1, RowsAssumptions, Rows!InvoiceGroups
      <4>3. /\ n \in 1..Len(results[u]) /\ results[u][n] = Rows!RowAt(u, n)
            /\ n \in 1..Rows!StepsOf([w \in Uploads |-> Calculable(file[w], concept[w])][u])
            /\ Rows!Ready([w \in Uploads |-> Calculable(file[w], concept[w])][u])
        BY <3>1, <4>1, <4>2 DEF Rows!UploadInv
      <4>4. Rows!IsRow(Rows!RowAt(u, n), [w \in Uploads |-> Calculable(file[w], concept[w])][u],
                       n, city[u])
        BY <4>1, <4>3, RowsAssumptions, Rows!RowsAreRows
      <4> QED
        BY <4>3, <4>4 DEF Rows!IsRow, Calculable
    <3> HIDE DEF new
    <3> QED
      BY <1>1, <2>1, <3>1, <3>2, <3>3, <3>4 DEF Rows!SameKey
  <2> QED
    BY <2>2, <2>3
<1> QED
  BY <1>2, <1>3, StepEffects DEF Replaces, Begins

\* An upload that begins with its invoice to itself has everything still to do.
LEMMA BeginCurrent ==
  ASSUME StagesInv, AloneInv, Carried, CalcInv, AnswerInv, [Next]_vars,
         NEW v \in Uploads, Begins(v), NEW u \in Uploads
  PROVE  CurrentInv(u)'
<1>1. file' = file /\ file[u] \in File /\ file[v] \in File
  BY FileStays, FilesAssumption DEF Carried
<1>2. file[u].cufe \in Cufes /\ file[v].cufe \in Cufes
  BY <1>1 DEF File
<1>3. SUFFICES ASSUME current'[file[u].cufe] = u
               PROVE  /\ stage'[u] # "idle"
                      /\ \A w \in Uploads \ {u} :
                           file[w].cufe = file[u].cufe => stage'[w] \notin InProgress
                      /\ stage'[u] \in {"calculate", "responded"}
                           => Store!Content(doc[u])' \in stored'
                      /\ \A n \in DOMAIN results'[u] : results'[u][n] \in calculations'
  BY <1>1 DEF CurrentInv
<1>4. \A w \in Uploads \ {v} : stage'[w] = stage[w]
  BY DEF Begins, StagesInv, Functions
<1>5. CASE u = v
  <2>1. \A w \in Uploads : stage[w] \in InProgress => file[w].cufe # file[u].cufe
    BY <1>2, <1>3, <1>5, NobodyAssumption DEF Begins, AnswerInv
  <2>2. results'[u] = <<>>
    BY <1>5 DEF Begins, CalcInv, CalcStage, Rows!IInv, Rows!UploadInv
  <2> QED
    BY <1>4, <1>5, <2>1, <2>2 DEF Begins
<1>6. CASE u # v
  <2>1. file[u].cufe # file[v].cufe /\ current[file[u].cufe] = u
    BY <1>2, <1>3, <1>6, NobodyAssumption DEF Begins, AnswerInv
  <2>2. CurrentInv(u)
    BY DEF AnswerInv
  <2>3. stage'[u] = stage[u]
    BY <1>4, <1>6
  <2>4. stage'[u] \in {"calculate", "responded"} => Store!Content(doc[u])' \in stored'
    <3>1. doc'[u] = doc[u] => Store!Content(doc[u])' = Store!Content(doc[u])
      BY DEF Store!Content, Store!LineSet
    <3> QED
      BY <2>1, <2>2, <2>3, <3>1, DocStays DEF CurrentInv, Begins
  <2> QED
    BY <1>4, <2>1, <2>2, <2>3, <2>4 DEF CurrentInv, Begins
<1> QED
  BY <1>5, <1>6

\* Who has its invoice to itself keeps what it stored and calculated.
LEMMA NextCurrent ==
  ASSUME StagesInv, AloneInv, Carried, CalcInv, AnswerInv, [Next]_vars, NEW u \in Uploads
  PROVE  CurrentInv(u)'
<1>1. ASSUME NEW v \in Uploads, Begins(v)
      PROVE  CurrentInv(u)'
  BY <1>1, BeginCurrent
<1>2. ASSUME UNCHANGED current, \A v \in Uploads : ~ Begins(v)
      PROVE  CurrentInv(u)'
  <2>1. \A v \in Uploads : ~ Parse(v)
    BY <1>2, ParseBegins
  <2>2. \A v \in Uploads : stage'[v] \in InProgress => stage[v] \in InProgress
    <3>1. \A v \in Uploads : stage[v] = "idle" => stage'[v] = "idle"
      BY <2>1
         DEF Next, Step, Error, ClassifyStep, ClassifyError, SaveInvoice, SaveError,
             CalculateStep, CalculateError, Crash, Terminated, vars, Goto, Classified,
             StagesInv, Functions, InProgress
    <3> QED
      BY <3>1, StageMoves DEF StagesInv, StageInv, InProgress, Ended
  <2>3. stage[u] # "idle" => stage'[u] # "idle"
    BY StageMoves DEF StagesInv, StageInv, InProgress, Ended
  <2>4. file' = file
    BY FileStays
  <2>5. CurrentInv(u)
    BY DEF AnswerInv
  <2> QED
    BY <1>2, <2>2, <2>3, <2>4, <2>5, NextCurrentStored, NextCurrentResults DEF CurrentInv
<1> QED
  BY <1>1, <1>2, StepEffects DEF Replaces, Writes

\* At the start nobody has an invoice to itself.
LEMMA InitAnswer == Init /\ CalcInv => AnswerInv
<1> SUFFICES ASSUME Init, CalcInv PROVE AnswerInv
  OBVIOUS
<1>1. \A u \in Uploads : results[u] = <<>>
  BY DEF Init, Withholdings!Init
<1>2. \A u \in Uploads : current[file[u].cufe] # u
  BY FilesAssumption, NobodyAssumption DEF Init, File
<1> QED
  BY <1>1, <1>2 DEF Init, Store!Init, AnswerInv, StoredInv, CurrentInv

\* Who has an invoice to itself finds what it wrote.
LEMMA AnswerInvariance == Spec => []AnswerInv
<1>1. ASSUME StagesInv, AloneInv, Carried, CalcInv, AnswerInv, [Next]_vars
      PROVE  AnswerInv'
  <2>1. current' \in [Cufes -> Uploads \cup {Nobody}]
    BY <1>1, StepEffects DEF AnswerInv, Replaces, Writes, Begins
  <2> QED
    BY <1>1, <2>1, NextStoredInv, NextCurrent DEF AnswerInv
<1>2. StagesInv /\ AloneInv /\ Carried /\ CalcInv /\ AnswerInv /\ [Next]_vars => AnswerInv'
  BY <1>1
<1> QED
  BY <1>2, InitAnswer, Stages, AloneInvariance, CarriedInvariance, CalcInvariance, PTL DEF Spec

\* Whoever is answered while nobody else touched its invoice finds it stored as
\* it carried it, with each of the calculations the answer lists.
THEOREM ResponseCorrect == Spec => []ResponseIsStored
<1>1. ASSUME CalcInv, AnswerInv, NEW u \in Uploads, stage[u] = "responded",
             current[file[u].cufe] = u
      PROVE  /\ Store!Content(doc[u]) \in stored
             /\ ToSet(results[u]) \subseteq calculations
  <2>1. CurrentInv(u)
    BY <1>1 DEF AnswerInv
  <2> QED
    BY <1>1, <2>1 DEF CurrentInv, ToSet
<1>2. CalcInv /\ AnswerInv => ResponseIsStored
  BY <1>1 DEF ResponseIsStored
<1> QED
  BY <1>2, CalcInvariance, AnswerInvariance, PTL

\* An answered upload has calculated every tax for the concept of every line.
LEMMA AnsweredIsComplete ==
  ASSUME Carried, CalcInv, StoredInv, NEW u \in Uploads, stage[u] = "responded",
         NEW k \in DOMAIN file[u].lines, NEW tax \in Withholdings!TaxTypes
  PROVE  \E row \in calculations :
           /\ row.invoice = file[u].cufe /\ row.tax = tax
           /\ row.concept = Withholdings!ConceptColumn(concept[u][k])
<1>1. Rows!IInv /\ calc[u] = "calculated"
  BY DEF CalcInv, CalcStage
<1>2. PICK n \in DOMAIN results[u] :
        /\ results[u][n].invoice = file[u].cufe
        /\ results[u][n].concept = Rows!ConceptColumn(concept[u][k])
        /\ results[u][n].tax = tax
  <2>1. /\ Calculable(file[u], concept[u]).id = file[u].cufe
        /\ k \in DOMAIN Calculable(file[u], concept[u]).lines
        /\ Calculable(file[u], concept[u]).lines[k].concept = concept[u][k]
    BY DEF Calculable
  <2>2. tax \in Rows!TaxTypes
    BY DEF Rows!TaxTypes, Withholdings!TaxTypes
  <2> QED
    BY <1>1, <2>1, <2>2, RowsAssumptions, Rows!CalculatedIsComplete
<1>3. PICK row \in calculations : Rows!SameKey(row, results[u][n])
  BY DEF StoredInv
<1> QED
  BY <1>2, <1>3 DEF Rows!SameKey, Rows!ConceptColumn, Withholdings!ConceptColumn

\* A stored invoice without all of its calculations has been given up or is in
\* work, whichever of its uploads stored it and whoever has calculated since.
THEOREM CompleteCorrect == Spec => []IncompleteOnlyAfterError
<1>1. ASSUME Carried, CalcInv, StoredInv, NEW s \in stored,
             \A u \in Uploads : (file[u].cufe = s.cufe /\ stage[u] # "idle")
                                   => stage[u] = "responded",
             NEW l \in s.lines, NEW tax \in Withholdings!TaxTypes
      PROVE  \E row \in calculations :
               /\ row.invoice = s.cufe /\ row.tax = tax
               /\ row.concept = Withholdings!ConceptColumn(l.body.concept)
  <2>1. PICK u \in Uploads : /\ s = Store!Content(doc[u])
                             /\ stage[u] \in {"calculate", "responded", "failed"}
    BY <1>1 DEF StoredInv
  <2>2. s.cufe = file[u].cufe /\ stage[u] = "responded"
    BY <1>1, <2>1, ContentCufe
  <2>3. s.lines = Store!LineSet(doc[u])
    BY <2>1 DEF Store!Content
  <2>4. PICK k \in DOMAIN doc[u].lines : l = doc[u].lines[k]
    BY <1>1, <2>3 DEF Store!LineSet
  <2>5. k \in DOMAIN file[u].lines
    BY <2>4 DEF doc, StoredAs
  <2>6. l.body.concept = concept[u][k]
    <3>1. l.body = [sku |-> file[u].lines[k].sku, desc |-> file[u].lines[k].desc,
                    concept |-> concept[u][k],
                    total |-> Centavos(file[u].lines[k].total),
                    iva |-> Centavos(file[u].lines[k].iva)]
      BY <2>4, <2>5 DEF doc, StoredAs
    <3> QED
      BY <3>1
  <2> QED
    BY <1>1, <2>2, <2>5, <2>6, AnsweredIsComplete
<1>2. Carried /\ CalcInv /\ AnswerInv => IncompleteOnlyAfterError
  BY <1>1 DEF IncompleteOnlyAfterError, AnswerInv
<1> QED
  BY <1>2, CarriedInvariance, CalcInvariance, AnswerInvariance, PTL

\* An answered upload has a result for the concept of every line and every tax,
\* whose base is near what the lines add up to.
LEMMA AnsweredRow ==
  ASSUME CalcInv, NEW u \in Uploads, stage[u] = "responded",
         NEW k \in DOMAIN file[u].lines, NEW tax \in Rows!TaxTypes
  PROVE  \E n \in DOMAIN results[u] :
           /\ results[u][n].invoice = file[u].cufe
           /\ results[u][n].concept = Rows!ConceptColumn(concept[u][k])
           /\ results[u][n].tax = tax
<1>1. Rows!IInv /\ calc[u] = "calculated"
  BY DEF CalcInv, CalcStage
<1>2. /\ Calculable(file[u], concept[u]).id = file[u].cufe
      /\ k \in DOMAIN Calculable(file[u], concept[u]).lines
      /\ Calculable(file[u], concept[u]).lines[k].concept = concept[u][k]
  BY DEF Calculable
<1> QED
  BY <1>1, <1>2, RowsAssumptions, Rows!CalculatedIsComplete

\* Sums, too, are those of Rows.
LEMMA SameSums ==
  /\ \A f, S : Withholdings!SumFunctionOnSet(f, S) = Rows!SumFunctionOnSet(f, S)
  /\ \A S : Cardinality(S) = Rows!Cardinality(S)
  /\ \A x, d : Withholdings!Round(x, d) = Rows!Round(x, d)
  /\ \A c : Withholdings!ConceptColumn(c) = Rows!ConceptColumn(c)
<1>1. \A f, S : Withholdings!SumFunctionOnSet(f, S) = Rows!SumFunctionOnSet(f, S)
  BY DEF Withholdings!SumFunctionOnSet, Rows!SumFunctionOnSet,
         Withholdings!FoldFunctionOnSet, Rows!FoldFunctionOnSet,
         Withholdings!MapThenFoldSet, Rows!MapThenFoldSet
<1>2. \A S : Cardinality(S) = Rows!Cardinality(S)
  BY DEF Cardinality, Rows!Cardinality
<1>3. /\ \A x, d : Withholdings!Round(x, d) = Rows!Round(x, d)
      /\ \A c : Withholdings!ConceptColumn(c) = Rows!ConceptColumn(c)
  BY DEF Withholdings!Round, Rows!Round, Withholdings!ConceptColumn, Rows!ConceptColumn
<1> QED
  BY <1>1, <1>2, <1>3

\* The lines of the upload as its calculation and as the database has them.
LEMMA SameLines ==
  ASSUME NEW u \in Uploads, NEW row
  PROVE  /\ Rows!LinesUnder(Calculable(file[u], concept[u]), row.concept) =
              {i \in DOMAIN file[u].lines :
                 Withholdings!ConceptColumn(concept[u][i]) = row.concept}
         /\ Rows!RoundedFor(Calculable(file[u], concept[u]), row.tax) =
              [i \in DOMAIN file[u].lines |->
                 IF row.tax = "RETEIVA" THEN doc[u].lines[i].body.iva
                                        ELSE doc[u].lines[i].body.total]
<1> DEFINE inv == Calculable(file[u], concept[u])
<1>1. /\ DOMAIN inv.lines = DOMAIN file[u].lines
      /\ \A i \in DOMAIN file[u].lines :
           /\ inv.lines[i].concept = concept[u][i]
           /\ inv.lines[i].total = file[u].lines[i].total
           /\ inv.lines[i].iva = file[u].lines[i].iva
  BY DEF Calculable
<1>2. ASSUME NEW i \in DOMAIN file[u].lines
      PROVE  /\ doc[u].lines[i].body.total = Rows!Round(inv.lines[i].total, Fraction)
             /\ doc[u].lines[i].body.iva = Rows!Round(inv.lines[i].iva, Fraction)
  <2>1. doc[u].lines[i].body =
          [sku |-> file[u].lines[i].sku, desc |-> file[u].lines[i].desc,
           concept |-> concept[u][i],
           total |-> Centavos(file[u].lines[i].total),
           iva |-> Centavos(file[u].lines[i].iva)]
    BY DEF doc, StoredAs
  <2> QED
    BY <1>1, <2>1, SameSums DEF Centavos
<1> HIDE DEF inv
<1>3. Rows!LinesUnder(inv, row.concept) =
        {i \in DOMAIN file[u].lines :
           Withholdings!ConceptColumn(concept[u][i]) = row.concept}
  BY <1>1, SameSums DEF Rows!LinesUnder
<1>4. Rows!RoundedFor(inv, row.tax) =
        [i \in DOMAIN file[u].lines |->
           IF row.tax = "RETEIVA" THEN doc[u].lines[i].body.iva
                                  ELSE doc[u].lines[i].body.total]
  <2> DEFINE rounded(i) == Rows!Round(Rows!Amount(row.tax, inv.lines[i]), Fraction)
             stored2(i) == IF row.tax = "RETEIVA" THEN doc[u].lines[i].body.iva
                                                  ELSE doc[u].lines[i].body.total
  <2>1. \A i \in DOMAIN file[u].lines : rounded(i) = stored2(i)
    BY <1>2 DEF Rows!Amount
  <2>2. Rows!RoundedFor(inv, row.tax) = [i \in DOMAIN file[u].lines |-> rounded(i)]
    BY <1>1 DEF Rows!RoundedFor
  <2> HIDE DEF rounded, stored2
  <2>3. Rows!RoundedFor(inv, row.tax) = [i \in DOMAIN file[u].lines |-> stored2(i)]
    BY <2>1, <2>2
  <2> QED
    BY <2>3 DEF stored2
<1> QED
  BY <1>3, <1>4 DEF inv

\* The bases in the table and the amounts of the stored lines, which the
\* database has rounded one by one, differ by half a centavo each at most.
THEOREM BasesCorrect == Spec => []BaseIsNearStoredLines
<1>1. ASSUME CalcInv, AnswerInv, NEW u \in Uploads, stage[u] = "responded",
             current[file[u].cufe] = u, NEW row \in calculations,
             row.invoice = file[u].cufe, row.tariff # 0,
             NEW k \in DOMAIN file[u].lines,
             Withholdings!ConceptColumn(concept[u][k]) = row.concept
      PROVE  Rows!BaseIsNear(Calculable(file[u], concept[u]), row)
  <2>1. row \in Rows!CalculationRow
    BY <1>1 DEF CalcInv, Rows!IInv, Rows!RowsInv
  <2>2. PICK n \in DOMAIN results[u] :
          /\ results[u][n].invoice = file[u].cufe
          /\ results[u][n].concept = Rows!ConceptColumn(concept[u][k])
          /\ results[u][n].tax = row.tax
    BY <1>1, <2>1, AnsweredRow DEF Rows!CalculationRow
  <2>3. results[u][n] \in calculations
    BY <1>1 DEF AnswerInv, CurrentInv
  <2>4. Rows!SameKey(row, results[u][n])
    BY <1>1, <2>2, SameSums DEF Rows!SameKey
  <2>5. row = results[u][n]
    BY <1>1, <2>3, <2>4 DEF CalcInv, Rows!IInv, Rows!RowsInv
  <2>6. Rows!IInv /\ results[u][n].tariff # 0
    BY <1>1, <2>5 DEF CalcInv
  <2>7. Rows!BaseIsNear(Calculable(file[u], concept[u]), results[u][n])
    BY <2>6, RowsAssumptions, Rows!BasesAreNear
  <2> QED
    BY <2>5, <2>7
<1>2. ASSUME NEW u \in Uploads, NEW row,
             Rows!BaseIsNear(Calculable(file[u], concept[u]), row)
      PROVE  LET lines == {i \in DOMAIN file[u].lines :
                             Withholdings!ConceptColumn(concept[u][i]) = row.concept}
                 amount == [i \in DOMAIN file[u].lines |->
                              IF row.tax = "RETEIVA" THEN doc[u].lines[i].body.iva
                                                     ELSE doc[u].lines[i].body.total]
                 sum == Withholdings!SumFunctionOnSet(amount, lines)
             IN  2 * (row.base - sum) \in -(Cardinality(lines) + 1)..(Cardinality(lines) + 1)
  <2> DEFINE under  == Rows!LinesUnder(Calculable(file[u], concept[u]), row.concept)
             amount == Rows!RoundedFor(Calculable(file[u], concept[u]), row.tax)
  <2>1. 2 * (row.base - Withholdings!SumFunctionOnSet(amount, under))
          \in -(Cardinality(under) + 1)..(Cardinality(under) + 1)
    BY <1>2, SameSums DEF Rows!BaseIsNear
  <2>2. /\ under = {i \in DOMAIN file[u].lines :
                      Withholdings!ConceptColumn(concept[u][i]) = row.concept}
        /\ amount = [i \in DOMAIN file[u].lines |->
                       IF row.tax = "RETEIVA" THEN doc[u].lines[i].body.iva
                                              ELSE doc[u].lines[i].body.total]
    BY SameLines
  <2> HIDE DEF under, amount
  <2> QED
    BY <2>1, <2>2
<1>3. CalcInv /\ AnswerInv => BaseIsNearStoredLines
  BY <1>1, <1>2 DEF BaseIsNearStoredLines
<1> QED
  BY <1>3, CalcInvariance, AnswerInvariance, PTL

-----------------------------------------------------------------------------
(* Types.                                                                  *)

\* Which upload is where, of those that the store knows of, and the lines known.
StatusInv ==
  /\ status \in [Uploads -> {"pending", "saved", "failed"}]
  /\ known \in [Uploads -> SUBSET Nat]
  /\ \A u \in Uploads : stage[u] \in {"calculate", "responded"} => status[u] = "saved"

\* Only a save that commits leads on to the calculation.
LEMMA NextStatus == Carried /\ StagesInv /\ StatusInv /\ [Next]_vars => StatusInv'
<1> SUFFICES ASSUME Carried, StagesInv, StatusInv, [Next]_vars
             PROVE  StatusInv'
  OBVIOUS
<1>1. stage = [u \in Uploads |-> stage[u]]
  BY DEF StagesInv, Functions
<1>2. ASSUME NEW u \in Uploads, Parse(u)
      PROVE  StatusInv'
  <2>1. file[u] \in File
    BY FilesAssumption DEF Carried
  <2>2. DOMAIN file[u].lines \subseteq Nat
    BY <2>1 DEF File
  <2>3. known' \in [Uploads -> SUBSET Nat]
    BY <1>2, <2>2 DEF Parse, StatusInv
  <2>4. stage' = [stage EXCEPT ![u] = stage'[u]] /\ stage'[u] \in {"classify", "save", "failed"}
    BY <1>1, <1>2 DEF Parse, Classified, Goto
  <2> QED
    BY <1>1, <1>2, <2>3, <2>4 DEF Parse, StatusInv, storeVars
<1>3. ASSUME NEW u \in Uploads, ClassifyStep(u) \/ ClassifyError(u)
      PROVE  StatusInv'
  <2>1. stage' = [stage EXCEPT ![u] = stage'[u]] /\ stage'[u] \in {"classify", "save", "failed"}
    BY <1>1, <1>3 DEF ClassifyStep, ClassifyError, Classified, Goto
  <2>2. UNCHANGED <<status, known>>
    BY <1>3 DEF ClassifyStep, ClassifyError, storeVars
  <2> QED
    BY <1>1, <2>1, <2>2 DEF StatusInv
<1>4. ASSUME NEW u \in Uploads, SaveInvoice(u) \/ SaveError(u)
      PROVE  StatusInv'
  BY <1>1, <1>4
     DEF SaveInvoice, SaveError, Store!Save, Store!SaveUnacknowledged, Goto, StatusInv
<1>5. ASSUME NEW u \in Uploads, CalculateStep(u) \/ CalculateError(u)
      PROVE  StatusInv'
  BY <1>1, <1>5 DEF CalculateStep, CalculateError, storeVars, Goto, StatusInv
<1>6. CASE Crash
  BY <1>6 DEF Crash, storeVars, StatusInv
<1>7. CASE UNCHANGED vars
  BY <1>7 DEF vars, StatusInv
<1> QED
  BY <1>2, <1>3, <1>4, <1>5, <1>6, <1>7 DEF Next, Step, Error, Terminated

\* Status and stage agree.
LEMMA StatusInvariance == Spec => []StatusInv
<1>1. Init => StatusInv
  BY DEF Init, Store!Init, StatusInv
<1> QED
  BY <1>1, NextStatus, Stages, CarriedInvariance, PTL DEF Spec

\* What a save stores, amounts rounded to centavos, is a row of each table.
LEMMA ContentType ==
  ASSUME Carried, NEW u \in Uploads
  PROVE  Store!Content(doc[u]) \in Store!Stored
<1>1. file[u] \in File /\ concept[u] \in [DOMAIN file[u].lines -> Concepts \cup {Null}]
  BY FilesAssumption DEF Carried
<1>2. doc[u] = StoredAs(file[u], concept[u])
  BY DEF doc
<1>3. ASSUME NEW k \in DOMAIN file[u].lines
      PROVE  doc[u].lines[k] \in Store!DocLine
  <2>1. file[u].lines[k] \in FileLine
    BY <1>1 DEF File
  <2>2. \A amount \in Int : Centavos(amount) \in Int
    BY RowsAssumptions, Rows!RoundType, FractionAssumption
       DEF Centavos, Withholdings!Round, Rows!Round
  <2>3. Centavos(file[u].lines[k].total) \in Int /\ Centavos(file[u].lines[k].iva) \in Int
    BY <2>1, <2>2 DEF FileLine
  <2>4. doc[u].lines[k] =
          [number |-> file[u].lines[k].number,
           body   |-> [sku |-> file[u].lines[k].sku, desc |-> file[u].lines[k].desc,
                       concept |-> concept[u][k],
                       total |-> Centavos(file[u].lines[k].total),
                       iva |-> Centavos(file[u].lines[k].iva)]]
    BY <1>2 DEF StoredAs
  <2> QED
    BY <1>1, <2>1, <2>3, <2>4 DEF Store!DocLine, Bodies, FileLine
<1>4. DOMAIN doc[u].lines = DOMAIN file[u].lines /\ doc[u].cufe = file[u].cufe
      /\ doc[u].head = [issuer |-> file[u].issuer, date |-> file[u].date,
                        city |-> file[u].city]
  BY <1>2 DEF StoredAs
<1>5. Store!LineSet(doc[u]) \subseteq Store!DocLine
  BY <1>3, <1>4 DEF Store!LineSet
<1> QED
  BY <1>1, <1>4, <1>5 DEF Store!Content, Store!Stored, Heads, File

\* Every state of the pipeline is well typed: what is stored is a version of an
\* invoice that an upload carries, and who calculates has saved.
THEOREM TypeCorrect == Spec => []TypeOK
<1>1. Alone!TypeOK => Classification!TypeOK
  BY DEF Alone!TypeOK, Classification!TypeOK, Alone!Row, Classification!Row, Alone!Working,
     Classification!Working, Alone!Settled, Classification!Settled, Alone!Answer,
     Classification!Answer
<1>2. ASSUME Carried, CalcInv
      PROVE  Withholdings!TypeOK
  <2>1. Rows!IInv
    BY <1>2 DEF CalcInv
  <2>2. \A u \in Uploads : calc[u] = "persist" =>
          Rows!Pending(u) =< Rows!StepsOf([v \in Uploads |-> Calculable(file[v], concept[v])][u])
    BY <2>1, RowsAssumptions, Rows!PendingRow
  <2>3. Rows!TypeOK
    BY <2>1, <2>2 DEF Rows!IInv, Rows!Shape, Rows!RowsInv, Rows!TypeOK
  <2> QED
    BY <2>3, SameTypes
<1>3. ASSUME Carried, AnswerInv
      PROVE  /\ stored \subseteq Store!Stored
             /\ \A s \in stored : \E u \in Uploads : s = Store!Content(doc[u])
  BY <1>3, ContentType DEF AnswerInv, StoredInv
<1>4. StagesInv => stage \in [Uploads -> {"idle"} \cup InProgress \cup Ended]
  BY DEF StagesInv, Functions, StageInv
<1>5. AloneInv /\ Carried /\ CalcInv /\ AnswerInv /\ StatusInv /\ StagesInv => TypeOK
  BY <1>1, <1>2, <1>3, <1>4
     DEF TypeOK, AloneInv, Alone!TypeInv, Carried, AnswerInv, StatusInv
<1> QED
  BY <1>5, AloneInvariance, CarriedInvariance, CalcInvariance, AnswerInvariance,
     StatusInvariance, Stages, PTL

=============================================================================
