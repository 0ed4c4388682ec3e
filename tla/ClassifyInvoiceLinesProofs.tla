-------------------- MODULE ClassifyInvoiceLinesProofs ----------------------
(***************************************************************************)
(* Proofs about ClassifyInvoiceLines, for any uploads, invoices, catalog   *)
(* and replies.  First its types, then the inductive invariant IInv.       *)
(***************************************************************************)
EXTENDS ClassifyInvoiceLines, SequenceTheorems, TLAPS

-----------------------------------------------------------------------------
(* Types.                                                                  *)

\* The call an upload makes for a line is a call about a line it has.
LEMMA StationType ==
  ASSUME TypeOK, NEW u \in Uploads, NEW i \in Nat \ {0}
  PROVE  /\ Station(u, i) \in {"classified", "byDescription", "bySKU"}
         /\ Station(u, i) \in Working => i \in 1..Len(invoice[u].lines)
<1>1. invoice[u] \in Invoice
  BY InvoicesAssumption DEF TypeOK
<1>2. Len(invoice[u].lines) \in Nat
  BY <1>1 DEF Invoice
<1> QED
  BY <1>2 DEF Station, Working

\* Moving on from a line, with a concept or without, keeps the types.
LEMMA AdvanceType ==
  ASSUME TypeOK, NEW u \in Uploads, pc[u] \in Working,
         NEW c \in Catalog \cup {Null}, Advance(u, c), UNCHANGED invoice
  PROVE  /\ pos' \in [Uploads -> Nat \ {0}]
         /\ concept' \in [Uploads -> Seq(Catalog \cup {Null})]
         /\ \A v \in Uploads : Len(concept'[v]) = Len(invoice'[v].lines)
         /\ pc' \in [Uploads -> {"idle"} \cup Working \cup Settled]
         /\ \A v \in Uploads :
               pc'[v] \in Working => pos'[v] \in 1..Len(invoice'[v].lines)
<1> DEFINE new == [concept[u] EXCEPT ![pos[u]] = c]
<1>1. pos[u] \in Nat \ {0} /\ pos[u] \in 1..Len(concept[u])
  BY DEF TypeOK
<1>2. concept[u] \in Seq(Catalog \cup {Null})
  BY DEF TypeOK
<1>3. new \in Seq(Catalog \cup {Null}) /\ Len(new) = Len(concept[u])
  BY <1>1, <1>2, ExceptSeq
<1>4. concept' = [concept EXCEPT ![u] = new]
  BY DEF Advance
<1>5. /\ concept' \in [Uploads -> Seq(Catalog \cup {Null})]
      /\ \A v \in Uploads : Len(concept'[v]) = Len(invoice'[v].lines)
  <2> HIDE DEF new
  <2> QED  BY <1>3, <1>4 DEF TypeOK
<1>6. pos' \in [Uploads -> Nat \ {0}]
  BY DEF TypeOK, Advance
<1>7. pos[u] + 1 \in Nat \ {0}
  BY <1>1
<1>8. /\ Station(u, pos[u] + 1) \in {"classified", "byDescription", "bySKU"}
      /\ Station(u, pos[u] + 1) \in Working
            => pos[u] + 1 \in 1..Len(invoice[u].lines)
  BY <1>7, StationType
<1>9. pc' = [pc EXCEPT ![u] = Station(u, pos[u] + 1)]
  BY DEF Advance, Goto
<1>10. pc' \in [Uploads -> {"idle"} \cup Working \cup Settled]
  BY <1>8, <1>9 DEF TypeOK, Working, Settled
<1>11. \A v \in Uploads :
          pc'[v] \in Working => pos'[v] \in 1..Len(invoice'[v].lines)
  BY <1>8, <1>9 DEF TypeOK, Advance
<1> QED
  BY <1>5, <1>6, <1>10, <1>11

\* While an upload works, it is at one of its lines.
LEMMA CurrentType ==
  ASSUME TypeOK, NEW u \in Uploads, pc[u] \in Working
  PROVE  Current(u) \in Line /\ invoice[u].issuer \in Issuers
<1>1. invoice[u] \in Invoice /\ pos[u] \in 1..Len(invoice[u].lines)
  BY InvoicesAssumption DEF TypeOK
<1> QED
  BY <1>1, ElementOfSeq DEF Current, Invoice

\* What Execute makes of an answer is a row of the table.
LEMMA NewEntryType ==
  ASSUME TypeOK, NEW u \in Uploads, pc[u] \in Working, answer[u] \in Catalog
  PROVE  CurrentKey(u) \in Keys /\ NewEntry(u) \in Row
<1>1. Current(u) \in Line /\ invoice[u].issuer \in Issuers
  BY CurrentType
<1>2. CurrentKey(u) \in Keys
  BY <1>1, NormalAssumption DEF CurrentKey, normalizeDescription, Line
<1> QED
  BY <1>1, <1>2 DEF NewEntry, Row, Line, TypeOK

\* An entry, new or changed by the upsert, is a row of the table.
LEMMA SaveType ==
  ASSUME TypeOK, NEW u \in Uploads, Save(u), answer[u] \in Catalog
  PROVE  tx' \in [Uploads -> SUBSET Row]
<1>3. NewEntry(u) \in Row
  BY NewEntryType DEF Save, Working
<1> DEFINE conflict == BySKU(invoice[u].issuer, Current(u).sku)
           changed  == {[r EXCEPT !.concept = answer[u]] : r \in conflict}
<1>4. conflict \subseteq Row
  BY DEF BySKU, TypeOK
<1>5. changed \subseteq Row
  BY <1>4 DEF Row
<1>6. tx' = [tx EXCEPT ![u] = IF conflict = {} THEN {NewEntry(u)} ELSE changed]
  BY DEF Save
<1> HIDE DEF conflict, changed
<1> QED
  BY <1>3, <1>5, <1>6 DEF TypeOK

\* What TypeOK needs of the calls before: Save has a concept of the catalog to
\* save, and an upload begins with its first line.
TypeInv ==
  /\ TypeOK
  /\ \A u \in Uploads : pc[u] \in {"save", "commit"} => answer[u] \in Catalog
  /\ \A u \in Uploads : pc[u] = "idle" => pos[u] = 1

\* No upload has begun: it is at its first line and has no concept yet.
LEMMA InitType == Init => TypeInv
<1> SUFFICES ASSUME Init PROVE TypeInv
  OBVIOUS
<1>1. \A u \in Uploads : Len(invoice[u].lines) \in Nat
  <2> SUFFICES ASSUME NEW u \in Uploads PROVE Len(invoice[u].lines) \in Nat
    OBVIOUS
  <2>1. invoice[u] \in Invoice
    BY InvoicesAssumption DEF Init
  <2> QED
    BY <2>1 DEF Invoice
<1>2. \A u \in Uploads : /\ concept[u] \in Seq(Catalog \cup {Null})
                         /\ Len(concept[u]) = Len(invoice[u].lines)
  <2> SUFFICES ASSUME NEW u \in Uploads
               PROVE  /\ concept[u] \in Seq(Catalog \cup {Null})
                      /\ Len(concept[u]) = Len(invoice[u].lines)
    OBVIOUS
  <2>1. concept[u] = [i \in 1..Len(invoice[u].lines) |-> Null]
    BY DEF Init
  <2> QED
    BY <1>1, <2>1, IsASeq
<1>3. concept \in [Uploads -> Seq(Catalog \cup {Null})]
  <2>1. concept = [u \in Uploads |-> concept[u]]
    BY DEF Init
  <2> QED
    BY <1>2, <2>1
<1> QED
  BY <1>2, <1>3 DEF Init, TypeOK, TypeInv, Working

\* Every step, each handler and each failure, keeps the state well typed.
LEMMA NextType == TypeInv /\ [Next]_vars => TypeInv'
<1> SUFFICES ASSUME TypeInv, [Next]_vars PROVE TypeInv'
  OBVIOUS
<1>0. TypeOK
  BY DEF TypeInv
<1> USE DEF TypeInv, Goto, Working, Settled
<1>1. ASSUME NEW u \in Uploads, Begin(u) PROVE TypeInv'
  <2>1. /\ Station(u, 1) \in {"classified", "byDescription", "bySKU"}
        /\ Station(u, 1) \in Working => 1 \in 1..Len(invoice[u].lines)
    BY <1>0, StationType
  <2> QED
    BY <1>1, <2>1 DEF Begin, TypeOK
<1>2. ASSUME NEW u \in Uploads, FindByIssuerAndSKU(u) PROVE TypeInv'
  <2>1. CASE \E r \in rows : Advance(u, r.concept)
    <3> PICK r \in rows : Advance(u, r.concept)
      BY <2>1
    <3>1. r.concept \in Catalog \cup {Null}
      BY <1>0 DEF TypeOK, Row
    <3> QED
      BY <1>0, <1>2, <3>1, AdvanceType, StationType
         DEF FindByIssuerAndSKU, Advance, TypeOK
  <2>2. CASE Goto(u, "byDescription") /\ UNCHANGED <<pos, concept>>
    BY <1>2, <2>2 DEF FindByIssuerAndSKU, TypeOK
  <2> QED
    BY <1>2, <2>1, <2>2 DEF FindByIssuerAndSKU, BySKU, IsFirst
<1>3. ASSUME NEW u \in Uploads, FindByDescription(u) PROVE TypeInv'
  <2>1. CASE \E r \in rows : Advance(u, r.concept)
    <3> PICK r \in rows : Advance(u, r.concept)
      BY <2>1
    <3>1. r.concept \in Catalog \cup {Null}
      BY <1>0 DEF TypeOK, Row
    <3> QED
      BY <1>0, <1>3, <3>1, AdvanceType, StationType
         DEF FindByDescription, Advance, TypeOK
  <2>2. CASE Goto(u, "llm") /\ UNCHANGED <<pos, concept>>
    BY <1>3, <2>2 DEF FindByDescription, TypeOK
  <2> QED
    BY <1>3, <2>1, <2>2 DEF FindByDescription, ByDescription, IsFirst
<1>4. ASSUME NEW u \in Uploads, Classify(u) PROVE TypeInv'
  <2>1. CASE UNCHANGED <<answer, answers>> /\ Advance(u, Null)
    BY <1>0, <1>4, <2>1, AdvanceType, StationType DEF Classify, Advance, TypeOK
  <2>2. ASSUME NEW reply \in Catalog,
               answer' = [answer EXCEPT ![u] = reply],
               answers' = answers \cup
                 {[issuer |-> invoice[u].issuer, sku |-> Current(u).sku,
                   desc |-> CurrentKey(u), concept |-> reply]},
               Goto(u, "save"), UNCHANGED <<pos, concept>>
        PROVE  TypeInv'
    <3>1. Current(u) \in Line /\ invoice[u].issuer \in Issuers
      BY <1>0, <1>4, CurrentType DEF Classify
    <3>2. CurrentKey(u) \in Keys
      BY <3>1, NormalAssumption DEF CurrentKey, normalizeDescription, Line
    <3>3. answers' \subseteq Answer
      BY <1>0, <2>2, <3>1, <3>2 DEF TypeOK, Answer, Line
    <3> QED
      BY <1>4, <2>2, <3>3 DEF Classify, TypeOK
  <2> QED
    BY <1>4, <2>1, <2>2 DEF Classify
<1>5. ASSUME NEW u \in Uploads, Save(u) PROVE TypeInv'
  <2>1. tx' \in [Uploads -> SUBSET Row]
    BY <1>0, <1>5, SaveType DEF Save
  <2> QED
    BY <1>5, <2>1 DEF Save, TypeOK
<1>6. ASSUME NEW u \in Uploads, Commit(u) PROVE TypeInv'
  <2>1. rows' \subseteq Row
    BY <1>0, <1>6 DEF Commit, Publish, TypeOK
  <2>2. answer[u] \in Catalog \cup {Null}
    BY <1>0 DEF TypeOK
  <2> QED
    BY <1>0, <1>6, <2>1, <2>2, AdvanceType, StationType
       DEF Commit, Advance, TypeOK
<1>7. ASSUME NEW u \in Uploads, RepositoryError(u) PROVE TypeInv'
  BY <1>7 DEF RepositoryError, TypeOK
<1>8. ASSUME NEW u \in Uploads, CommitUnacknowledged(u) PROVE TypeInv'
  <2>1. rows' \subseteq Row
    BY <1>0, <1>8 DEF CommitUnacknowledged, Publish, TypeOK
  <2> QED
    BY <1>8, <2>1 DEF CommitUnacknowledged, TypeOK
<1>9. CASE Crash
  BY <1>9 DEF Crash, TypeOK
<1>10. CASE UNCHANGED vars
  BY <1>10 DEF vars, TypeOK
<1> QED
  BY <1>1, <1>2, <1>3, <1>4, <1>5, <1>6, <1>7, <1>8, <1>9, <1>10
     DEF Next, Step, Terminated

\* In every behaviour, of any number of uploads, the state is well typed: a
\* line's concept is one of the catalog, and no call is made past the last line.
THEOREM TypeCorrect == Spec => []TypeOK
<1>1. Spec => []TypeInv
  BY InitType, NextType, PTL DEF Spec
<1>2. TypeInv => TypeOK
  BY DEF TypeInv
<1> QED
  BY <1>1, <1>2, PTL

-----------------------------------------------------------------------------
(* The table: ids, keys and the unique index.                              *)

\* Save writes one row, keyed for the current line: either a new one, when
\* nothing is committed under its issuer and SKU, or a version of that row.
LEMMA SaveWrites ==
  ASSUME TypeInv, TableInv, NEW u \in Uploads, Save(u)
  PROVE  \E t \in Row :
           /\ tx' = [tx EXCEPT ![u] = {t}]
           /\ t.concept = answer[u]
           /\ t.sku = Current(u).sku
           /\ t.sku # Null => t.issuer = invoice[u].issuer
           /\ t.sku = Null => t.desc = CurrentKey(u)
           /\ \/ t.id = nextId /\ BySKU(invoice[u].issuer, Current(u).sku) = {}
              \/ \E r \in BySKU(invoice[u].issuer, Current(u).sku) :
                    t.id = r.id /\ SameKeys(t, r)
<1> DEFINE conflict == BySKU(invoice[u].issuer, Current(u).sku)
           changed  == {[r EXCEPT !.concept = answer[u]] : r \in conflict}
<1>1. tx' = [tx EXCEPT ![u] = IF conflict = {} THEN {NewEntry(u)} ELSE changed]
  BY DEF Save
<1>2. answer[u] \in Catalog
  BY DEF TypeInv, Save
<1>3. CASE conflict = {}
  <2>1. NewEntry(u) \in Row
    BY NewEntryType DEF TypeInv, Save, Working
  <2> QED
    BY <1>1, <1>3, <2>1 DEF NewEntry
<1>4. CASE conflict # {}
  <2>1. PICK r \in conflict : TRUE
    BY <1>4
  <2>2. conflict = {r}
    BY <2>1 DEF BySKU, TableInv, CommittedOnce, SKUHasOneRow, Versions
  <2> DEFINE t == [r EXCEPT !.concept = answer[u]]
  <2>3. r \in Row
    BY <2>1 DEF BySKU, TypeInv, TypeOK
  <2>4. /\ t \in Row /\ t.concept = answer[u]
        /\ t.id = r.id /\ t.issuer = r.issuer /\ t.sku = r.sku /\ t.desc = r.desc
    BY <1>2, <2>3 DEF Row
  <2>5. changed = {t}
    BY <2>2
  <2>6. /\ r.sku # Null /\ r.sku = Current(u).sku /\ r.issuer = invoice[u].issuer
    BY <2>1 DEF BySKU
  <2>7. tx' = [tx EXCEPT ![u] = {t}]
    BY <1>1, <1>4, <2>5
  <2>8. SameKeys(t, r)
    BY <2>4 DEF SameKeys
  <2> HIDE DEF t
  <2> QED
    BY <2>1, <2>4, <2>6, <2>7, <2>8
<1> QED
  BY <1>3, <1>4

\* Committing, rolling back and crashing bring no new version of any row.
LEMMA VersionsShrink ==
  ASSUME TypeInv, NEW u \in Uploads,
         tx' = [tx EXCEPT ![u] = {}], Publish(u) \/ UNCHANGED rows
  PROVE  Versions' \subseteq Versions
BY DEF Versions, Publish, TypeInv, TypeOK

\* A COMMIT replaces a version of a row by a later one of the same row.
LEMMA CommitKeepsTable ==
  ASSUME TypeInv, TableInv, NEW u \in Uploads, Publish(u),
         tx' = [tx EXCEPT ![u] = {}], UNCHANGED nextId
  PROVE  TableInv'
<1>1. Versions' \subseteq Versions
  BY VersionsShrink
<1>2. CommittedOnce'
  BY DEF CommittedOnce, TableInv, WritesOneRow, Publish
<1>3. WritesOneRow'
  BY DEF WritesOneRow, TableInv, TypeInv, TypeOK
<1> QED
  BY <1>1, <1>2, <1>3
     DEF TableInv, IdsAreFresh, VersionsAgree, SKUHasOneRow, SameKeys

\* Every step keeps ids fresh, rows apart and one row to an issuer and SKU; only
\* the upsert, under the lock of its unique key, adds a version.
LEMMA TableStep == TypeInv /\ TableInv /\ [Next]_vars => TableInv'
<1> SUFFICES ASSUME TypeInv, TableInv, [Next]_vars PROVE TableInv'
  OBVIOUS
<1>1. CASE UNCHANGED <<rows, tx, nextId>>
  BY <1>1 DEF TableInv, IdsAreFresh, VersionsAgree, CommittedOnce, WritesOneRow,
              SKUHasOneRow, SameKeys, Versions
<1>2. ASSUME NEW u \in Uploads, Save(u) PROVE TableInv'
  <2>1. PICK t \in Row :
           /\ tx' = [tx EXCEPT ![u] = {t}]
           /\ t.sku = Current(u).sku
           /\ t.sku # Null => t.issuer = invoice[u].issuer
           /\ \/ t.id = nextId /\ BySKU(invoice[u].issuer, Current(u).sku) = {}
              \/ \E r \in BySKU(invoice[u].issuer, Current(u).sku) :
                    t.id = r.id /\ SameKeys(t, r)
    BY <1>2, SaveWrites
  <2>2. rows' = rows /\ nextId' = nextId + 1 /\ nextId \in Nat
    BY <1>2 DEF Save, TypeInv, TypeOK
  <2>3. Versions' \subseteq Versions \cup {t}
    BY <2>1, <2>2 DEF Versions, TypeInv, TypeOK
  <2>4. \A r \in Versions : r \in Row
    BY DEF Versions, TypeInv, TypeOK
  <2>5. IdsAreFresh'
    BY <2>1, <2>2, <2>3, <2>4 DEF IdsAreFresh, TableInv, BySKU, Versions, Row
  <2>6. VersionsAgree'
    BY <2>1, <2>2, <2>3, <2>4
       DEF VersionsAgree, IdsAreFresh, TableInv, BySKU, Versions, Row, SameKeys
  <2>7. CommittedOnce' /\ WritesOneRow'
    BY <2>1, <2>2 DEF CommittedOnce, WritesOneRow, TableInv, TypeInv, TypeOK
  <2>8. SKUHasOneRow'
    <3>1. ASSUME NEW q \in Versions', q # t, t.sku # Null,
                 t.sku = q.sku, t.issuer = q.issuer
          PROVE  t.id = q.id
      <4>1. q \in rows \/ \E v \in Uploads \ {u} : q \in tx[v]
        BY <2>1, <2>2, <3>1 DEF Versions, TypeInv, TypeOK
      <4>2. q \in rows
        BY <1>2, <2>1, <3>1, <4>1 DEF Save, Blocked
      <4>3. q \in BySKU(invoice[u].issuer, Current(u).sku)
        BY <2>1, <3>1, <4>2 DEF BySKU
      <4> QED
        BY <2>1, <4>2, <4>3 DEF BySKU, TableInv, SKUHasOneRow, Versions
    <3> QED
      BY <2>3, <3>1 DEF SKUHasOneRow, TableInv
  <2> QED
    BY <2>5, <2>6, <2>7, <2>8 DEF TableInv
<1>3. ASSUME NEW u \in Uploads, Commit(u) \/ CommitUnacknowledged(u)
      PROVE  TableInv'
  BY <1>3, CommitKeepsTable DEF Commit, CommitUnacknowledged
<1>4. ASSUME NEW u \in Uploads, RepositoryError(u) PROVE TableInv'
  <2>1. Versions' \subseteq Versions
    BY <1>4, VersionsShrink DEF RepositoryError
  <2>2. WritesOneRow'
    BY <1>4 DEF RepositoryError, WritesOneRow, TableInv, TypeInv, TypeOK
  <2> QED
    BY <1>4, <2>1, <2>2
       DEF RepositoryError, TableInv, IdsAreFresh, VersionsAgree, CommittedOnce,
           SKUHasOneRow, SameKeys
<1>5. CASE Crash
  BY <1>5 DEF Crash, TableInv, IdsAreFresh, VersionsAgree, CommittedOnce,
              WritesOneRow, SKUHasOneRow, SameKeys, Versions
<1> QED
  BY <1>1, <1>2, <1>3, <1>4, <1>5
     DEF Next, Step, Terminated, Begin, FindByIssuerAndSKU, FindByDescription,
         Classify, vars

\* No step takes a committed row, or its keys, away.
LEMMA RowsStay ==
  ASSUME TypeInv, TableInv, [Next]_vars, NEW r \in rows
  PROVE  \E q \in rows' : q.id = r.id /\ SameKeys(q, r)
<1>1. ASSUME NEW u \in Uploads, Publish(u)
      PROVE  \E q \in rows' : q.id = r.id /\ SameKeys(q, r)
  <2>1. CASE \E t \in tx[u] : t.id = r.id
    <3> PICK t \in tx[u] : t.id = r.id
      BY <2>1
    <3>1. t \in rows' /\ t \in Versions /\ r \in Versions
      BY <1>1 DEF Publish, Versions
    <3> QED
      BY <3>1 DEF TableInv, VersionsAgree
  <2>2. CASE \A t \in tx[u] : t.id # r.id
    BY <1>1, <2>2 DEF Publish, SameKeys
  <2> QED
    BY <2>1, <2>2
<1>2. CASE UNCHANGED rows
  BY <1>2 DEF SameKeys
<1> QED
  BY <1>1, <1>2
     DEF Next, Step, Terminated, vars, Begin, FindByIssuerAndSKU,
         FindByDescription, Classify, Save, Commit, CommitUnacknowledged,
         RepositoryError, Crash

-----------------------------------------------------------------------------
(* Where the concepts of the entries come from.                            *)

\* The record of the answers of the model only grows.
LEMMA AnswersGrow == [Next]_vars => answers \subseteq answers'
BY DEF Next, Step, Terminated, vars, Begin, FindByIssuerAndSKU,
       FindByDescription, Classify, Save, Commit, CommitUnacknowledged,
       RepositoryError, Crash

\* Only Save brings a new version of a row.
LEMMA VersionsFromSave ==
  TypeInv /\ [Next]_vars => Versions' \subseteq Versions \/ \E u \in Uploads : Save(u)
<1> SUFFICES ASSUME TypeInv, [Next]_vars, ~ \E u \in Uploads : Save(u)
             PROVE  Versions' \subseteq Versions
  OBVIOUS
<1>1. CASE UNCHANGED <<rows, tx>>
  BY <1>1 DEF Versions
<1>2. ASSUME NEW u \in Uploads,
             Commit(u) \/ CommitUnacknowledged(u) \/ RepositoryError(u)
      PROVE  Versions' \subseteq Versions
  BY <1>2, VersionsShrink DEF Commit, CommitUnacknowledged, RepositoryError
<1>3. CASE Crash
  BY <1>3 DEF Crash, Versions
<1> QED
  BY <1>1, <1>2, <1>3
     DEF Next, Step, Terminated, vars, Begin, FindByIssuerAndSKU,
         FindByDescription, Classify

Acts(u) == Step(u) \/ RepositoryError(u) \/ CommitUnacknowledged(u)

\* A step of one upload leaves the others where they are.
LEMMA OthersWait ==
  ASSUME TypeInv, NEW u \in Uploads, Acts(u), NEW v \in Uploads \ {u}
  PROVE  /\ pc'[v] = pc[v] /\ pos'[v] = pos[v]
         /\ concept'[v] = concept[v] /\ answer'[v] = answer[v]
         /\ tx'[v] = tx[v]
BY DEF Acts, Step, Begin, FindByIssuerAndSKU, FindByDescription, Classify, Save,
       Commit, CommitUnacknowledged, RepositoryError, Advance, Goto, TypeInv, TypeOK

\* Classification changes no line's SKU or description.
LEMMA InvoicesStay == [Next]_vars => UNCHANGED invoice
BY DEF Next, Step, Terminated, vars, Begin, FindByIssuerAndSKU,
       FindByDescription, Classify, Save, Commit, CommitUnacknowledged,
       RepositoryError, Crash

\* The calls an upload may make next.
LEMMA Advances ==
  ASSUME TypeInv, NEW u \in Uploads, pc[u] \in Working, NEW c, Advance(u, c)
  PROVE  /\ pc'[u] \in {"classified", "byDescription", "bySKU"}
         /\ pc'[u] = Station(u, pos[u] + 1)
         /\ pos'[u] = pos[u] + 1
         /\ concept'[u] = [concept[u] EXCEPT ![pos[u]] = c]
BY StationType DEF Advance, Goto, TypeInv, TypeOK

\* Every step keeps what is saved and what is stored answered for: the upsert
\* gives a row the answer of a line with the row's own key.
LEMMA AnswersStep ==
  TypeInv /\ TableInv /\ AnswersInv /\ [Next]_vars => AnswersInv'
<1> SUFFICES ASSUME TypeInv, TableInv, AnswersInv, [Next]_vars PROVE AnswersInv'
  OBVIOUS
<1>1. answers \subseteq answers' /\ invoice' = invoice
  BY AnswersGrow, InvoicesStay
<1>2. VersionProvenance'
  <2>1. CASE Versions' \subseteq Versions
    BY <1>1, <2>1 DEF AnswersInv, VersionProvenance, Accounts
  <2>2. ASSUME NEW u \in Uploads, Save(u) PROVE VersionProvenance'
    <3>1. PICK t \in Row :
             /\ tx' = [tx EXCEPT ![u] = {t}]
             /\ t.concept = answer[u]
             /\ t.sku = Current(u).sku
             /\ t.sku # Null => t.issuer = invoice[u].issuer
             /\ t.sku = Null => t.desc = CurrentKey(u)
      BY <2>2, SaveWrites
    <3>2. Versions' \subseteq Versions \cup {t}
      <4>1. rows' = rows
        BY <2>2 DEF Save
      <4> QED
        BY <3>1, <4>1 DEF Versions, TypeInv, TypeOK
    <3> DEFINE a == [issuer |-> invoice[u].issuer, sku |-> Current(u).sku,
                     desc |-> CurrentKey(u), concept |-> answer[u]]
    <3>3. a \in answers
      BY <2>2 DEF Save, AnswersInv, SavedAnswerIsRecorded
    <3>4. Accounts(a, t)
      BY <3>1 DEF Accounts
    <3>5. \A r \in Versions : \E b \in answers : Accounts(b, r)
      BY DEF AnswersInv, VersionProvenance
    <3> HIDE DEF a
    <3>6. \A r \in Versions' : \E b \in answers : Accounts(b, r)
      BY <3>2, <3>3, <3>4, <3>5
    <3> QED
      BY <1>1, <3>6 DEF VersionProvenance, Accounts
  <2> QED
    BY <2>1, <2>2, VersionsFromSave
<1>3. SavedAnswerIsRecorded'
  <2> SUFFICES ASSUME NEW v \in Uploads, pc'[v] \in {"save", "commit"}
               PROVE  [issuer |-> invoice'[v].issuer, sku |-> Current(v)'.sku,
                       desc |-> CurrentKey(v)', concept |-> answer'[v]] \in answers'
    BY DEF SavedAnswerIsRecorded
  <2>1. CASE /\ pc'[v] = pc[v] /\ pos'[v] = pos[v] /\ answer'[v] = answer[v]
    BY <1>1, <2>1 DEF AnswersInv, SavedAnswerIsRecorded, Current, CurrentKey
  <2>2. CASE Save(v)
    BY <1>1, <2>2 DEF Save, AnswersInv, SavedAnswerIsRecorded, Current, CurrentKey
  <2>3. CASE Classify(v)
    <3>1. ~ Advance(v, Null)
      BY <2>3, Advances DEF Classify, Working
    <3>2. PICK reply \in Catalog :
             /\ answer' = [answer EXCEPT ![v] = reply]
             /\ answers' = answers \cup
                  {[issuer |-> invoice[v].issuer, sku |-> Current(v).sku,
                    desc |-> CurrentKey(v), concept |-> reply]}
             /\ pos' = pos
      BY <2>3, <3>1 DEF Classify
    <3>3. answer'[v] = reply
      BY <3>2 DEF TypeInv, TypeOK
    <3> QED
      BY <1>1, <3>2, <3>3 DEF Current, CurrentKey
  <2>4. CASE Acts(v) /\ ~Save(v) /\ ~Classify(v)
    <3>1. pc'[v] \notin {"save", "commit"}
      BY <2>4, Advances, StationType
         DEF Acts, Step, Begin, FindByIssuerAndSKU, FindByDescription, Commit,
             CommitUnacknowledged, RepositoryError, Goto, Working, TypeInv, TypeOK
    <3> QED
      BY <3>1
  <2>5. CASE Crash
    BY <1>1, <2>5 DEF Crash, AnswersInv, SavedAnswerIsRecorded, Current,
                      CurrentKey, TypeInv, TypeOK, Working
  <2>6. CASE UNCHANGED vars
    BY <2>1, <2>6 DEF vars
  <2> QED
    BY <2>1, <2>2, <2>3, <2>4, <2>5, <2>6, OthersWait DEF Next, Acts, Terminated
<1> QED
  BY <1>2, <1>3 DEF AnswersInv

-----------------------------------------------------------------------------
(* The lines.                                                              *)

\* What can be found in the cache can be found for ever.
LEMMA CacheGrows ==
  ASSUME TypeInv, TableInv, [Next]_vars
  PROVE  /\ \A key : ByDescription(key) # {} => ByDescription(key)' # {}
         /\ \A issuer, line :
               CachedFor(issuer, line) # {} => CachedFor(issuer, line)' # {}
BY RowsStay DEF ByDescription, BySKU, CachedFor, SameKeys

\* Where a line newly gets a concept, the cache has an entry for it.
LEMMA ClassifiedStep ==
  ASSUME TypeInv, TypeInv', TableInv, LinesInv, [Next]_vars
  PROVE  ClassifiedLineIsCached'
<1> SUFFICES ASSUME NEW v \in Uploads, NEW i \in DOMAIN concept'[v],
                    concept'[v][i] # Null
             PROVE  CachedFor(invoice[v].issuer, invoice[v].lines[i])' # {}
  BY DEF ClassifiedLineIsCached
<1>1. invoice' = invoice
  BY InvoicesStay
<1>2. DOMAIN concept'[v] = 1..Len(invoice[v].lines)
      /\ DOMAIN concept[v] = 1..Len(invoice[v].lines)
  BY <1>1, LenProperties DEF TypeInv, TypeOK
<1>3. CASE concept[v][i] = concept'[v][i]
  <2>1. CachedFor(invoice[v].issuer, invoice[v].lines[i]) # {}
    BY <1>2, <1>3 DEF LinesInv, ClassifiedLineIsCached
  <2> QED
    BY <1>1, <2>1, CacheGrows
<1>4. ASSUME NEW r \in rows', i = pos[v],
             KeyedFor(r, invoice[v].issuer, Current(v))
             \/ r.desc = normalizeDescription(Current(v).desc)
      PROVE  CachedFor(invoice[v].issuer, invoice[v].lines[i])' # {}
  BY <1>1, <1>4 DEF CachedFor, BySKU, ByDescription, KeyedFor, Current
<1>5. ASSUME NEW c, Advance(v, c), pc[v] \in Working
      PROVE  i = pos[v] \/ concept[v][i] = concept'[v][i]
  BY <1>2, <1>5, Advances
<1>6. CASE FindByIssuerAndSKU(v)
  <2>1. CASE UNCHANGED concept
    BY <1>3, <2>1
  <2>2. CASE \E r \in BySKU(invoice[v].issuer, Current(v).sku) : Advance(v, r.concept)
    <3> PICK r \in BySKU(invoice[v].issuer, Current(v).sku) : Advance(v, r.concept)
      BY <2>2
    <3>1. r \in rows' /\ KeyedFor(r, invoice[v].issuer, Current(v))
      BY <1>6 DEF FindByIssuerAndSKU, BySKU, KeyedFor
    <3> QED
      BY <1>3, <1>4, <1>5, <1>6, <3>1 DEF FindByIssuerAndSKU, Working
  <2> QED
    BY <1>6, <2>1, <2>2 DEF FindByIssuerAndSKU, IsFirst
<1>7. CASE FindByDescription(v)
  <2>1. CASE UNCHANGED concept
    BY <1>3, <2>1
  <2>2. CASE \E r \in ByDescription(CurrentKey(v)) : Advance(v, r.concept)
    <3> PICK r \in ByDescription(CurrentKey(v)) : Advance(v, r.concept)
      BY <2>2
    <3>1. r \in rows' /\ r.desc = normalizeDescription(Current(v).desc)
      BY <1>7 DEF FindByDescription, ByDescription, CurrentKey
    <3> QED
      BY <1>3, <1>4, <1>5, <1>7, <3>1 DEF FindByDescription, Working
  <2> QED
    BY <1>7, <2>1, <2>2 DEF FindByDescription, IsFirst
<1>8. CASE Classify(v)
  <2>1. CASE UNCHANGED concept
    BY <1>3, <2>1
  <2>2. CASE Advance(v, Null)
    <3>1. i = pos[v] \/ concept[v][i] = concept'[v][i]
      BY <1>5, <1>8, <2>2 DEF Classify, Working
    <3>2. concept'[v] = [concept[v] EXCEPT ![pos[v]] = Null]
      BY <1>8, <2>2, Advances DEF Classify, Working
    <3>3. i = pos[v] => concept'[v][i] = Null
      BY <1>2, <3>2
    <3> QED
      BY <1>3, <3>1, <3>3
  <2> QED
    BY <1>8, <2>1, <2>2 DEF Classify
<1>9. CASE Commit(v)
  <2>1. PICK t \in tx[v] : KeyedFor(t, invoice[v].issuer, Current(v))
    BY <1>9 DEF Commit, LinesInv, PendingEntryIsKeyed
  <2>2. t \in rows'
    BY <1>9 DEF Commit, Publish
  <2>3. i = pos[v] \/ concept[v][i] = concept'[v][i]
    BY <1>5, <1>9 DEF Commit, Working
  <2> QED
    BY <1>3, <1>4, <2>1, <2>2, <2>3
<1>10. CASE /\ Acts(v) /\ ~FindByIssuerAndSKU(v) /\ ~FindByDescription(v)
            /\ ~Classify(v) /\ ~Commit(v)
  BY <1>3, <1>10
     DEF Acts, Step, Begin, Save, RepositoryError, CommitUnacknowledged
<1>11. CASE \E u \in Uploads \ {v} : Acts(u)
  BY <1>3, <1>11, OthersWait
<1>12. CASE Crash \/ UNCHANGED vars
  BY <1>3, <1>12 DEF Crash, vars
<1> QED
  BY <1>6, <1>7, <1>8, <1>9, <1>10, <1>11, <1>12 DEF Next, Acts, Terminated

\* When no row matches a line by SKU and it repeats a classified line, a row
\* matches its description: that line's concept came from an entry of theirs.
LEMMA RepeatsAreCached ==
  ASSUME TypeInv, ClassifiedLineIsCached, NEW u \in Uploads,
         NEW i \in 1..Len(invoice[u].lines), NEW j \in 1..(i - 1),
         SameItem(u, j, i), concept[u][j] # Null,
         BySKU(invoice[u].issuer, invoice[u].lines[i].sku) = {}
  PROVE  ByDescription(normalizeDescription(invoice[u].lines[i].desc)) # {}
<1>1. j \in DOMAIN concept[u]
  BY LenProperties DEF TypeInv, TypeOK
<1>2. CachedFor(invoice[u].issuer, invoice[u].lines[j]) # {}
  BY <1>1 DEF ClassifiedLineIsCached
<1> QED
  BY <1>2 DEF CachedFor, SameItem

\* What is about to be committed stays keyed for the line it was answered for.
LEMMA PendingStep ==
  ASSUME TypeInv, TableInv, LinesInv, [Next]_vars
  PROVE  PendingEntryIsKeyed'
<1> SUFFICES ASSUME NEW v \in Uploads, pc'[v] = "commit"
             PROVE  \E t \in tx'[v] : KeyedFor(t, invoice[v].issuer, Current(v))'
  BY DEF PendingEntryIsKeyed
<1>1. invoice' = invoice
  BY InvoicesStay
<1>2. CASE pc[v] = "commit" /\ pos'[v] = pos[v] /\ tx'[v] = tx[v]
  BY <1>1, <1>2 DEF LinesInv, PendingEntryIsKeyed, KeyedFor, Current
<1>3. CASE Save(v)
  <2>1. PICK t \in Row :
           /\ tx' = [tx EXCEPT ![v] = {t}]
           /\ t.sku = Current(v).sku
           /\ t.sku # Null => t.issuer = invoice[v].issuer
           /\ t.sku = Null => t.desc = CurrentKey(v)
    BY <1>3, SaveWrites
  <2>2. t \in tx'[v] /\ pos' = pos
    BY <1>3, <2>1 DEF Save, TypeInv, TypeOK
  <2> QED
    BY <1>1, <2>1, <2>2 DEF KeyedFor, Current, CurrentKey
<1>4. CASE Acts(v) /\ ~Save(v)
  BY <1>4, Advances, StationType
     DEF Acts, Step, Begin, FindByIssuerAndSKU, FindByDescription, Classify,
         Commit, CommitUnacknowledged, RepositoryError, Goto, Working, TypeInv,
         TypeOK
<1>5. CASE Crash
  BY <1>5 DEF Crash, Working, TypeInv, TypeOK
<1>6. CASE \E u \in Uploads \ {v} : Acts(u)
  BY <1>2, <1>6, OthersWait
<1>7. CASE UNCHANGED vars
  BY <1>2, <1>7 DEF vars
<1> QED
  BY <1>3, <1>4, <1>5, <1>6, <1>7 DEF Next, Acts, Terminated

\* A line on its second lookup that repeats a classified one hits, whatever a
\* step of another upload does between the two lookups.
LEMMA RepeatStep ==
  ASSUME TypeInv, TypeInv', TableInv, LinesInv, [Next]_vars
  PROVE  RepeatHitsByDescription'
<1> SUFFICES ASSUME NEW v \in Uploads, pc'[v] = "byDescription",
                    NEW j \in 1..(pos'[v] - 1), SameItem(v, j, pos[v])',
                    concept'[v][j] # Null
             PROVE  ByDescription(CurrentKey(v))' # {}
  BY DEF RepeatHitsByDescription
<1>1. invoice' = invoice
  BY InvoicesStay
<1>2. CASE pc[v] = "byDescription" /\ pos'[v] = pos[v] /\ concept'[v] = concept[v]
  <2>1. ByDescription(CurrentKey(v)) # {}
    BY <1>1, <1>2 DEF LinesInv, RepeatHitsByDescription, SameItem
  <2> QED
    BY <1>1, <1>2, <2>1, CacheGrows DEF CurrentKey, Current
<1>3. CASE Begin(v)
  BY <1>3 DEF Begin, TypeInv
<1>4. CASE FindByIssuerAndSKU(v) /\ UNCHANGED <<pos, concept>>
  <2>1. BySKU(invoice[v].issuer, Current(v).sku) = {}
    BY <1>4, Advances DEF FindByIssuerAndSKU, IsFirst, Working, TypeInv, TypeOK
  <2>2. pos[v] \in 1..Len(invoice[v].lines)
    BY <1>4 DEF FindByIssuerAndSKU, Working, TypeInv, TypeOK
  <2>3. ByDescription(normalizeDescription(invoice[v].lines[pos[v]].desc)) # {}
    BY <1>1, <1>4, <2>1, <2>2, RepeatsAreCached
       DEF LinesInv, SameItem, Current
  <2> QED
    BY <1>1, <1>4, <2>3
       DEF FindByIssuerAndSKU, ByDescription, CurrentKey, Current
<1>5. ASSUME NEW c, Advance(v, c), pc[v] \in Working
      PROVE  ByDescription(CurrentKey(v))' # {}
  <2>1. Station(v, pos'[v]) = "byDescription" /\ pos'[v] \in 1..Len(invoice[v].lines)
    BY <1>1, <1>5, Advances DEF TypeInv, TypeOK, Working
  <2>2. invoice[v].lines[pos'[v]].sku = Null
    BY <2>1 DEF Station
  <2>3. CachedFor(invoice[v].issuer, invoice[v].lines[j])' # {}
    <3>1. ClassifiedLineIsCached'
      BY ClassifiedStep
    <3>2. j \in DOMAIN concept'[v]
      BY <1>1, <2>1, LenProperties DEF TypeInv, TypeOK
    <3> QED
      BY <3>1, <3>2 DEF ClassifiedLineIsCached
  <2> QED
    BY <1>1, <2>2, <2>3
       DEF CachedFor, SameItem, BySKU, ByDescription, CurrentKey, Current
<1>6. CASE Acts(v)
  BY <1>3, <1>4, <1>5, <1>6
     DEF Acts, Step, FindByIssuerAndSKU, FindByDescription, Classify, Save,
         Commit, CommitUnacknowledged, RepositoryError, Goto, Working, TypeInv,
         TypeOK
<1>7. CASE Crash
  BY <1>7 DEF Crash, Working, TypeInv, TypeOK
<1>8. CASE \E u \in Uploads \ {v} : Acts(u)
  BY <1>2, <1>8, OthersWait
<1>9. CASE UNCHANGED vars
  BY <1>2, <1>9 DEF vars
<1> QED
  BY <1>6, <1>7, <1>8, <1>9 DEF Next, Acts, Terminated

\* Only a miss by description leads to the model, and a repeat does not miss.
LEMMA AskedStep ==
  ASSUME TypeInv, LinesInv, [Next]_vars
  PROVE  ItemAskedOnce'
<1> SUFFICES ASSUME NEW v \in Uploads, pc'[v] = "llm",
                    NEW j \in 1..(pos'[v] - 1), SameItem(v, j, pos[v])'
             PROVE  concept'[v][j] = Null
  BY DEF ItemAskedOnce
<1>1. invoice' = invoice
  BY InvoicesStay
<1>2. CASE pc[v] = "llm" /\ pos'[v] = pos[v] /\ concept'[v] = concept[v]
  BY <1>1, <1>2 DEF LinesInv, ItemAskedOnce, SameItem
<1>3. CASE FindByDescription(v)
  <2>1. ByDescription(CurrentKey(v)) = {} /\ UNCHANGED <<pos, concept>>
    BY <1>3, Advances DEF FindByDescription, IsFirst, Working
  <2> QED
    BY <1>1, <1>3, <2>1
       DEF FindByDescription, LinesInv, RepeatHitsByDescription, SameItem
<1>4. CASE Acts(v) /\ ~FindByDescription(v)
  BY <1>4, Advances, StationType
     DEF Acts, Step, Begin, FindByIssuerAndSKU, Classify, Save, Commit,
         CommitUnacknowledged, RepositoryError, Goto, Working, TypeInv, TypeOK
<1>5. CASE Crash
  BY <1>5 DEF Crash, Working, TypeInv, TypeOK
<1>6. CASE \E u \in Uploads \ {v} : Acts(u)
  BY <1>2, <1>6, OthersWait
<1>7. CASE UNCHANGED vars
  BY <1>2, <1>7 DEF vars
<1> QED
  BY <1>3, <1>4, <1>5, <1>6, <1>7 DEF Next, Acts, Terminated

-----------------------------------------------------------------------------
(* The invariant and what follows from it.                                 *)

\* The invariant holds of the empty table.
LEMMA InitIInv == Init => IInv
<1> SUFFICES ASSUME Init PROVE IInv
  OBVIOUS
<1>1. Versions = {}
  BY DEF Init, Versions
<1>2. \A u \in Uploads : \A i \in DOMAIN concept[u] : concept[u][i] = Null
  BY DEF Init
<1> QED
  BY <1>1, <1>2
     DEF Init, IInv, TableInv, IdsAreFresh, VersionsAgree, CommittedOnce,
         WritesOneRow, SKUHasOneRow, AnswersInv, SavedAnswerIsRecorded,
         VersionProvenance, LinesInv, PendingEntryIsKeyed,
         RepeatHitsByDescription, ClassifiedLineIsCached, ItemAskedOnce

\* Every step keeps the invariant.
LEMMA NextIInv == TypeInv /\ TypeInv' /\ IInv /\ [Next]_vars => IInv'
BY TableStep, AnswersStep, ClassifiedStep, PendingStep, RepeatStep, AskedStep
   DEF IInv, LinesInv

\* The types and the invariant hold in every state of every behaviour.
LEMMA Invariance == Spec => [](TypeInv /\ IInv)
BY InitType, InitIInv, NextType, NextIInv, PTL DEF Spec

\* The strengthening by itself: what is pending or under way, whoever races or
\* fails, is keyed, unique and accounted for as what is committed.
THEOREM StrengtheningHolds == Spec => []IInv
BY Invariance, PTL

\* A concept in a line is always backed by a committed cache entry under one of
\* the line's own keys, whatever uploads race, fail or are cut off by a crash.
THEOREM ClassifiedLinesAreCached == Spec => []ClassifiedLineIsCached
<1>1. IInv => ClassifiedLineIsCached
  BY DEF IInv, LinesInv
<1> QED
  BY <1>1, Invariance, PTL

\* Every committed entry holds an answer the model gave for a line of its key,
\* through every race of misses, upsert and lost acknowledgement.
THEOREM EntriesComeFromAnswers == Spec => []EntryProvenance
<1>1. IInv => EntryProvenance
  BY DEF IInv, AnswersInv, VersionProvenance, Versions, EntryProvenance
<1> QED
  BY <1>1, Invariance, PTL

\* However many uploads miss the cache for it at once, an issuer and SKU end up
\* with one committed entry: the upsert and the unique index see to it.
THEOREM OneEntryForEachSKU == Spec => []OneEntryPerSKU
<1>1. IInv => OneEntryPerSKU
  BY DEF IInv, TableInv, SKUHasOneRow, CommittedOnce, Versions, OneEntryPerSKU
<1> QED
  BY <1>1, Invariance, PTL

\* The model is never asked again, within an invoice, for an item one of whose
\* lines is classified, though other uploads act between the two lookups.
THEOREM ItemsAreAskedOnce == Spec => []ItemAskedOnce
<1>1. IInv => ItemAskedOnce
  BY DEF IInv, LinesInv
<1> QED
  BY <1>1, Invariance, PTL

\* No step of any upload, and no crash, deletes a committed entry or changes
\* the keys it is found by.
THEOREM EntriesStay == Spec => EntriesKeepTheirKeys
<1>1. TypeInv /\ IInv /\ [Next]_vars =>
        [\A r \in rows : \E q \in rows' :
            q.id = r.id /\ q.issuer = r.issuer /\ q.sku = r.sku /\ q.desc = r.desc]_vars
  BY RowsStay DEF IInv, SameKeys
<1> QED
  BY <1>1, Invariance, PTL DEF Spec, EntriesKeepTheirKeys

=============================================================================
