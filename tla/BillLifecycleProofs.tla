-------------------------- MODULE BillLifecycleProofs --------------------------
(***************************************************************************)
(* Proofs about BillLifecycle for any number of documents, requests and    *)
(* batches of rows: types, rows and files in every interleaving; then what *)
(* a bill and its forecast show as long as no two requests for its         *)
(* document overlapped, whatever happens to other documents.               *)
(***************************************************************************)
EXTENDS BillLifecycle, FiniteSetTheorems, TLAPS

\* What request r may rely on while it runs.
\*  - The document of an upload has neither row nor bill, and no other
\*    request works on it: it was unknown until this request.
\*  - An extraction keeps its document, and a bill it has loaded, from being
\*    deleted; two extractions of a document that overlap have both loaded a
\*    bill.
\*  - A deletion that is left with the file has no row any more.
Holds(r) ==
  LET s == slot[r] IN
  /\ s.doc \in Document => s.doc \in known
  /\ s.pc = "saving" => /\ s.doc \in file \ doc
                        /\ \A q \in Request \ {r} : slot[q].doc # s.doc
  /\ s.pc = "extracting" =>
       /\ s.doc \in doc
       /\ s.bill # NoBill <=> HasBill(s.doc)
       /\ s.bill = NoBill => \A q \in Request \ {r} :
                               slot[q].doc = s.doc => slot[q].pc # "extracting"
  /\ s.pc = "unlinking" => s.doc \notin doc

Held == \A r \in Request : Holds(r)

\* Rows, files and requests agree.
Consistent ==
  /\ doc \subseteq known
  /\ RowsAreRooted
  /\ DocumentHasFile
  /\ StrayFilesAreExplained
  /\ Held

\* The inductive invariant.
Inv == TypeOK /\ Consistent

-----------------------------------------------------------------------------
(* Types.                                                                  *)

\* No bill is told apart from every row.
LEMMA NoBillIsNoRow == NoBill \notin Row /\ NoBill.status = "none"
BY DEF NoBill, Row

\* Slots that are idle or that begin.
LEMMA SlotTypes ==
  /\ Idle \in Slot
  /\ NoSeries \in SeriesSet
  /\ \A s \in Slot : /\ s.doc \in Document \cup {None}
                      /\ s.bill \in Row \cup {NoBill}
                      /\ s.forecast \in SUBSET ForecastBatch
                      /\ s.series \in SeriesSet
<1>1. NoSeries \in [{} -> FigureSet]
  BY DEF NoSeries
<1>2. NoSeries \in SeriesSet
  BY <1>1 DEF SeriesSet
<1>3. Idle \in Slot
  BY <1>2 DEF Idle, Slot, NoBill
<1>4. QED
  BY <1>2, <1>3 DEF Slot

\* The series of a bill is a function from documents to figures.
LEMMA SeriesType ==
  ASSUME TypeOK, NEW d \in Document, NEW target \in Row
  PROVE  Series(d, target) \in SeriesSet
<1>1. \A b \in Row : Figures(b) \in FigureSet
  BY DEF Figures, FigureSet, Row
<1>2. \A e \in Confirmed : bill[e] \in Row
  BY NoBillIsNoRow DEF Confirmed, TypeOK
<1>3. Series(d, target) \in [({d} \cup Confirmed) -> FigureSet]
  BY <1>1, <1>2 DEF Series
<1>4. ({d} \cup Confirmed) \in SUBSET Document
  BY DEF Confirmed
<1>5. QED
  BY <1>3, <1>4 DEF SeriesSet

\* What the ORM writes over a bill, or inserts where none was loaded and there
\* is none, is a bill.
LEMMA WrittenType ==
  ASSUME TypeOK, NEW s \in Slot, s.doc \in Document,
         NEW st \in {"pending", "confirmed"}, NEW m \in Figure,
         NEW new \in SUBSET Batch,
         HasBill(s.doc) \/ s.bill = NoBill
  PROVE  /\ Written(s, st, m, new) \in Row
         /\ Written(s, st, m, new) # NoBill
<1> DEFINE w == Written(s, st, m, new)
           now == bill[s.doc]
<1>1. now \in Row \/ (now = NoBill /\ s.bill = NoBill)
  BY DEF TypeOK, HasBill
<1>2. s.bill \in Row \cup {NoBill}
  BY SlotTypes
<1>3. now.history \in SUBSET Batch /\ s.bill.history \in SUBSET Batch
  BY <1>1, <1>2 DEF Row, NoBill
<1>4. w.status \in {"pending", "confirmed"}
  BY <1>1, NoBillIsNoRow DEF Written, Row
<1>5. w.main \in Figure
  BY <1>1 DEF Written, Row, NoBill
<1>6. w = [status |-> w.status, main |-> w.main, history |-> w.history]
  BY DEF Written
<1>7. w.history \in SUBSET Batch
  BY <1>3 DEF Written
<1>8. w \in Row
  BY <1>4, <1>5, <1>6, <1>7 DEF Row
<1>9. QED
  BY <1>8, NoBillIsNoRow

\* Every step keeps the types.  An extraction relies on Held: the bill it loaded
\* is still there when it writes it.
LEMMA TypesKept ==
  ASSUME TypeOK, Held, [Next]_vars
  PROVE  TypeOK'
<1> USE BoundAssumption, DocumentAssumption DEF TypeOK
<1>1. ASSUME NEW r \in Request, NEW s \in Slot, s.doc # None <=> s # Idle,
             slot' = [slot EXCEPT ![r] = s]
      PROVE  slot' \in [Request -> Slot] /\ \A q \in Request : slot'[q].doc = None <=> slot'[q] = Idle
  BY <1>1
<1>2. ASSUME NEW r \in Request, End(r)
      PROVE  slot' \in [Request -> Slot] /\ \A q \in Request : slot'[q].doc = None <=> slot'[q] = Idle
  BY <1>1, <1>2, SlotTypes DEF End, Idle
<1>3. ASSUME NEW r \in Request, NEW s \in Slot, Begin(r, s), s.doc \in Document, s.pc # "idle"
      PROVE  /\ slot' \in [Request -> Slot]
             /\ \A q \in Request : slot'[q].doc = None <=> slot'[q] = Idle
             /\ overlapped' \subseteq Document
  BY <1>1, <1>3 DEF Begin, Idle
<1>4. ASSUME NEW r \in Request, NEW d \in Document, UploadSave(r, d)
      PROVE  TypeOK'
  <2>1. [Idle EXCEPT !.pc = "saving", !.doc = d] \in Slot
    BY SlotTypes DEF Slot, Idle
  <2>2. QED
    BY <1>3, <1>4, <2>1 DEF UploadSave, Idle
<1>5. ASSUME NEW r \in Request, UploadCommit(r)
      PROVE  TypeOK'
  <2>1. slot[r].doc \in Document
    BY <1>5 DEF UploadCommit, Idle, Slot
  <2>2. QED
    BY <1>2, <1>5, <2>1 DEF UploadCommit, ghosts
<1>6. ASSUME NEW r \in Request, UploadFail(r)
      PROVE  TypeOK'
  BY <1>2, <1>6 DEF UploadFail, ghosts
<1>7. ASSUME NEW r \in Request, NEW d \in Document, ExtractRead(r, d)
      PROVE  TypeOK'
  <2>1. [Idle EXCEPT !.pc = "extracting", !.doc = d, !.bill = bill[d], !.forecast = forecast[d]] \in Slot
    BY SlotTypes DEF Slot, Idle
  <2>2. QED
    BY <1>3, <1>7, <2>1 DEF ExtractRead, ghosts, Idle
<1>8. ASSUME NEW r \in Request, ExtractCommit(r)
      PROVE  TypeOK'
  <2> DEFINE s == slot[r]
             new == NewBatch(s.doc \in WithHistory)
  <2>1. s.doc \in Document /\ s \in Slot
    BY <1>8 DEF ExtractCommit, Idle, Slot
  <2>2. new \in SUBSET Batch /\ batches' \in 0..MaxBatches
    BY <1>8 DEF ExtractCommit, NewBatch, CanInsert, CountBatch, Batch
  <2>3. HasBill(s.doc) \/ s.bill = NoBill
    BY <1>8 DEF ExtractCommit, Held, Holds
  <2>4. Written(s, "pending", "read", new) \in Row
    BY <2>1, <2>2, <2>3, WrittenType DEF Figure
  <2>5. bill' \in [Document -> Row \cup {NoBill}]
    BY <1>8, <2>1, <2>4 DEF ExtractCommit
  <2>6. forecast' \in [Document -> SUBSET ForecastBatch]
    BY <1>8, <2>1 DEF ExtractCommit
  <2>7. QED
    BY <1>2, <1>8, <2>2, <2>5, <2>6 DEF ExtractCommit
<1>9. ASSUME NEW r \in Request, NEW d \in Document, ConfirmRead(r, d)
      PROVE  TypeOK'
  <2>1. [Idle EXCEPT !.pc = "confirming", !.doc = d, !.bill = bill[d], !.forecast = forecast[d]] \in Slot
    BY SlotTypes DEF Slot, Idle
  <2>2. QED
    BY <1>3, <1>9, <2>1 DEF ConfirmRead, ghosts, Idle
<1>10. ASSUME NEW r \in Request, NEW m \in Figure, NEW some \in BOOLEAN,
              ConfirmCommit(r, m, some)
       PROVE  TypeOK'
  <2> DEFINE s == slot[r]
             new == NewBatch(some)
  <2>1. s.doc \in Document /\ s \in Slot
    BY <1>10 DEF ConfirmCommit, Idle, Slot
  <2>2. new \in SUBSET Batch /\ batches' \in 0..MaxBatches
    BY <1>10 DEF ConfirmCommit, NewBatch, CanInsert, CountBatch, Batch
  <2>3. Written(s, "confirmed", m, new) \in Row
    BY <1>10, <2>1, <2>2, WrittenType DEF ConfirmCommit
  <2>4. bill' \in [Document -> Row \cup {NoBill}] /\ bill'[s.doc] \in Row
    BY <1>10, <2>1, <2>3 DEF ConfirmCommit
  <2>5. forecast' \in [Document -> SUBSET ForecastBatch]
    BY <1>10, <2>1 DEF ConfirmCommit
  <2>6. reviewed' \in [Document -> FigureSet \cup {Figures(NoBill)}]
    BY <1>10, <2>1, <2>2 DEF ConfirmCommit, FigureSet
  <2>7. [s EXCEPT !.pc = "refreshing", !.bill = bill'[s.doc], !.forecast = {}] \in Slot
    BY <2>1, <2>4 DEF Slot
  <2>8. slot' = [slot EXCEPT ![r] = [s EXCEPT !.pc = "refreshing", !.bill = bill'[s.doc], !.forecast = {}]]
    <3> DEFINE b == bill'[s.doc]
    <3>1. slot' = [slot EXCEPT ![r].pc = "refreshing", ![r].bill = b, ![r].forecast = {}]
      BY <1>10 DEF ConfirmCommit
    <3>2. slot \in [Request -> Slot]
      OBVIOUS
    <3> HIDE DEF b, TypeOK
    <3>3. slot' = [slot EXCEPT ![r] = [slot[r] EXCEPT !.pc = "refreshing", !.bill = b, !.forecast = {}]]
      BY <3>1, <3>2
    <3>4. QED
      BY <3>3 DEF b
  <2>9. /\ slot' \in [Request -> Slot]
        /\ \A q \in Request : slot'[q].doc = None <=> slot'[q] = Idle
    BY <1>1, <2>1, <2>7, <2>8 DEF Idle, Slot
  <2>10. QED
    BY <1>10, <2>2, <2>4, <2>5, <2>6, <2>9 DEF ConfirmCommit
<1>11. ASSUME NEW r \in Request, RefreshRead(r)
       PROVE  TypeOK'
  <2> DEFINE s == slot[r]
             target == [s.bill EXCEPT !.history = bill[s.doc].history]
             new == [s EXCEPT !.pc = "deriving", !.series = Series(s.doc, target)]
  <2>1. s \in Slot /\ s.doc \in Document
    BY <1>11 DEF RefreshRead, Idle, Slot
  <2>2. s.bill \in Row /\ bill[s.doc] \in Row
    BY <1>11, <2>1, SlotTypes, NoBillIsNoRow DEF RefreshRead, HasBill
  <2>3. target \in Row
    BY <2>2 DEF Row
  <2>4. Series(s.doc, target) \in SeriesSet
    BY <2>1, <2>3, SeriesType
  <2>5. new \in Slot /\ new.doc = s.doc /\ new.pc = "deriving"
    BY <2>1, <2>4 DEF Slot
  <2>6. slot' = [slot EXCEPT ![r] = new]
    BY <1>11 DEF RefreshRead
  <2>7. /\ slot' \in [Request -> Slot]
        /\ \A q \in Request : slot'[q].doc = None <=> slot'[q] = Idle
    <3> HIDE DEF new
    <3>1. QED
      BY <1>1, <2>1, <2>5, <2>6 DEF Idle
  <2>8. QED
    BY <1>11, <2>7 DEF RefreshRead, ghosts
<1>12. ASSUME NEW r \in Request, NEW d \in Document, GetRead(r, d)
       PROVE  TypeOK'
  <2> DEFINE new == [Idle EXCEPT !.pc = "reading", !.doc = d, !.series = Series(d, bill[d])]
  <2>1. bill[d] \in Row
    BY <1>12, NoBillIsNoRow DEF GetRead
  <2>2. Series(d, bill[d]) \in SeriesSet
    BY <2>1, SeriesType
  <2>3. new \in Slot /\ new.doc = d /\ new.pc = "reading"
    BY <2>2, SlotTypes DEF Slot, Idle
  <2>4. Begin(r, new)
    BY <1>12 DEF GetRead
  <2>5. /\ slot' \in [Request -> Slot]
        /\ \A q \in Request : slot'[q].doc = None <=> slot'[q] = Idle
        /\ overlapped' \subseteq Document
    <3> HIDE DEF new
    <3>1. QED
      BY <1>3, <2>3, <2>4
  <2>6. QED
    BY <1>12, <2>5 DEF GetRead, ghosts
<1>13. ASSUME NEW r \in Request, GetServe(r) \/ Replace(r)
       PROVE  TypeOK'
  <2> DEFINE s == slot[r]
  <2>1. s \in Slot /\ s.doc \in Document
    BY <1>13 DEF GetServe, Replace, Idle, Slot
  <2>2. PICK pc \in {"serving", "replacing"} :
          slot' = [slot EXCEPT ![r] = [s EXCEPT !.pc = pc, !.forecast = forecast[s.doc]]]
    BY <1>13 DEF GetServe, Replace
  <2>3. [s EXCEPT !.pc = pc, !.forecast = forecast[s.doc]] \in Slot
    BY <2>1 DEF Slot
  <2>4. /\ slot' \in [Request -> Slot]
        /\ \A q \in Request : slot'[q].doc = None <=> slot'[q] = Idle
    BY <1>1, <2>1, <2>2, <2>3 DEF Idle, Slot
  <2>5. QED
    BY <1>13, <2>4 DEF GetServe, Replace, ghosts
<1>14. ASSUME NEW r \in Request, ReplaceCommit(r)
       PROVE  TypeOK'
  <2> DEFINE s == slot[r]
  <2>1. s.doc \in Document /\ s.series \in SeriesSet
    BY <1>14, SlotTypes DEF ReplaceCommit, Idle
  <2>2. batches + 1 \in Batch /\ batches' \in 0..MaxBatches
    BY <1>14 DEF ReplaceCommit, CanInsert, CountBatch, Batch
  <2>3. [id |-> batches + 1, of |-> s.series] \in ForecastBatch
    BY <2>1, <2>2 DEF ForecastBatch
  <2>4. forecast' \in [Document -> SUBSET ForecastBatch]
    BY <1>14, <2>1, <2>3 DEF ReplaceCommit
  <2>5. QED
    BY <1>2, <1>14, <2>2, <2>4 DEF ReplaceCommit
<1>15. ASSUME NEW r \in Request, NEW d \in Document, DeleteRead(r, d)
       PROVE  TypeOK'
  <2>1. [Idle EXCEPT !.pc = "deleting", !.doc = d] \in Slot
    BY SlotTypes DEF Slot, Idle
  <2>2. QED
    BY <1>3, <1>15, <2>1 DEF DeleteRead, ghosts, Idle
<1>16. ASSUME NEW r \in Request, DeleteCommit(r)
       PROVE  TypeOK'
  <2> DEFINE s == slot[r]
  <2>1. s \in Slot /\ s.doc \in Document
    BY <1>16 DEF DeleteCommit, Idle, Slot
  <2>2. [s EXCEPT !.pc = "unlinking"] \in Slot
    BY <2>1 DEF Slot
  <2>3. slot' = [slot EXCEPT ![r] = [s EXCEPT !.pc = "unlinking"]]
    BY <1>16 DEF DeleteCommit
  <2>4. /\ slot' \in [Request -> Slot]
        /\ \A q \in Request : slot'[q].doc = None <=> slot'[q] = Idle
    BY <1>1, <2>1, <2>2, <2>3 DEF Idle, Slot
  <2>5. QED
    BY <1>16, <2>4 DEF DeleteCommit, ghosts
<1>17. ASSUME NEW r \in Request, Unlink(r) \/ UnlinkFail(r) \/ Leave(r)
       PROVE  TypeOK'
  <2>1. slot[r].pc = "unlinking" => slot[r].doc \in Document
    BY DEF Idle, Slot
  <2>2. QED
    BY <1>2, <1>17, <2>1 DEF Unlink, UnlinkFail, Leave, ghosts
<1>18. CASE Crash
  <2>1. /\ slot' \in [Request -> Slot]
        /\ \A q \in Request : slot'[q].doc = None <=> slot'[q] = Idle
    BY <1>18, SlotTypes DEF Crash, Idle
  <2>2. QED
    BY <1>18, <2>1 DEF Crash, ghosts
<1>19. CASE UNCHANGED vars
  BY <1>19 DEF vars
<1>20. QED
  BY <1>4, <1>5, <1>6, <1>7, <1>8, <1>9, <1>10, <1>11, <1>12, <1>13, <1>14, <1>15,
     <1>16, <1>17, <1>18, <1>19 DEF Next

-----------------------------------------------------------------------------
(* Rows, files and requests.                                               *)

\* A request begins to work on a document that has a row.
LEMMA BeginKeeps ==
  ASSUME Inv, TypeOK', NEW r \in Request, NEW d \in doc, NEW s \in Slot,
         Begin(r, s), s.doc = d, s.pc \notin {"saving", "unlinking"},
         s.pc = "extracting" =>
           /\ s.bill = bill[d]
           /\ HasBill(d) \/ \A q \in Running(d) : slot[q].pc # "extracting",
         UNCHANGED <<file, doc, bill, forecast, known, stray>>
  PROVE  Consistent'
<1> USE DEF Inv
<1>1. slot \in [Request -> Slot] /\ slot[r].pc = "idle" /\ d \in Document
  BY DEF Begin, Idle, TypeOK
<1>2. slot'[r] = s /\ \A q \in Request \ {r} : slot'[q] = slot[q]
  BY <1>1 DEF Begin
<1>3. (doc \subseteq known /\ RowsAreRooted /\ DocumentHasFile)'
  BY DEF Consistent, RowsAreRooted, DocumentHasFile, HasBill
<1>4. StrayFilesAreExplained'
  BY <1>1, <1>2 DEF Consistent, StrayFilesAreExplained, Running
<1>5. Holds(r)'
  <2>1. d \in known
    BY DEF Consistent
  <2>2. s.pc = "extracting" /\ s.bill = NoBill =>
          \A q \in Request \ {r} : slot[q].doc = d => slot[q].pc # "extracting"
    BY DEF Running, HasBill
  <2>3. QED
    BY <1>2, <2>1, <2>2 DEF Holds, HasBill
<1>6. ASSUME NEW q \in Request \ {r}
      PROVE  Holds(q)'
  <2>1. Holds(q) /\ slot'[q] = slot[q]
    BY <1>2 DEF Consistent, Held
  <2>2. slot[q].pc = "saving" => slot[q].doc # d
    BY <2>1 DEF Holds
  <2>3. ~(/\ slot[q].pc = "extracting" /\ slot[q].bill = NoBill /\ slot[q].doc = d
          /\ s.pc = "extracting")
    BY <2>1 DEF Holds, Running
  <2>4. QED
    BY <1>2, <2>1, <2>2, <2>3 DEF Holds, HasBill
<1>7. Held'
  BY <1>5, <1>6 DEF Held
<1>8. QED
  BY <1>3, <1>4, <1>7 DEF Consistent

\* A request that is neither saving, extracting nor unlinking goes on or ends,
\* without adding or removing documents, bills or files.
LEMMA MoveKeeps ==
  ASSUME Inv, TypeOK', NEW r \in Request,
         slot[r].pc \notin {"saving", "unlinking"},
         \A q \in Request \ {r} : slot'[q] = slot[q],
         slot'[r].doc \in {slot[r].doc, None},
         slot'[r].pc \notin {"saving", "extracting", "unlinking"},
         UNCHANGED <<file, doc, known, stray>>,
         \A d \in Document : HasBill(d)' <=> HasBill(d),
         \A d \in Document : forecast'[d] # {} => HasBill(d)
  PROVE  Consistent'
<1> USE DEF Inv
<1>1. (doc \subseteq known /\ RowsAreRooted /\ DocumentHasFile)'
  BY DEF Consistent, RowsAreRooted, DocumentHasFile
<1>2. StrayFilesAreExplained'
  BY DEF Consistent, StrayFilesAreExplained, Running
<1>3. Holds(r)'
  BY DocumentAssumption DEF Consistent, Held, Holds
<1>4. ASSUME NEW q \in Request \ {r}
      PROVE  Holds(q)'
  <2>1. Holds(q) /\ slot'[q] = slot[q]
    BY DEF Consistent, Held
  <2>2. slot[q].pc = "saving" => slot'[r].doc # slot[q].doc
    BY <2>1, DocumentAssumption DEF Holds, TypeOK
  <2>3. slot[q].pc = "extracting" => slot[q].doc \in Document
    BY <2>1 DEF Holds, TypeOK
  <2>4. slot[q].pc = "extracting" => (HasBill(slot[q].doc)' <=> HasBill(slot[q].doc))
    BY <2>3
  <2>5. QED
    BY <2>1, <2>2, <2>4 DEF Holds, HasBill
<1>5. QED
  BY <1>1, <1>2, <1>3, <1>4 DEF Consistent, Held

\* An upload stores its file before the row of its document, and removes it when
\* the row cannot be stored.
LEMMA UploadKeeps ==
  ASSUME Inv, TypeOK', NEW r \in Request,
         \/ \E d \in Document : UploadSave(r, d)
         \/ UploadCommit(r)
         \/ UploadFail(r)
  PROVE  Consistent'
<1> USE DEF Inv
<1>1. ASSUME NEW d \in Document, UploadSave(r, d)
      PROVE  Consistent'
  <2>1. /\ slot[r].pc = "idle" /\ slot'[r].doc = d
        /\ slot'[r].pc = "saving"
        /\ \A q \in Request \ {r} : slot'[q] = slot[q]
    <3>1. slot[r] = Idle /\ slot' = [slot EXCEPT ![r] = [Idle EXCEPT !.pc = "saving", !.doc = d]]
      BY <1>1 DEF UploadSave, Begin
    <3>2. slot \in [Request -> Slot]
      BY DEF TypeOK
    <3>3. QED
      BY <3>1, <3>2 DEF Idle
  <2>2. d \notin known /\ d \notin doc
    BY <1>1 DEF UploadSave, Consistent
  <2>3. known' = known \cup {d} /\ file' = file \cup {d}
        /\ UNCHANGED <<doc, bill, forecast, stray>>
    BY <1>1 DEF UploadSave
  <2>4. \A q \in Request \ {r} : slot[q].doc # d
    BY <2>2 DEF Consistent, Held, Holds
  <2>5. (doc \subseteq known /\ RowsAreRooted /\ DocumentHasFile)'
    BY <2>3 DEF Consistent, RowsAreRooted, DocumentHasFile, HasBill
  <2>6. StrayFilesAreExplained'
    BY <2>1, <2>3 DEF Consistent, StrayFilesAreExplained, Running
  <2>7. Holds(r)'
    BY <2>1, <2>2, <2>3, <2>4 DEF Holds
  <2>8. ASSUME NEW q \in Request \ {r}
        PROVE  Holds(q)'
    BY <2>1, <2>3, <2>4 DEF Consistent, Held, Holds, HasBill
  <2>9. QED
    BY <2>5, <2>6, <2>7, <2>8 DEF Consistent, Held
<1>2. CASE UploadCommit(r)
  <2> DEFINE d == slot[r].doc
  <2>1. /\ slot[r].pc = "saving" /\ d \in file \ doc /\ d \in Document
        /\ \A q \in Request \ {r} : slot[q].doc # d
        /\ d \in known
    BY <1>2 DEF UploadCommit, Consistent, Held, Holds, TypeOK
  <2>2. /\ slot'[r] = Idle
        /\ \A q \in Request \ {r} : slot'[q] = slot[q]
    BY <1>2 DEF UploadCommit, End, TypeOK
  <2>3. doc' = doc \cup {d} /\ UNCHANGED <<file, bill, forecast, known, stray>>
    BY <1>2 DEF UploadCommit, ghosts
  <2>4. (doc \subseteq known /\ RowsAreRooted /\ DocumentHasFile)'
    BY <2>1, <2>3 DEF Consistent, RowsAreRooted, DocumentHasFile, HasBill
  <2>5. StrayFilesAreExplained'
    BY <2>1, <2>2, <2>3 DEF Consistent, StrayFilesAreExplained, Running
  <2>6. Holds(r)'
    BY <2>2, DocumentAssumption DEF Holds, Idle
  <2>7. ASSUME NEW q \in Request \ {r}
        PROVE  Holds(q)'
    BY <2>1, <2>2, <2>3, DocumentAssumption DEF Consistent, Held, Holds, HasBill, Idle, TypeOK
  <2>8. QED
    BY <2>4, <2>5, <2>6, <2>7 DEF Consistent, Held
<1>3. CASE UploadFail(r)
  <2> DEFINE d == slot[r].doc
  <2>1. /\ slot[r].pc = "saving" /\ d \in file \ doc
        /\ \A q \in Request \ {r} : slot[q].doc # d
    BY <1>3 DEF UploadFail, Consistent, Held, Holds
  <2>2. /\ slot'[r] = Idle
        /\ \A q \in Request \ {r} : slot'[q] = slot[q]
    BY <1>3 DEF UploadFail, End, TypeOK
  <2>3. file' = file \ {d} /\ UNCHANGED <<doc, bill, forecast, known, stray>>
    BY <1>3 DEF UploadFail, ghosts
  <2>4. (doc \subseteq known /\ RowsAreRooted /\ DocumentHasFile)'
    BY <2>1, <2>3 DEF Consistent, RowsAreRooted, DocumentHasFile, HasBill
  <2>5. StrayFilesAreExplained'
    BY <2>2, <2>3 DEF Consistent, StrayFilesAreExplained, Running
  <2>6. Holds(r)'
    BY <2>2, DocumentAssumption DEF Holds, Idle
  <2>7. ASSUME NEW q \in Request \ {r}
        PROVE  Holds(q)'
    BY <2>1, <2>2, <2>3, DocumentAssumption DEF Consistent, Held, Holds, HasBill, Idle, TypeOK
  <2>8. QED
    BY <2>4, <2>5, <2>6, <2>7 DEF Consistent, Held
<1>4. QED
  BY <1>1, <1>2, <1>3

\* An extraction writes the bill of a document that nothing has deleted.
LEMMA ExtractCommitKeeps ==
  ASSUME Inv, TypeOK', NEW r \in Request, ExtractCommit(r)
  PROVE  Consistent'
<1> USE DEF Inv
<1> DEFINE s == slot[r]
           d == s.doc
           new == NewBatch(d \in WithHistory)
<1>1. /\ s.pc = "extracting" /\ s \in Slot /\ d \in Document /\ d \in doc
      /\ s.bill # NoBill <=> HasBill(d)
  BY DEF ExtractCommit, Consistent, Held, Holds, TypeOK
<1>2. new \in SUBSET Batch
  BY BoundAssumption DEF ExtractCommit, NewBatch, CanInsert, Batch, TypeOK
<1>3. Written(s, "pending", "read", new) # NoBill
  BY <1>1, <1>2, WrittenType DEF Figure
<1>4. /\ bill'[d] # NoBill
      /\ \A e \in Document \ {d} : bill'[e] = bill[e]
  BY <1>1, <1>3 DEF ExtractCommit, TypeOK
<1>5. \A e \in Document : forecast'[e] \subseteq forecast[e]
  BY <1>1 DEF ExtractCommit, TypeOK
<1>6. /\ slot'[r] = Idle
      /\ \A q \in Request \ {r} : slot'[q] = slot[q]
      /\ UNCHANGED <<file, doc, known, stray>>
  BY DEF ExtractCommit, End, TypeOK
<1>7. (doc \subseteq known /\ RowsAreRooted /\ DocumentHasFile)'
  BY <1>1, <1>4, <1>5, <1>6 DEF Consistent, RowsAreRooted, DocumentHasFile, HasBill
<1>8. StrayFilesAreExplained'
  BY <1>1, <1>6 DEF Consistent, StrayFilesAreExplained, Running
<1>9. Holds(r)'
  BY <1>6, DocumentAssumption DEF Holds, Idle
<1>10. ASSUME NEW q \in Request \ {r}
       PROVE  Holds(q)'
  <2>1. Holds(q) /\ slot'[q] = slot[q] /\ Holds(r)
    BY <1>6 DEF Consistent, Held
  <2>2. ASSUME slot[q].pc = "extracting"
        PROVE  slot[q].bill # NoBill <=> bill'[slot[q].doc] # NoBill
    <3>1. CASE slot[q].doc = d
      BY <1>1, <1>4, <2>1, <2>2, <3>1 DEF Holds, HasBill
    <3>2. CASE slot[q].doc # d
      BY <1>4, <2>1, <2>2, <3>2 DEF Holds, HasBill, TypeOK
    <3>3. QED
      BY <3>1, <3>2
  <2>3. slot[q].pc = "saving" => slot[q].doc # None
    BY <2>1, DocumentAssumption DEF Holds, TypeOK
  <2>4. QED
    BY <1>6, <2>1, <2>2, <2>3 DEF Holds, HasBill, Idle
<1>11. QED
  BY <1>7, <1>8, <1>9, <1>10 DEF Consistent, Held

\* A deletion removes the rows together and the file after them.
LEMMA DeleteKeeps ==
  ASSUME Inv, TypeOK', NEW r \in Request, DeleteCommit(r) \/ Unlink(r) \/ UnlinkFail(r)
  PROVE  Consistent'
<1> USE DEF Inv
<1> DEFINE d == slot[r].doc
<1>1. CASE DeleteCommit(r)
  <2>1. /\ slot[r].pc = "deleting" /\ d \in Document
        /\ slot'[r].pc = "unlinking" /\ slot'[r].doc = d
        /\ \A q \in Request \ {r} : slot'[q] = slot[q]
    BY <1>1 DEF DeleteCommit, TypeOK, Idle, Slot
  <2>2. /\ doc' = doc \ {d} /\ UNCHANGED <<file, known, stray>>
        /\ bill' = [bill EXCEPT ![d] = NoBill]
        /\ forecast' = [forecast EXCEPT ![d] = {}]
        /\ \A q \in Running(d) : slot[q].pc # "extracting"
    BY <1>1 DEF DeleteCommit, ghosts
  <2>3. (doc \subseteq known /\ RowsAreRooted /\ DocumentHasFile)'
    BY <2>1, <2>2 DEF Consistent, RowsAreRooted, DocumentHasFile, HasBill, TypeOK
  <2>4. StrayFilesAreExplained'
    BY <2>1, <2>2 DEF Consistent, StrayFilesAreExplained, Running
  <2>5. Holds(r)'
    BY <2>1, <2>2 DEF Consistent, Held, Holds
  <2>6. ASSUME NEW q \in Request \ {r}
        PROVE  Holds(q)'
    <3>1. Holds(q) /\ slot'[q] = slot[q]
      BY <2>1 DEF Consistent, Held
    <3>2. slot[q].pc = "extracting" => slot[q].doc # d /\ bill'[slot[q].doc] = bill[slot[q].doc]
      BY <2>2, <3>1 DEF Running, Holds, TypeOK
    <3>3. QED
      BY <2>1, <2>2, <3>1, <3>2 DEF Holds, HasBill
  <2>7. QED
    BY <2>3, <2>4, <2>5, <2>6 DEF Consistent, Held
<1>2. CASE Unlink(r) \/ UnlinkFail(r)
  <2>1. /\ slot[r].pc = "unlinking" /\ d \notin doc
        /\ slot'[r] = Idle
        /\ \A q \in Request \ {r} : slot'[q] = slot[q]
        /\ UNCHANGED <<doc, bill, forecast, known>>
    BY <1>2 DEF Unlink, UnlinkFail, End, TypeOK, Consistent, Held, Holds, ghosts
  <2>2. \/ file' = file \ {d} /\ stray' = stray
        \/ file' = file /\ stray' = stray \cup {d}
    BY <1>2 DEF Unlink, UnlinkFail
  <2>3. (doc \subseteq known /\ RowsAreRooted /\ DocumentHasFile)'
    BY <2>1, <2>2 DEF Consistent, RowsAreRooted, DocumentHasFile, HasBill
  <2>4. StrayFilesAreExplained'
    BY <2>1, <2>2 DEF Consistent, StrayFilesAreExplained, Running
  <2>5. Holds(r)'
    BY <2>1, DocumentAssumption DEF Holds, Idle
  <2>6. ASSUME NEW q \in Request \ {r}
        PROVE  Holds(q)'
    <3>1. Holds(q) /\ slot'[q] = slot[q]
      BY <2>1 DEF Consistent, Held
    <3>2. slot[q].pc = "saving" => slot[q].doc # d /\ slot[q].doc # None
      BY <3>1, DocumentAssumption DEF Holds, TypeOK
    <3>3. QED
      BY <2>1, <2>2, <3>1, <3>2 DEF Holds, HasBill, Idle
  <2>7. QED
    BY <2>3, <2>4, <2>5, <2>6 DEF Consistent, Held
<1>3. QED
  BY <1>1, <1>2

\* The process dies.
LEMMA CrashKeeps ==
  ASSUME Inv, TypeOK', Crash
  PROVE  Consistent'
<1> USE DEF Inv
<1>1. /\ \A r \in Request : slot'[r] = Idle
      /\ UNCHANGED <<file, doc, bill, forecast, known>>
      /\ stray' = stray \cup {d \in file : \E r \in Running(d) : slot[r].pc \in {"saving", "unlinking"}}
  BY DEF Crash, ghosts
<1>2. (doc \subseteq known /\ RowsAreRooted /\ DocumentHasFile)'
  BY <1>1 DEF Consistent, RowsAreRooted, DocumentHasFile, HasBill
<1>3. StrayFilesAreExplained'
  BY <1>1 DEF Consistent, StrayFilesAreExplained
<1>4. Held'
  BY <1>1, DocumentAssumption DEF Held, Holds, Idle
<1>5. QED
  BY <1>2, <1>3, <1>4 DEF Consistent

\* Every step keeps rows, files and requests consistent.
LEMMA StepKeeps ==
  ASSUME Inv, TypeOK', [Next]_vars
  PROVE  Consistent'
<1> USE DEF Inv
<1>1. \A d \in Document : HasBill(d) => d \in doc
  BY DEF Consistent, RowsAreRooted
<1>2. \A d \in Document : forecast[d] # {} => HasBill(d)
  BY DEF Consistent, RowsAreRooted
<1>3. slot \in [Request -> Slot] /\ bill \in [Document -> Row \cup {NoBill}]
  BY DEF TypeOK
<1>4. ASSUME NEW r \in Request, NEW d \in Document, ExtractRead(r, d)
      PROVE  Consistent'
  <2> DEFINE s == [Idle EXCEPT !.pc = "extracting", !.doc = d,
                               !.bill = bill[d], !.forecast = forecast[d]]
  <2>1. s \in Slot /\ s.doc = d /\ s.pc = "extracting" /\ s.bill = bill[d]
    BY SlotTypes DEF Slot, Idle, TypeOK
  <2>2. Begin(r, s) /\ d \in doc /\ UNCHANGED <<file, doc, bill, forecast, known, stray>>
    BY <1>4 DEF ExtractRead, ghosts
  <2>3. HasBill(d) \/ \A q \in Running(d) : slot[q].pc # "extracting"
    BY <1>4 DEF ExtractRead
  <2> HIDE DEF s
  <2>4. QED
    BY <2>1, <2>2, <2>3, BeginKeeps
<1>5. ASSUME NEW r \in Request, NEW d \in Document, ConfirmRead(r, d)
      PROVE  Consistent'
  <2> DEFINE s == [Idle EXCEPT !.pc = "confirming", !.doc = d,
                               !.bill = bill[d], !.forecast = forecast[d]]
  <2>1. s \in Slot /\ s.doc = d /\ s.pc = "confirming"
    BY SlotTypes DEF Slot, Idle, TypeOK
  <2>2. Begin(r, s) /\ d \in doc /\ UNCHANGED <<file, doc, bill, forecast, known, stray>>
    BY <1>1, <1>5 DEF ConfirmRead, ghosts
  <2> HIDE DEF s
  <2>3. QED
    BY <2>1, <2>2, BeginKeeps
<1>6. ASSUME NEW r \in Request, NEW d \in Document, GetRead(r, d)
      PROVE  Consistent'
  <2> DEFINE s == [Idle EXCEPT !.pc = "reading", !.doc = d, !.series = Series(d, bill[d])]
  <2>1. bill[d] \in Row /\ HasBill(d)
    BY <1>3, <1>6, NoBillIsNoRow DEF GetRead, HasBill
  <2>2. Series(d, bill[d]) \in SeriesSet
    BY <2>1, SeriesType
  <2>3. s \in Slot /\ s.doc = d /\ s.pc = "reading"
    BY <2>2, SlotTypes DEF Slot, Idle
  <2>4. Begin(r, s) /\ d \in doc /\ UNCHANGED <<file, doc, bill, forecast, known, stray>>
    BY <1>1, <1>6, <2>1 DEF GetRead, ghosts
  <2> HIDE DEF s
  <2>5. QED
    BY <2>3, <2>4, BeginKeeps
<1>7. ASSUME NEW r \in Request, NEW d \in Document, DeleteRead(r, d)
      PROVE  Consistent'
  <2> DEFINE s == [Idle EXCEPT !.pc = "deleting", !.doc = d]
  <2>1. s \in Slot /\ s.doc = d /\ s.pc = "deleting"
    BY SlotTypes DEF Slot, Idle
  <2>2. Begin(r, s) /\ d \in doc /\ UNCHANGED <<file, doc, bill, forecast, known, stray>>
    BY <1>1, <1>7 DEF DeleteRead, ghosts
  <2> HIDE DEF s
  <2>3. QED
    BY <2>1, <2>2, BeginKeeps
<1>8. ASSUME NEW r \in Request, NEW m \in Figure, NEW some \in BOOLEAN,
             ConfirmCommit(r, m, some)
      PROVE  Consistent'
  <2> DEFINE s == slot[r]
             new == NewBatch(some)
  <2>1. s \in Slot /\ s.doc \in Document /\ HasBill(s.doc) /\ s.pc = "confirming"
    BY <1>3, <1>8 DEF ConfirmCommit, TypeOK, Idle
  <2>2. new \in SUBSET Batch
    BY <1>8, BoundAssumption DEF ConfirmCommit, NewBatch, CanInsert, Batch, TypeOK
  <2>3. Written(s, "confirmed", m, new) # NoBill
    BY <2>1, <2>2, WrittenType
  <2>4. bill' = [bill EXCEPT ![s.doc] = Written(s, "confirmed", m, new)]
    BY <1>8 DEF ConfirmCommit
  <2>5. \A d \in Document : bill'[d] # NoBill <=> bill[d] # NoBill
    BY <1>3, <2>1, <2>3, <2>4 DEF HasBill
  <2>6. \A d \in Document : HasBill(d)' <=> HasBill(d)
    BY <2>5 DEF HasBill
  <2>7. \A d \in Document : forecast'[d] # {} => HasBill(d)
    BY <1>2, <1>8, <2>1 DEF ConfirmCommit, TypeOK
  <2>8. /\ \A q \in Request \ {r} : slot'[q] = slot[q]
        /\ slot'[r].doc = s.doc /\ slot'[r].pc = "refreshing"
    BY <1>3, <1>8 DEF ConfirmCommit, Slot
  <2>9. UNCHANGED <<file, doc, known, stray>>
    BY <1>8 DEF ConfirmCommit
  <2>10. QED
    BY <2>1, <2>6, <2>7, <2>8, <2>9, MoveKeeps
<1>9. ASSUME NEW r \in Request, RefreshRead(r) \/ GetServe(r) \/ Replace(r)
      PROVE  Consistent'
  <2>1. slot[r].pc \in {"refreshing", "reading", "deriving"}
    BY <1>9 DEF RefreshRead, GetServe, Replace
  <2>2. /\ \A q \in Request \ {r} : slot'[q] = slot[q]
        /\ slot'[r].doc = slot[r].doc
        /\ slot'[r].pc \in {"deriving", "serving", "replacing"}
    BY <1>3, <1>9 DEF RefreshRead, GetServe, Replace, Slot
  <2>3. UNCHANGED <<file, doc, bill, forecast, known, stray>>
    BY <1>9 DEF RefreshRead, GetServe, Replace, ghosts
  <2>4. \A d \in Document : HasBill(d)' <=> HasBill(d)
    BY <2>3 DEF HasBill
  <2>5. QED
    BY <1>2, <2>1, <2>2, <2>3, <2>4, MoveKeeps
<1>10. ASSUME NEW r \in Request, ReplaceCommit(r)
       PROVE  Consistent'
  <2> DEFINE d == slot[r].doc
  <2>1. slot[r].pc = "replacing" /\ HasBill(d) /\ d \in Document
    BY <1>3, <1>10 DEF ReplaceCommit, TypeOK, Idle
  <2>2. /\ \A q \in Request \ {r} : slot'[q] = slot[q]
        /\ slot'[r] = Idle
    BY <1>3, <1>10 DEF ReplaceCommit, End
  <2>3. UNCHANGED <<file, doc, bill, known, stray>>
    BY <1>10 DEF ReplaceCommit
  <2>4. \A e \in Document : HasBill(e)' <=> HasBill(e)
    BY <2>3 DEF HasBill
  <2>5. \A e \in Document : forecast'[e] # {} => HasBill(e)
    BY <1>2, <1>10, <2>1 DEF ReplaceCommit, TypeOK
  <2>6. QED
    BY <2>1, <2>2, <2>3, <2>4, <2>5, MoveKeeps DEF Idle
<1>11. ASSUME NEW r \in Request, Leave(r)
       PROVE  Consistent'
  <2>1. slot[r].pc \notin {"saving", "unlinking"}
    BY <1>11 DEF Leave
  <2>2. /\ \A q \in Request \ {r} : slot'[q] = slot[q]
        /\ slot'[r] = Idle
    BY <1>3, <1>11 DEF Leave, End
  <2>3. UNCHANGED <<file, doc, bill, forecast, known, stray>>
    BY <1>11 DEF Leave, ghosts
  <2>4. \A d \in Document : HasBill(d)' <=> HasBill(d)
    BY <2>3 DEF HasBill
  <2>5. QED
    BY <1>2, <2>1, <2>2, <2>3, <2>4, MoveKeeps DEF Idle
<1>12. CASE UNCHANGED vars
  BY <1>12 DEF vars, Consistent, RowsAreRooted, DocumentHasFile, StrayFilesAreExplained,
               Held, Holds, HasBill, Running
<1>13. QED
  BY <1>4, <1>5, <1>6, <1>7, <1>8, <1>9, <1>10, <1>11, <1>12,
     UploadKeeps, ExtractCommitKeeps, DeleteKeeps, CrashKeeps DEF Next

\* The initial states.
LEMMA InitInv == Init => Inv
<1> SUFFICES ASSUME Init PROVE Inv
  OBVIOUS
<1>1. TypeOK
  BY SlotTypes, BoundAssumption DEF Init, TypeOK, Idle
<1>2. RowsAreRooted /\ doc \subseteq known /\ DocumentHasFile /\ StrayFilesAreExplained
  BY DEF Init, RowsAreRooted, HasBill, DocumentHasFile, StrayFilesAreExplained
<1>3. Held
  BY DocumentAssumption DEF Init, Held, Holds, Idle
<1>4. QED
  BY <1>1, <1>2, <1>3 DEF Inv, Consistent

\* The invariant is inductive.
LEMMA Invariance == Spec => []Inv
<1>1. Inv /\ [Next]_vars => Inv'
  <2> SUFFICES ASSUME Inv, [Next]_vars PROVE Inv'
    OBVIOUS
  <2>1. TypeOK'
    BY TypesKept DEF Inv, Consistent
  <2>2. QED
    BY <2>1, StepKeeps DEF Inv
<1>2. QED
  BY <1>1, InitInv, PTL DEF Spec

-----------------------------------------------------------------------------
(* The theorems.                                                           *)

\* Every variable keeps its type: in particular whatever mixture of columns
\* two overlapping requests leave of a bill is a bill, or no bill
\* (bill_extraction_service.py:134-209; bill_review_service.py:37-62).
THEOREM TypeCorrect == Spec => []TypeOK
BY Invariance, PTL DEF Inv

\* However many requests race with a deletion, and wherever they are cut off,
\* a bill has its document and a forecast its bill
\* (management_service.py:41-42; service.py:150-152; utility_bill.py:32-38).
THEOREM RowsCorrect == Spec => []RowsAreRooted
<1>1. Inv => RowsAreRooted
  BY DEF Inv, Consistent
<1>2. QED
  BY <1>1, Invariance, PTL

\* A document with a row has its file, in every interleaving of uploads,
\* extractions and deletions and across crashes
\* (upload_service.py:77-102; management_service.py:40-45).
THEOREM FileCorrect == Spec => []DocumentHasFile
<1>1. Inv => DocumentHasFile
  BY DEF Inv, Consistent
<1>2. QED
  BY <1>1, Invariance, PTL

\* A file without a row is one a running upload or deletion accounts for, or
\* one that a failed unlink or a crash left
\* (upload_service.py:98-102; management_service.py:44-50).
THEOREM StrayCorrect == Spec => []StrayFilesAreExplained
<1>1. Inv => StrayFilesAreExplained
  BY DEF Inv, Consistent
<1>2. QED
  BY <1>1, Invariance, PTL

\* An extraction that found no bill still finds none when it inserts one: the
\* unique document_id never refuses it
\* (bill_extraction_service.py:69-70, 125-128; utility_bill.py:33-38).
THEOREM FirstExtractionCorrect == Spec => []FirstExtractionIsExclusive
<1>1. Inv => FirstExtractionIsExclusive
  BY DEF Inv, Consistent, Held, Holds, FirstExtractionIsExclusive
<1>2. QED
  BY <1>1, Invariance, PTL

-----------------------------------------------------------------------------
(* What is shown as long as the requests for a document do not overlap.    *)

\* A confirmed bill b shows the figures v that were reviewed; its forecast F
\* is one at most and of these figures; a bill that waits for review has none.
Agrees(d, b, F, v) ==
  /\ b.status = "confirmed" => /\ Figures(b) = v
                               /\ \A f \in F : f.of[d] = Figures(b)
  /\ b.status = "pending" => F = {}
  /\ \A f, g \in F : f = g

\* What the request s on d has loaded is what is there.
Loaded(d, s, b, F) ==
  /\ s.pc \in {"extracting", "confirming", "refreshing"} => s.bill = b
  /\ s.pc \in {"extracting", "confirming", "replacing"} => s.forecast = F
  /\ s.pc \in {"reading", "deriving", "serving", "replacing"} =>
       b.status = "confirmed" /\ s.series[d] = Figures(b)

\* A document whose requests came one after the other.
Serial(d) ==
  /\ \A q, r \in Running(d) : q = r
  /\ Agrees(d, bill[d], forecast[d], reviewed[d])
  /\ \A r \in Running(d) : Loaded(d, slot[r], bill[d], forecast[d])

\* The strengthening of the three properties.
SerialInv == \A d \in Document \ overlapped : Serial(d)

\* A step that changes nothing of d and gives it no request.
LEMMA OtherStep ==
  ASSUME NEW d \in Document, Serial(d),
         bill'[d] = bill[d], forecast'[d] = forecast[d], reviewed'[d] = reviewed[d],
         \A r \in Request : slot'[r].doc = d => slot'[r] = slot[r]
  PROVE  Serial(d)'
<1>1. Running(d)' \subseteq Running(d) /\ \A r \in Running(d)' : slot'[r] = slot[r]
  BY DEF Running
<1>2. QED
  BY <1>1 DEF Serial

\* A step of the only request on d.
LEMMA OwnStep ==
  ASSUME TypeOK, NEW d \in Document, NEW r \in Request, NEW x,
         slot' = [slot EXCEPT ![r] = x],
         \A q \in Running(d) : q = r,
         Agrees(d, bill'[d], forecast'[d], reviewed'[d]),
         Loaded(d, x, bill'[d], forecast'[d])
  PROVE  Serial(d)'
<1>1. slot'[r] = x /\ \A q \in Running(d)' : q = r
  BY DEF Running, TypeOK
<1>2. QED
  BY <1>1 DEF Serial

\* A request begins on d, alone or on another document.
LEMMA SerialBegin ==
  ASSUME TypeOK, SerialInv, NEW d \in Document \ overlapped',
         NEW r \in Request, NEW s, Begin(r, s), s.doc \in Document,
         UNCHANGED <<bill, forecast, reviewed>>,
         s.doc = d => Loaded(d, s, bill[d], forecast[d])
  PROVE  Serial(d)'
<1>1. d \notin overlapped /\ slot' = [slot EXCEPT ![r] = s]
  BY DEF Begin
<1>2. Serial(d)
  BY <1>1 DEF SerialInv
<1>3. CASE s.doc = d
  <2>1. Running(d) = {}
    BY <1>3 DEF Begin
  <2>2. QED
    BY <1>1, <1>2, <1>3, <2>1, OwnStep DEF Serial
<1>4. CASE s.doc # d
  <2>1. \A q \in Request : slot'[q].doc = d => slot'[q] = slot[q]
    BY <1>1, <1>4 DEF TypeOK
  <2>2. QED
    BY <1>2, <2>1, OtherStep
<1>5. QED
  BY <1>3, <1>4

\* A request on e goes on or ends: only e may change.
LEMMA SerialMove ==
  ASSUME TypeOK, SerialInv, UNCHANGED overlapped, NEW d \in Document \ overlapped',
         NEW r \in Request, NEW x, slot[r].doc \in Document,
         slot' = [slot EXCEPT ![r] = x], x.doc \in {slot[r].doc, None},
         slot[r].doc # d =>
           /\ bill'[d] = bill[d] /\ forecast'[d] = forecast[d] /\ reviewed'[d] = reviewed[d],
         slot[r].doc = d /\ Loaded(d, slot[r], bill[d], forecast[d])
             /\ Agrees(d, bill[d], forecast[d], reviewed[d]) =>
           /\ Agrees(d, bill'[d], forecast'[d], reviewed'[d])
           /\ Loaded(d, x, bill'[d], forecast'[d])
  PROVE  Serial(d)'
<1>1. Serial(d)
  BY DEF SerialInv
<1>2. CASE slot[r].doc = d
  <2>1. r \in Running(d)
    BY <1>2 DEF Running
  <2>2. \A q \in Running(d) : q = r
    BY <1>1, <2>1 DEF Serial
  <2>3. Loaded(d, slot[r], bill[d], forecast[d]) /\ Agrees(d, bill[d], forecast[d], reviewed[d])
    BY <1>1, <2>1 DEF Serial
  <2>4. QED
    BY <1>2, <2>2, <2>3, OwnStep
<1>3. CASE slot[r].doc # d
  <2>1. x.doc # d
    BY <1>3, DocumentAssumption
  <2>2. \A q \in Request : slot'[q].doc = d => slot'[q] = slot[q]
    BY <2>1 DEF TypeOK
  <2>3. QED
    BY <1>1, <1>3, <2>2, OtherStep
<1>4. QED
  BY <1>2, <1>3

\* A request that is running has a document.
LEMMA Working ==
  ASSUME TypeOK, NEW r \in Request, slot[r].pc # "idle"
  PROVE  slot[r].doc \in Document
  BY DEF TypeOK, Slot, Idle

\* What a request that loaded the bill as it is now writes, is what it wants.
LEMMA WrittenAlone ==
  ASSUME NEW s, NEW st, NEW m, NEW new, s.bill = bill[s.doc]
  PROVE  Written(s, st, m, new) = [status |-> st, main |-> m, history |-> new]
  BY DEF Written

\* An extraction leaves a bill that waits for review, without forecasts.
LEMMA SerialExtract ==
  ASSUME TypeOK, SerialInv, NEW d \in Document \ overlapped',
         NEW r \in Request, ExtractCommit(r)
  PROVE  Serial(d)'
<1> DEFINE s == slot[r]
           new == NewBatch(s.doc \in WithHistory)
<1>1. s.doc \in Document /\ s.pc = "extracting"
  BY Working DEF ExtractCommit
<1>2. /\ bill' = [bill EXCEPT ![s.doc] = Written(s, "pending", "read", new)]
      /\ forecast' = [forecast EXCEPT ![s.doc] = forecast[s.doc] \ s.forecast]
      /\ slot' = [slot EXCEPT ![r] = Idle]
      /\ UNCHANGED <<reviewed, overlapped>>
  BY <1>1 DEF ExtractCommit, End, TypeOK
<1> HIDE DEF new
<1>3. ASSUME s.doc = d, Loaded(d, s, bill[d], forecast[d])
      PROVE  /\ Agrees(d, bill'[d], forecast'[d], reviewed'[d])
             /\ Loaded(d, Idle, bill'[d], forecast'[d])
  <2>1. s.bill = bill[s.doc] /\ s.forecast = forecast[d]
    BY <1>1, <1>3 DEF Loaded
  <2>2. bill'[d].status = "pending"
    BY <1>2, <1>3, <2>1, WrittenAlone DEF TypeOK
  <2>3. forecast'[d] = {}
    BY <1>2, <1>3, <2>1 DEF TypeOK
  <2>4. QED
    BY <2>2, <2>3 DEF Agrees, Loaded, Idle
<1>4. s.doc # d => bill'[d] = bill[d] /\ forecast'[d] = forecast[d] /\ reviewed'[d] = reviewed[d]
  BY <1>2 DEF TypeOK
<1>5. Idle.doc = None
  BY DEF Idle
<1>6. QED
  BY <1>1, <1>2, <1>3, <1>4, <1>5, SerialMove

\* A confirmation leaves a bill that shows what was sent, without forecasts.
LEMMA SerialConfirm ==
  ASSUME TypeOK, SerialInv, NEW d \in Document \ overlapped',
         NEW r \in Request, NEW m \in Figure, NEW some \in BOOLEAN, ConfirmCommit(r, m, some)
  PROVE  Serial(d)'
<1> DEFINE s == slot[r]
           new == NewBatch(some)
           w == Written(s, "confirmed", m, new)
           x == [s EXCEPT !.pc = "refreshing", !.bill = w, !.forecast = {}]
<1>1. s.doc \in Document /\ s.pc = "confirming"
  BY Working DEF ConfirmCommit
<1>2. /\ bill' = [bill EXCEPT ![s.doc] = w]
      /\ forecast' = [forecast EXCEPT ![s.doc] = forecast[s.doc] \ s.forecast]
      /\ reviewed' = [reviewed EXCEPT ![s.doc] = [main |-> m, history |-> new]]
      /\ UNCHANGED overlapped
  BY <1>1 DEF ConfirmCommit, TypeOK
<1>3. bill'[s.doc] = w
  BY <1>1, <1>2 DEF TypeOK
<1>4. slot' = [slot EXCEPT ![r] = x]
  BY <1>3 DEF ConfirmCommit
<1>5. s \in Slot
  BY DEF TypeOK
<1>6. x.doc = s.doc /\ x.pc = "refreshing" /\ x.bill = w /\ x.forecast = {}
  BY <1>5 DEF Slot
<1> HIDE DEF new, x, w
<1>7. ASSUME s.doc = d, Loaded(d, s, bill[d], forecast[d])
      PROVE  /\ Agrees(d, bill'[d], forecast'[d], reviewed'[d])
             /\ Loaded(d, x, bill'[d], forecast'[d])
  <2>1. s.bill = bill[s.doc] /\ s.forecast = forecast[d]
    BY <1>1, <1>7 DEF Loaded
  <2>2. w = [status |-> "confirmed", main |-> m, history |-> new]
    BY <2>1, WrittenAlone DEF w
  <2>3. bill'[d] = w /\ forecast'[d] = {} /\ reviewed'[d] = Figures(w)
    BY <1>2, <1>3, <1>7, <2>1, <2>2 DEF TypeOK, Figures
  <2>4. QED
    BY <1>6, <2>2, <2>3 DEF Agrees, Loaded
<1>8. s.doc # d => bill'[d] = bill[d] /\ forecast'[d] = forecast[d] /\ reviewed'[d] = reviewed[d]
  BY <1>2 DEF TypeOK
<1>9. QED
  BY <1>1, <1>2, <1>4, <1>6, <1>7, <1>8, SerialMove

\* The figures of a document in the series that is resolved for it.
LEMMA OwnFigures ==
  ASSUME NEW d, NEW target
  PROVE  Series(d, target)[d] = Figures(target)
  BY DEF Series

\* The second transaction of a confirmation resolves the series of the bill.
LEMMA SerialRefresh ==
  ASSUME TypeOK, SerialInv, NEW d \in Document \ overlapped',
         NEW r \in Request, RefreshRead(r)
  PROVE  Serial(d)'
<1> DEFINE s == slot[r]
           series == Series(s.doc, [s.bill EXCEPT !.history = bill[s.doc].history])
           x == [s EXCEPT !.pc = "deriving", !.series = series]
<1>1. /\ s.doc \in Document /\ s.pc = "refreshing" /\ s \in Slot
      /\ s.bill.status = "confirmed"
  BY Working DEF RefreshRead, TypeOK
<1>2. slot' = [slot EXCEPT ![r] = x] /\ UNCHANGED <<bill, forecast, reviewed, overlapped>>
  BY DEF RefreshRead, ghosts
<1>3. x.doc = s.doc /\ x.pc = "deriving" /\ x.series = series
  BY <1>1 DEF Slot
<1>4. s.bill \in Row
  BY <1>1, NoBillIsNoRow DEF Slot
<1> HIDE DEF x
<1>5. ASSUME s.doc = d, Loaded(d, s, bill[d], forecast[d])
      PROVE  Loaded(d, x, bill[d], forecast[d])
  <2>1. s.bill = bill[d]
    BY <1>1, <1>5 DEF Loaded
  <2>2. series[d] = Figures([s.bill EXCEPT !.history = bill[d].history])
    BY <1>5, OwnFigures
  <2>3. Figures([s.bill EXCEPT !.history = bill[d].history]) = Figures(bill[d])
    BY <1>4, <2>1 DEF Figures, Row
  <2>4. QED
    BY <1>1, <1>3, <2>1, <2>2, <2>3 DEF Loaded
<1>6. QED
  BY <1>1, <1>2, <1>3, <1>5, SerialMove

\* A request finds the forecast and serves it, or deletes it to replace it.
LEMMA SerialFound ==
  ASSUME TypeOK, SerialInv, NEW d \in Document \ overlapped',
         NEW r \in Request, GetServe(r) \/ Replace(r)
  PROVE  Serial(d)'
<1> DEFINE s == slot[r]
<1>1. PICK pc \in {"serving", "replacing"} :
        /\ slot' = [slot EXCEPT ![r] = [s EXCEPT !.pc = pc, !.forecast = forecast[s.doc]]]
        /\ s.pc \in {"reading", "deriving"}
        /\ UNCHANGED <<bill, forecast, reviewed, overlapped>>
  BY DEF GetServe, Replace, ghosts
<1> DEFINE x == [s EXCEPT !.pc = pc, !.forecast = forecast[s.doc]]
<1>2. s.doc \in Document /\ s \in Slot
  BY <1>1, Working DEF TypeOK
<1>3. x.doc = s.doc /\ x.pc = pc /\ x.series = s.series /\ x.forecast = forecast[s.doc]
  BY <1>2 DEF Slot
<1>4. slot' = [slot EXCEPT ![r] = x]
  BY <1>1
<1> HIDE DEF x
<1>5. ASSUME s.doc = d, Loaded(d, s, bill[d], forecast[d])
      PROVE  Loaded(d, x, bill[d], forecast[d])
  BY <1>1, <1>3, <1>5 DEF Loaded
<1>6. QED
  BY <1>1, <1>2, <1>3, <1>4, <1>5, SerialMove

\* The new forecast is the only one, and of the figures the bill shows.
LEMMA SerialReplace ==
  ASSUME TypeOK, SerialInv, NEW d \in Document \ overlapped',
         NEW r \in Request, ReplaceCommit(r)
  PROVE  Serial(d)'
<1> DEFINE s == slot[r]
           f == [id |-> batches + 1, of |-> s.series]
<1>1. s.doc \in Document /\ s.pc = "replacing"
  BY Working DEF ReplaceCommit
<1>2. /\ forecast' = [forecast EXCEPT ![s.doc] = (forecast[s.doc] \ s.forecast) \cup {f}]
      /\ slot' = [slot EXCEPT ![r] = Idle]
      /\ UNCHANGED <<bill, reviewed, overlapped>>
  BY <1>1 DEF ReplaceCommit, End, TypeOK
<1>3. ASSUME s.doc = d, Loaded(d, s, bill[d], forecast[d]),
             Agrees(d, bill[d], forecast[d], reviewed[d])
      PROVE  /\ Agrees(d, bill[d], forecast'[d], reviewed[d])
             /\ Loaded(d, Idle, bill[d], forecast'[d])
  <2>1. /\ s.forecast = forecast[d] /\ bill[d].status = "confirmed"
        /\ s.series[d] = Figures(bill[d])
    BY <1>1, <1>3 DEF Loaded
  <2>2. forecast'[d] = {f}
    BY <1>2, <1>3, <2>1 DEF TypeOK
  <2>3. f.of[d] = Figures(bill[d])
    BY <2>1
  <2> HIDE DEF f
  <2>4. QED
    BY <1>3, <2>1, <2>2, <2>3 DEF Agrees, Loaded, Idle
<1>4. s.doc # d => forecast'[d] = forecast[d]
  BY <1>2 DEF TypeOK
<1>5. Idle.doc = None
  BY DEF Idle
<1>6. QED
  BY <1>1, <1>2, <1>3, <1>4, <1>5, SerialMove

\* A deletion leaves no bill and no forecast.
LEMMA SerialDelete ==
  ASSUME TypeOK, SerialInv, NEW d \in Document \ overlapped',
         NEW r \in Request, DeleteCommit(r)
  PROVE  Serial(d)'
<1> DEFINE s == slot[r]
           x == [s EXCEPT !.pc = "unlinking"]
<1>1. s.doc \in Document /\ s \in Slot
  BY Working DEF DeleteCommit, TypeOK
<1>2. /\ bill' = [bill EXCEPT ![s.doc] = NoBill]
      /\ forecast' = [forecast EXCEPT ![s.doc] = {}]
      /\ slot' = [slot EXCEPT ![r] = x]
      /\ UNCHANGED <<reviewed, overlapped>>
  BY DEF DeleteCommit, ghosts
<1>3. x.doc = s.doc /\ x.pc = "unlinking"
  BY <1>1 DEF Slot
<1> HIDE DEF x
<1>4. ASSUME s.doc = d
      PROVE  /\ Agrees(d, bill'[d], forecast'[d], reviewed'[d])
             /\ Loaded(d, x, bill'[d], forecast'[d])
  <2>1. bill'[d].status = "none" /\ forecast'[d] = {}
    BY <1>2, <1>4, NoBillIsNoRow DEF TypeOK
  <2>2. QED
    BY <1>3, <2>1 DEF Agrees, Loaded
<1>5. s.doc # d => bill'[d] = bill[d] /\ forecast'[d] = forecast[d] /\ reviewed'[d] = reviewed[d]
  BY <1>2 DEF TypeOK
<1>6. QED
  BY <1>1, <1>2, <1>3, <1>4, <1>5, SerialMove

\* A request begins: it has loaded what is there.
LEMMA SerialStart ==
  ASSUME TypeOK, SerialInv, NEW d \in Document \ overlapped',
         NEW r \in Request, NEW e \in Document,
         \/ UploadSave(r, e) \/ ExtractRead(r, e) \/ ConfirmRead(r, e)
         \/ GetRead(r, e) \/ DeleteRead(r, e)
  PROVE  Serial(d)'
<1>1. UNCHANGED <<bill, forecast, reviewed>>
  BY DEF UploadSave, ExtractRead, ConfirmRead, GetRead, DeleteRead, ghosts
<1>2. ASSUME NEW pc, Begin(r, [Idle EXCEPT !.pc = pc, !.doc = e]), pc \in {"saving", "deleting"}
      PROVE  Serial(d)'
  <2> DEFINE s == [Idle EXCEPT !.pc = pc, !.doc = e]
  <2>1. s.doc = e /\ s.pc = pc
    BY DEF Idle
  <2>2. Loaded(d, s, bill[d], forecast[d])
    BY <1>2, <2>1 DEF Loaded
  <2>3. Begin(r, s)
    BY <1>2
  <2> HIDE DEF s
  <2>4. QED
    BY <1>1, <2>1, <2>2, <2>3, SerialBegin
<1>3. ASSUME NEW pc \in {"extracting", "confirming"},
             Begin(r, [Idle EXCEPT !.pc = pc, !.doc = e,
                                   !.bill = bill[e], !.forecast = forecast[e]])
      PROVE  Serial(d)'
  <2> DEFINE s == [Idle EXCEPT !.pc = pc, !.doc = e, !.bill = bill[e], !.forecast = forecast[e]]
  <2>1. s.doc = e /\ s.pc = pc /\ s.bill = bill[e] /\ s.forecast = forecast[e]
    BY DEF Idle
  <2>2. e = d => Loaded(d, s, bill[d], forecast[d])
    BY <1>3, <2>1 DEF Loaded
  <2>3. Begin(r, s)
    BY <1>3
  <2> HIDE DEF s
  <2>4. QED
    BY <1>1, <2>1, <2>2, <2>3, SerialBegin
<1>4. CASE GetRead(r, e)
  <2> DEFINE s == [Idle EXCEPT !.pc = "reading", !.doc = e, !.series = Series(e, bill[e])]
  <2>1. s.doc = e /\ s.pc = "reading" /\ s.series = Series(e, bill[e])
    BY DEF Idle
  <2>2. e = d => Loaded(d, s, bill[d], forecast[d])
    BY <1>4, <2>1, OwnFigures DEF Loaded, GetRead
  <2>3. Begin(r, s)
    BY <1>4 DEF GetRead
  <2> HIDE DEF s
  <2>4. QED
    BY <1>1, <2>1, <2>2, <2>3, SerialBegin
<1>5. CASE UploadSave(r, e) \/ DeleteRead(r, e)
  BY <1>2, <1>5 DEF UploadSave, DeleteRead
<1>6. CASE ExtractRead(r, e) \/ ConfirmRead(r, e)
  BY <1>3, <1>6 DEF ExtractRead, ConfirmRead
<1>7. QED
  BY <1>4, <1>5, <1>6

\* Every step keeps SerialInv.
LEMMA SerialKept == TypeOK /\ SerialInv /\ [Next]_vars => SerialInv'
<1> SUFFICES ASSUME TypeOK, SerialInv, [Next]_vars, NEW d \in Document \ overlapped'
             PROVE  Serial(d)'
  BY DEF SerialInv
<1>1. ASSUME UNCHANGED <<bill, forecast, reviewed, overlapped>>,
             \A r \in Request : slot'[r] \in {slot[r], Idle}
      PROVE  Serial(d)'
  <2>1. \A r \in Request : slot'[r].doc = d => slot'[r] = slot[r]
    BY <1>1, DocumentAssumption DEF Idle
  <2>2. Serial(d)
    BY <1>1 DEF SerialInv
  <2>3. QED
    BY <1>1, <2>1, <2>2, OtherStep
<1>2. ASSUME NEW r \in Request, NEW e \in Document,
             \/ UploadSave(r, e) \/ ExtractRead(r, e) \/ ConfirmRead(r, e)
             \/ GetRead(r, e) \/ DeleteRead(r, e)
      PROVE  Serial(d)'
  BY <1>2, SerialStart
<1>3. ASSUME NEW r \in Request,
             UploadCommit(r) \/ UploadFail(r) \/ Unlink(r) \/ UnlinkFail(r) \/ Leave(r)
      PROVE  Serial(d)'
  BY <1>1, <1>3 DEF UploadCommit, UploadFail, Unlink, UnlinkFail, Leave, End, ghosts, TypeOK
<1>4. ASSUME NEW r \in Request, ExtractCommit(r)
      PROVE  Serial(d)'
  BY <1>4, SerialExtract
<1>5. ASSUME NEW r \in Request, NEW m \in Figure, NEW some \in BOOLEAN,
             ConfirmCommit(r, m, some)
      PROVE  Serial(d)'
  BY <1>5, SerialConfirm
<1>6. ASSUME NEW r \in Request, RefreshRead(r)
      PROVE  Serial(d)'
  BY <1>6, SerialRefresh
<1>7. ASSUME NEW r \in Request, GetServe(r) \/ Replace(r)
      PROVE  Serial(d)'
  BY <1>7, SerialFound
<1>8. ASSUME NEW r \in Request, ReplaceCommit(r)
      PROVE  Serial(d)'
  BY <1>8, SerialReplace
<1>9. ASSUME NEW r \in Request, DeleteCommit(r)
      PROVE  Serial(d)'
  BY <1>9, SerialDelete
<1>10. CASE Crash
  BY <1>1, <1>10 DEF Crash, ghosts
<1>11. CASE UNCHANGED vars
  BY <1>1, <1>11 DEF vars
<1>12. QED
  BY <1>2, <1>3, <1>4, <1>5, <1>6, <1>7, <1>8, <1>9, <1>10, <1>11 DEF Next

\* Every execution keeps SerialInv.
LEMMA SerialInvariant == Spec => []SerialInv
<1>1. Init => SerialInv
  <2> SUFFICES ASSUME Init, NEW d \in Document
               PROVE  Serial(d)
    BY DEF SerialInv
  <2>1. Running(d) = {}
    BY DocumentAssumption DEF Init, Running, Idle
  <2>2. bill[d].status = "none" /\ forecast[d] = {}
    BY NoBillIsNoRow DEF Init
  <2>3. QED
    BY <2>1, <2>2 DEF Serial, Agrees
<1>2. QED
  BY <1>1, SerialKept, TypeCorrect, PTL DEF Spec

\* A bill whose requests never overlapped shows what its last reviewer sent, and
\* only that, whatever happens to other bills
\* (bill_review_service.py:37-62; bill_extraction_service.py:109-150).
THEOREM ReviewCorrect == Spec => []ReviewHolds
<1>1. SerialInv => ReviewHolds
  BY DEF SerialInv, Serial, Agrees, ReviewHolds, Confirmed
<1>2. QED
  BY <1>1, SerialInvariant, PTL

\* A bill whose requests never overlapped has no forecast while it waits for its
\* review (bill_extraction_service.py:139-145).
THEOREM PendingCorrect == Spec => []NoForecastBeforeReview
<1>1. SerialInv => NoForecastBeforeReview
  BY DEF SerialInv, Serial, Agrees, NoForecastBeforeReview
<1>2. QED
  BY <1>1, SerialInvariant, PTL

\* A confirmed bill whose requests never overlapped has at most one forecast, of
\* the figures it shows, wherever a confirmation was interrupted
\* (bill_review_service.py:46-81; service.py:136-152).
THEOREM ForecastCorrect == Spec => []ForecastFollowsItsBill
<1>1. ASSUME NEW F, \A f, g \in F : f = g
      PROVE  Cardinality(F) <= 1
  <2>1. CASE F = {}
    BY <2>1, FS_EmptySet
  <2>2. CASE F # {}
    <3>1. PICK f \in F : F = {f}
      BY <1>1, <2>2
    <3>2. QED
      BY <3>1, FS_Singleton
  <2>3. QED
    BY <2>1, <2>2
<1>2. SerialInv => ForecastFollowsItsBill
  <2> SUFFICES ASSUME SerialInv, NEW d \in Confirmed \ overlapped
               PROVE  /\ Cardinality(forecast[d]) <= 1
                      /\ \A f \in forecast[d] : f.of[d] = Figures(bill[d])
    BY DEF ForecastFollowsItsBill
  <2>1. Agrees(d, bill[d], forecast[d], reviewed[d]) /\ bill[d].status = "confirmed"
    BY DEF SerialInv, Serial, Confirmed
  <2>2. QED
    BY <1>1, <2>1 DEF Agrees
<1>3. QED
  BY <1>2, SerialInvariant, PTL
=============================================================================
