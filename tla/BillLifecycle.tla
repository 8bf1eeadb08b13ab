---------------------------- MODULE BillLifecycle ----------------------------
(***************************************************************************)
(* A bill from its upload to its deletion, with the forecasts derived from *)
(* it (services/documents, services/extraction, services/review,           *)
(* services/bills and services/analytics under src/app).                   *)
(*                                                                         *)
(* A request is a slot.  It loads the rows it works on, computes, and at   *)
(* its commit emits what differs from what it loaded: the columns it has   *)
(* changed, DELETEs of the child rows it had loaded, and INSERTs.  Under   *)
(* READ COMMITTED another request may commit in between.  A confirmation   *)
(* commits the review and derives the forecasts in a second transaction; a *)
(* deletion commits first and removes the file afterwards.                 *)
(*                                                                         *)
(* One user's documents; a bill is named by its document (document_id is   *)
(* unique).  A batch is a set of child rows inserted together: a history   *)
(* or a forecast over the whole horizon with its insights.                 *)
(***************************************************************************)
EXTENDS Naturals, FiniteSets

CONSTANTS
  Document, Request,
  WithHistory,   \* documents in which the parser finds a consumption history
  None,
  MaxBatches     \* bound: how many batches of rows are inserted

ASSUME BoundAssumption == MaxBatches \in Nat \ {0}
ASSUME DocumentAssumption == None \notin Document /\ WithHistory \subseteq Document

Batch == 1..MaxBatches

VARIABLES
  file,       \* documents whose file is in the uploads directory
  doc,        \* documents with a row
  bill,       \* bill[d]: extraction_status, main figures, history; or NoBill
  forecast,   \* forecast[d]: the forecast batches of the bill of d, each with
              \* the series it was computed from
  slot,       \* slot[r]: the request r is running
  \* history
  batches,     \* the number of batches inserted
  reviewed,    \* reviewed[d]: the figures the last confirmation of d sent
  known,       \* documents ever uploaded
  overlapped,  \* documents two requests for which were in flight at once
  stray        \* documents whose file an interrupted request left behind

vars == <<file, doc, bill, forecast, slot, batches, reviewed, known, overlapped, stray>>
ghosts == <<batches, reviewed, known>>

\* The figures of a bill are what the parser reads or what a reviewer types.
Figure == {"read", "typed"}

NoBill   == [status |-> "none", main |-> None, history |-> {}]
NoSeries == [d \in {} |-> NoBill]
Idle == [pc |-> "idle", doc |-> None, bill |-> NoBill, forecast |-> {}, series |-> NoSeries]

Figures(b) == [main |-> b.main, history |-> b.history]
HasBill(d) == bill[d] # NoBill
Confirmed  == {d \in Document : bill[d].status = "confirmed"}

\* _resolve_series: the figures of the target and of the confirmed bills.
Series(d, target) ==
  [e \in {d} \cup Confirmed |-> IF e = d THEN Figures(target) ELSE Figures(bill[e])]

Running(d) == {r \in Request : slot[r].doc = d}

\* Rows whose deletion another request has flushed are locked until it ends.
Unheld(r, rows) ==
  \A q \in Request \ {r} : slot[q].pc = "replacing" => slot[q].forecast \cap rows = {}

\* The batch an insertion of rows makes, if there are rows to insert.
NewBatch(some) == IF some THEN {batches + 1} ELSE {}
CanInsert(some) == some => batches < MaxBatches
CountBatch(some) == batches' = IF some THEN batches + 1 ELSE batches

Init ==
  /\ file = {} /\ doc = {}
  /\ bill = [d \in Document |-> NoBill]
  /\ forecast = [d \in Document |-> {}]
  /\ slot = [r \in Request |-> Idle]
  /\ batches = 0
  /\ reviewed = [d \in Document |-> Figures(NoBill)]
  /\ known = {} /\ overlapped = {} /\ stray = {}

\* Request r starts to work on d.
Begin(r, s) ==
  /\ slot[r] = Idle
  /\ slot' = [slot EXCEPT ![r] = s]
  /\ overlapped' = IF Running(s.doc) # {} THEN overlapped \cup {s.doc} ELSE overlapped

\* Request r ends, and its transaction with it.
End(r) == slot' = [slot EXCEPT ![r] = Idle]

-----------------------------------------------------------------------------
(* DocumentUploadService.upload                                            *)

\* storage_service.save
UploadSave(r, d) ==
  /\ d \notin known
  /\ Begin(r, [Idle EXCEPT !.pc = "saving", !.doc = d])
  /\ known' = known \cup {d}
  /\ file' = file \cup {d}
  /\ UNCHANGED <<doc, bill, forecast, batches, reviewed, stray>>

UploadCommit(r) ==
  /\ slot[r].pc = "saving"
  /\ doc' = doc \cup {slot[r].doc}
  /\ End(r)
  /\ UNCHANGED <<file, bill, forecast, ghosts, overlapped, stray>>

\* Faulty variant: the file is not removed with the row.
UploadFailLeavingFile(r) ==
  /\ slot[r].pc = "saving"
  /\ End(r)
  /\ UNCHANGED <<file, doc, bill, forecast, ghosts, overlapped, stray>>

\* The write or the commit raises: rollback and unlink.
UploadFail(r) ==
  /\ slot[r].pc = "saving"
  /\ file' = file \ {slot[r].doc}
  /\ End(r)
  /\ UNCHANGED <<doc, bill, forecast, ghosts, overlapped, stray>>

-----------------------------------------------------------------------------
(* BillExtractionService.extract                                           *)

\* Faulty variant: concurrent first extractions do not wait for each other.
ExtractReadUnlocked(r, d) ==
  /\ d \in doc \cap file
  /\ Begin(r, [Idle EXCEPT !.pc = "extracting", !.doc = d,
                           !.bill = bill[d], !.forecast = forecast[d]])
  /\ UNCHANGED <<file, doc, bill, forecast, ghosts, stray>>

\* The logs refer to the document, which locks it against deletion until the
\* end; the first time, storing extracted_text also locks it against another
\* extraction.  Then the bill and its rows are loaded.
ExtractRead(r, d) ==
  /\ d \in doc \cap file
  /\ HasBill(d) \/ \A q \in Running(d) : slot[q].pc # "extracting"
  /\ Begin(r, [Idle EXCEPT !.pc = "extracting", !.doc = d,
                           !.bill = bill[d], !.forecast = forecast[d]])
  /\ UNCHANGED <<file, doc, bill, forecast, ghosts, stray>>

\* The columns and child rows left by a request that loaded s.bill and wants
\* status st, main figures m and the history rows new.
Written(s, st, m, new) ==
  LET now == bill[s.doc]
  IN  [status  |-> IF st # s.bill.status THEN st ELSE now.status,
       main    |-> IF m # s.bill.main THEN m ELSE now.main,
       history |-> (now.history \ s.bill.history) \cup new]

\* Faulty variant: the derived rows are not cleared.
ExtractCommitKeepingForecasts(r) ==
  LET s    == slot[r]
      some == s.doc \in WithHistory
  IN  /\ s.pc = "extracting"
      /\ CanInsert(some)
      /\ bill' = [bill EXCEPT ![s.doc] = Written(s, "pending", "read", NewBatch(some))]
      /\ CountBatch(some)
      /\ End(r)
      /\ UNCHANGED <<file, doc, forecast, reviewed, known, overlapped, stray>>

\* _upsert_bill and the commit.  PENDING_REVIEW and FAILED are both "pending".
ExtractCommit(r) ==
  LET s    == slot[r]
      some == s.doc \in WithHistory
  IN  /\ s.pc = "extracting"
      /\ CanInsert(some)
      /\ Unheld(r, s.forecast)
      /\ bill' = [bill EXCEPT ![s.doc] = Written(s, "pending", "read", NewBatch(some))]
      /\ forecast' = [forecast EXCEPT ![s.doc] = @ \ s.forecast]
      /\ CountBatch(some)
      /\ End(r)
      /\ UNCHANGED <<file, doc, reviewed, known, overlapped, stray>>

-----------------------------------------------------------------------------
(* BillReviewService.confirm                                               *)

ConfirmRead(r, d) ==
  /\ HasBill(d)
  /\ Begin(r, [Idle EXCEPT !.pc = "confirming", !.doc = d,
                           !.bill = bill[d], !.forecast = forecast[d]])
  /\ UNCHANGED <<file, doc, bill, forecast, ghosts, stray>>

\* Faulty variants: the history is not replaced; a bill that is gone is
\* written back; the forecasts are not cleared.
ConfirmCommitKeepingHistory(r, m, some) ==
  LET s == slot[r]
  IN  /\ s.pc = "confirming"
      /\ HasBill(s.doc)
      /\ CanInsert(some)
      /\ bill' = [bill EXCEPT ![s.doc] =
                    Written([s EXCEPT !.bill.history = {}], "confirmed", m, NewBatch(some))]
      /\ forecast' = [forecast EXCEPT ![s.doc] = @ \ s.forecast]
      /\ reviewed' = [reviewed EXCEPT ![s.doc] = [main |-> m, history |-> NewBatch(some)]]
      /\ CountBatch(some)
      /\ slot' = [slot EXCEPT ![r].pc = "refreshing", ![r].bill = bill'[s.doc],
                              ![r].forecast = {}]
      /\ UNCHANGED <<file, doc, known, overlapped, stray>>

ConfirmCommitUnrooted(r, m, some) ==
  LET s == slot[r]
  IN  /\ s.pc = "confirming"
      /\ CanInsert(some)
      /\ Unheld(r, s.forecast)
      /\ bill' = [bill EXCEPT ![s.doc] = Written(s, "confirmed", m, NewBatch(some))]
      /\ forecast' = [forecast EXCEPT ![s.doc] = @ \ s.forecast]
      /\ reviewed' = [reviewed EXCEPT ![s.doc] = [main |-> m, history |-> NewBatch(some)]]
      /\ CountBatch(some)
      /\ slot' = [slot EXCEPT ![r].pc = "refreshing", ![r].bill = bill'[s.doc],
                              ![r].forecast = {}]
      /\ UNCHANGED <<file, doc, known, overlapped, stray>>

ConfirmCommitKeepingForecasts(r, m, some) ==
  LET s == slot[r]
  IN  /\ s.pc = "confirming"
      /\ HasBill(s.doc)
      /\ CanInsert(some)
      /\ bill' = [bill EXCEPT ![s.doc] = Written(s, "confirmed", m, NewBatch(some))]
      /\ reviewed' = [reviewed EXCEPT ![s.doc] = [main |-> m, history |-> NewBatch(some)]]
      /\ CountBatch(some)
      /\ slot' = [slot EXCEPT ![r].pc = "refreshing", ![r].bill = bill'[s.doc],
                              ![r].forecast = {}]
      /\ UNCHANGED <<file, doc, forecast, known, overlapped, stray>>

\* No precondition on the status.  A bill deleted since it was loaded has no
\* row to update or refer to: the request fails (Leave).
ConfirmCommit(r, m, some) ==
  LET s == slot[r]
  IN  /\ s.pc = "confirming"
      /\ HasBill(s.doc)
      /\ CanInsert(some)
      /\ Unheld(r, s.forecast)
      /\ bill' = [bill EXCEPT ![s.doc] = Written(s, "confirmed", m, NewBatch(some))]
      /\ forecast' = [forecast EXCEPT ![s.doc] = @ \ s.forecast]
      /\ reviewed' = [reviewed EXCEPT ![s.doc] = [main |-> m, history |-> NewBatch(some)]]
      /\ CountBatch(some)
      /\ slot' = [slot EXCEPT ![r].pc = "refreshing", ![r].bill = bill'[s.doc],
                              ![r].forecast = {}]
      /\ UNCHANGED <<file, doc, known, overlapped, stray>>

\* refresh_artifacts_for_bill: the row must still be there, but its columns
\* are the copy of the first transaction; the history is loaded again.
RefreshRead(r) ==
  LET s == slot[r]
  IN  /\ s.pc = "refreshing"
      /\ HasBill(s.doc)
      /\ s.bill.status = "confirmed"
      /\ slot' = [slot EXCEPT ![r].pc = "deriving",
                    ![r].series = Series(s.doc, [s.bill EXCEPT !.history = bill[s.doc].history])]
      /\ UNCHANGED <<file, doc, bill, forecast, ghosts, overlapped, stray>>

-----------------------------------------------------------------------------
(* BillAnalyticsService: GET .../analytics and GET .../forecast            *)

GetRead(r, d) ==
  /\ bill[d].status = "confirmed"
  /\ Begin(r, [Idle EXCEPT !.pc = "reading", !.doc = d, !.series = Series(d, bill[d])])
  /\ UNCHANGED <<file, doc, bill, forecast, ghosts, stray>>

\* The persisted forecast covers the horizon: it is the answer.
GetServe(r) ==
  LET s == slot[r]
  IN  /\ s.pc = "reading"
      /\ Cardinality(forecast[s.doc]) = 1
      /\ slot' = [slot EXCEPT ![r].pc = "serving", ![r].forecast = forecast[s.doc]]
      /\ UNCHANGED <<file, doc, bill, forecast, ghosts, overlapped, stray>>

\* There is none, it is incomplete or no longer trusted, or the bill has just
\* been confirmed: replace_for_bill deletes what it finds.
Replace(r) ==
  LET s == slot[r]
  IN  /\ s.pc \in {"reading", "deriving"}
      /\ Unheld(r, forecast[s.doc])
      /\ slot' = [slot EXCEPT ![r].pc = "replacing", ![r].forecast = forecast[s.doc]]
      /\ UNCHANGED <<file, doc, bill, forecast, ghosts, overlapped, stray>>

\* Faulty variant: forecasts do not reference the bill.
ReplaceCommitUnrooted(r) ==
  LET s == slot[r]
  IN  /\ s.pc = "replacing"
      /\ CanInsert(TRUE)
      /\ forecast' = [forecast EXCEPT ![s.doc] = (@ \ s.forecast)
                                     \cup {[id |-> batches + 1, of |-> s.series]}]
      /\ CountBatch(TRUE)
      /\ End(r)
      /\ UNCHANGED <<file, doc, bill, reviewed, known, overlapped, stray>>

\* Rows another request inserted meanwhile stay, unless they are of the same
\* months: then the unique index refuses the insertion (Leave).
ReplaceCommit(r) ==
  LET s == slot[r]
  IN  /\ s.pc = "replacing"
      /\ HasBill(s.doc)
      /\ CanInsert(TRUE)
      /\ forecast' = [forecast EXCEPT ![s.doc] = (@ \ s.forecast)
                                     \cup {[id |-> batches + 1, of |-> s.series]}]
      /\ CountBatch(TRUE)
      /\ End(r)
      /\ UNCHANGED <<file, doc, bill, reviewed, known, overlapped, stray>>

-----------------------------------------------------------------------------
(* BillManagementService.delete_bill                                       *)

\* Faulty variant: the file is removed first.
DeleteReadUnlinking(r, d) ==
  /\ HasBill(d)
  /\ Begin(r, [Idle EXCEPT !.pc = "deleting", !.doc = d])
  /\ file' = file \ {d}
  /\ UNCHANGED <<doc, bill, forecast, ghosts, stray>>

DeleteRead(r, d) ==
  /\ HasBill(d)
  /\ Begin(r, [Idle EXCEPT !.pc = "deleting", !.doc = d])
  /\ UNCHANGED <<file, doc, bill, forecast, ghosts, stray>>

\* The document goes with everything that refers to it.  A second deletion
\* finds nothing and succeeds.
DeleteCommit(r) ==
  LET d == slot[r].doc
  IN  /\ slot[r].pc = "deleting"
      /\ \A q \in Running(d) : slot[q].pc # "extracting"
      /\ Unheld(r, forecast[d])
      /\ doc' = doc \ {d}
      /\ bill' = [bill EXCEPT ![d] = NoBill]
      /\ forecast' = [forecast EXCEPT ![d] = {}]
      /\ slot' = [slot EXCEPT ![r].pc = "unlinking"]
      /\ UNCHANGED <<file, ghosts, overlapped, stray>>

Unlink(r) ==
  /\ slot[r].pc = "unlinking"
  /\ file' = file \ {slot[r].doc}
  /\ End(r)
  /\ UNCHANGED <<doc, bill, forecast, ghosts, overlapped, stray>>

\* The error is logged and the request succeeds.
UnlinkFail(r) ==
  /\ slot[r].pc = "unlinking"
  /\ stray' = stray \cup {slot[r].doc}
  /\ End(r)
  /\ UNCHANGED <<file, doc, bill, forecast, ghosts, overlapped>>

-----------------------------------------------------------------------------
\* The request has answered, or it fails and rolls back: a row it needs is
\* gone, a unique index refuses it, the database picks it to end a deadlock,
\* the series cannot be forecast.  Errors of a refresh are swallowed.
Leave(r) ==
  /\ slot[r].pc \notin {"idle", "saving", "unlinking"}
  /\ End(r)
  /\ UNCHANGED <<file, doc, bill, forecast, ghosts, overlapped, stray>>

\* The process dies: transactions roll back, files stay.
Crash ==
  /\ slot' = [r \in Request |-> Idle]
  /\ stray' = stray \cup {d \in file : \E r \in Running(d) : slot[r].pc \in {"saving", "unlinking"}}
  /\ slot' # slot
  /\ UNCHANGED <<file, doc, bill, forecast, ghosts, overlapped>>

Next ==
  \/ \E r \in Request :
       \/ \E d \in Document : \/ UploadSave(r, d)
                              \/ ExtractRead(r, d)
                              \/ ConfirmRead(r, d)
                              \/ GetRead(r, d)
                              \/ DeleteRead(r, d)
       \/ UploadCommit(r)
       \/ UploadFail(r)
       \/ ExtractCommit(r)
       \/ \E m \in Figure, some \in BOOLEAN : ConfirmCommit(r, m, some)
       \/ RefreshRead(r)
       \/ GetServe(r)
       \/ Replace(r)
       \/ ReplaceCommit(r)
       \/ DeleteCommit(r)
       \/ Unlink(r)
       \/ UnlinkFail(r)
       \/ Leave(r)
  \/ Crash

Spec == Init /\ [][Next]_vars

-----------------------------------------------------------------------------
(* Properties                                                              *)

FigureSet == [main : Figure, history : SUBSET Batch]
Row == [status : {"pending", "confirmed"}, main : Figure, history : SUBSET Batch]
SeriesSet == UNION {[D -> FigureSet] : D \in SUBSET Document}
ForecastBatch == [id : Batch, of : SeriesSet]
Slot == [pc : {"idle", "saving", "extracting", "confirming", "refreshing", "deriving",
               "reading", "serving", "replacing", "deleting", "unlinking"},
         doc : Document \cup {None}, bill : Row \cup {NoBill}, forecast : SUBSET ForecastBatch,
         series : SeriesSet]

\* Type invariant.
TypeOK ==
  /\ file \subseteq Document /\ doc \subseteq Document
  /\ bill \in [Document -> Row \cup {NoBill}]
  /\ forecast \in [Document -> SUBSET ForecastBatch]
  /\ slot \in [Request -> Slot]
  /\ \A r \in Request : slot[r].doc = None <=> slot[r] = Idle
  /\ batches \in 0..MaxBatches
  /\ reviewed \in [Document -> FigureSet \cup {Figures(NoBill)}]
  /\ known \subseteq Document /\ overlapped \subseteq Document /\ stray \subseteq Document

\* Every row hangs from its parent, whatever races with a deletion: a bill
\* from a document, forecasts from a bill
\* (management_service.py:41-42; service.py:150-152; utility_bill.py:32-38).
RowsAreRooted ==
  \A d \in Document : /\ HasBill(d) => d \in doc
                      /\ forecast[d] # {} => HasBill(d)

\* A document that can be extracted has its file: the upload writes it before
\* the row, a deletion removes it after
\* (upload_service.py:77-102; management_service.py:40-45).
DocumentHasFile == doc \subseteq file

\* A file without a row belongs to a request still running, or to one that
\* the process or the disk interrupted
\* (upload_service.py:98-102; management_service.py:44-50).
StrayFilesAreExplained ==
  \A d \in file \ doc :
    d \in stray \/ \E r \in Running(d) : slot[r].pc \in {"saving", "unlinking"}

\* A request that is about to insert the bill of a document is not overtaken:
\* the unique document_id never refuses it
\* (bill_extraction_service.py:69-70, 125-128; utility_bill.py:33-38).
FirstExtractionIsExclusive ==
  \A r \in Request :
    slot[r].pc = "extracting" /\ slot[r].bill = NoBill => ~HasBill(slot[r].doc)

\* Unless requests overlapped, a confirmed bill shows what its last reviewer
\* sent, and only that (bill_review_service.py:37-62).
ReviewHolds ==
  \A d \in Confirmed \ overlapped : Figures(bill[d]) = reviewed[d]

\* Unless requests overlapped, a bill that awaits review has no forecast left
\* from an earlier confirmation (bill_extraction_service.py:139-145).
NoForecastBeforeReview ==
  \A d \in Document \ overlapped : bill[d].status = "pending" => forecast[d] = {}

\* Unless requests overlapped, a bill has one forecast and it was computed
\* from the figures it shows now, wherever a confirmation was interrupted
\* (bill_review_service.py:46-81; service.py:136-152).
ForecastFollowsItsBill ==
  \A d \in Confirmed \ overlapped :
    /\ Cardinality(forecast[d]) <= 1
    /\ \A f \in forecast[d] : f.of[d] = Figures(bill[d])

\* README.md:17 requires "revisao humana obrigatoria antes da confirmacao":
\* a confirmed bill shows figures a reviewer sent, in every interleaving.
ConfirmedIsReviewed ==
  \A d \in Confirmed : Figures(bill[d]) = reviewed[d]

\* service.py:130 tells the client that the persisted forecasts "continuam
\* validos": they are those of the series the same request has resolved.
ServedForecastIsCurrent ==
  \A r \in Request : slot[r].pc = "serving" =>
    \A f \in slot[r].forecast : f.of = slot[r].series
=============================================================================
