--------------------------- MODULE DeclarationJob ---------------------------
(***************************************************************************)
(* One customs job of services.py: its uploaded documents, the reviewer's  *)
(* overlay, and what is derived from them - the critical review, the       *)
(* declaration, the XML and the brand/model/size workbook.                 *)
(*                                                                         *)
(* Requests run concurrently.  Most of them are a read-modify-write under  *)
(* job_lock: the lock and _fresh_under_lock's re-read are one step, the    *)
(* commit another, and what review, finalize and extraction do BEFORE the  *)
(* lock are steps of their own.  Uploads, claims and failed extractions    *)
(* write document rows without the lock, and so may fall between any two.  *)
(*                                                                         *)
(* Extraction runs inside the request here (queue mode off); the queue is  *)
(* the business of ExtractionQueue.                                        *)
(***************************************************************************)
EXTENDS Naturals, FiniteSets

CONSTANTS
    Docs,         \* document rows that may ever be created
    Role,         \* declared_role of each row
    File,         \* sha256 of each row's file: twins share role and file
    Clients,      \* concurrent requests
    Contents,     \* what an extraction may return
    Shown,        \* content -> the part of it the fingerprint basis covers
    Ops,          \* the kinds of request that are issued
    Answers,      \* the reviewer's answers that are sent to finalize
    Strict,       \* xml_strict_blocking
    MaxRev,       \* bound on reviewer mutations
    None          \* null

AllOps == {"upload", "reupload", "extract", "decide", "remove", "review",
           "finalize", "confirm", "mutate", "bms", "regime", "restart"}

\* The role sets of item_mutations.reset_for_evidence_change.
ItemRoles     == {"INVOICE"}
ShipmentRoles == {"AIR_WAYBILL", "PACKING_LIST"}

Roles == {"INVOICE", "PACKING_LIST", "AIR_WAYBILL", "BANKING"}

ASSUME NoneFresh == None \notin Docs \cup Clients \cup Contents
ASSUME DocsFinite == IsFiniteSet(Docs)
ASSUME RoleType == Role \in [Docs -> Roles]
ASSUME FileType == DOMAIN File = Docs
ASSUME ShownType == DOMAIN Shown = Contents
ASSUME OpsType == Ops \subseteq AllOps
ASSUME StrictType == Strict \in BOOLEAN
ASSUME MaxRevType == MaxRev \in Nat

VARIABLES
    docs,     \* the uploaded_document rows: status and raw_extraction
    job,      \* the customs_job row and its artifacts
    lock,     \* the request that holds job_lock
    req,      \* per request: where it is and what it has read
    view      \* per client: the inputs of the review it was last shown

vars == <<docs, job, lock, req, view>>

(***************************************************************************)
(* Values                                                                  *)
(***************************************************************************)
\* ABSENT: not created yet.  REMOVED: deleted (ids are never used again).
DocStatus == {"ABSENT", "UPLOADED", "EXTRACTING", "EXTRACTED",
              "ROLE_REVIEW_REQUIRED", "ROLE_REJECTED", "FAILED", "REMOVED"}

JobStatus == {"UPLOADING", "EXTRACTION_COMPLETE", "EXTRACTION_RUNNING",
              "CRITICAL_REVIEW_REQUIRED", "VALIDATION_BLOCKED", "XML_READY"}

Exists(D, d) == D[d].status \notin {"ABSENT", "REMOVED"}

\* What resolve_context reads: the extraction of every document that has one
\* and is not rejected (declarable_documents, then _group_raw).
Evidence(D) ==
    [d \in Docs |-> IF Exists(D, d) /\ D[d].status # "ROLE_REJECTED"
                    THEN D[d].raw ELSE None]

OfRoles(ev, roles) == [d \in {e \in Docs : Role[e] \in roles} |-> ev[d]]

\* The reviewer's channels, and the evidence each is entered against.
Channels == {"item", "pin", "totals", "bms"}

Scope(ch) ==
    CASE ch \in {"item", "bms"} -> ItemRoles
      [] ch = "pin"             -> ItemRoles \cup ShipmentRoles
      [] ch = "totals"          -> ShipmentRoles

\* An entry remembers who typed it and the evidence it was typed against.
Entry(c, ch, ev) == [by |-> c, ev |-> OfRoles(ev, Scope(ch))]

EmptyOverlay == [rev |-> 0, entry |-> [ch \in Channels |-> None]]

\* Everything a review, a declaration or a workbook is computed from.
Inputs(D, j) == [ev |-> Evidence(D), overlay |-> j.overlay, sel |-> j.sel]

\* _fingerprint: some printed values, role by role, and the two revisions;
\* neither the documents themselves nor the rest of what they say.
Fingerprint(in) ==
    [shown |-> [r \in Roles, s \in {Shown[content] : content \in Contents} |->
                   Cardinality({d \in Docs : /\ Role[d] = r
                                             /\ in.ev[d] # None
                                             /\ Shown[in.ev[d]] = s})],
     item_revision   |-> in.overlay.rev,
     regime_revision |-> in.sel.rev]

\* The XML carries no brand, model or size.
Customs(in) == [in EXCEPT !.overlay.entry["bms"] = None]

\* The reviewer's answers, abstracted to the verdict finalize reaches on
\* them: ready_for_xml, blocking errors, an error of WARN_MODE_HARD_CODES,
\* or a reported item count that differs.
AllAnswers == {"ready", "blockers", "hard", "miscount"}
ASSUME AnswersType == Answers \subseteq AllAnswers

Idle == [pc |-> "idle", op |-> None, doc |-> None, arg |-> None, seen |-> None]

(***************************************************************************)
(* Initial state: create_job.                                              *)
(***************************************************************************)
Init ==
    /\ docs = [d \in Docs |-> [status |-> "ABSENT", raw |-> None]]
    /\ job = [status |-> "UPLOADING", overlay |-> EmptyOverlay,
              sel |-> [rev |-> 0, by |-> None],
              review |-> None, decl |-> None, xml |-> None, bms |-> None]
    /\ lock = None
    /\ req = [c \in Clients |-> Idle]
    /\ view = [c \in Clients |-> None]

(***************************************************************************)
(* Shared parts of the handlers                                            *)
(***************************************************************************)
RequireExtracted(D) ==
    \A d \in Docs : D[d].status \notin
        {"EXTRACTING", "UPLOADED", "FAILED", "ROLE_REVIEW_REQUIRED"}

ItemMutable(D, j) ==
    /\ j.status \in {"CRITICAL_REVIEW_REQUIRED", "VALIDATION_BLOCKED", "XML_READY"}
    /\ RequireExtracted(D)

\* Mutation: the XML is left for download after an edit.
InvalidateDerivedKeepsXml(j) ==
    [j EXCEPT !.review = None, !.decl = None, !.bms = None]

\* _invalidate_derived
InvalidateDerived(j) ==
    [j EXCEPT !.review = None, !.decl = None, !.xml = None, !.bms = None]

\* Mutation: a new packing list or waybill leaves the weight pins standing.
DroppedKeepsPins(role) ==
    CASE role \in ShipmentRoles -> {"totals"}
      [] role \in ItemRoles     -> {"item", "pin", "bms"}
      [] OTHER                  -> {}

\* reset_for_evidence_change: the channels entered against the changed
\* role's evidence go, and the revision moves only when something went.
Dropped(role) ==
    CASE role \in ShipmentRoles -> {"totals", "pin"}
      [] role \in ItemRoles     -> {"item", "pin", "bms"}
      [] OTHER                  -> {}

\* Mutation: the dropped channels are deleted instead of emptied.
ResetOverlayDeletes(o, role) ==
    [rev |-> o.rev + 1, entry |-> [ch \in Channels \ Dropped(role) |-> o.entry[ch]]]

ResetOverlay(o, role) ==
    IF \A ch \in Dropped(role) : o.entry[ch] = None
    THEN o
    ELSE [rev   |-> o.rev + 1,
          entry |-> [ch \in Channels |-> IF ch \in Dropped(role) THEN None ELSE o.entry[ch]]]

\* Mutation: new evidence leaves the review, declaration and XML in place.
EvidenceChangedKeepsDerived(j, d) == [j EXCEPT !.overlay = ResetOverlay(@, Role[d])]

\* What every change of evidence does to the job row, under the lock.
EvidenceChanged(j, d) ==
    [InvalidateDerived(j) EXCEPT !.overlay = ResetOverlay(@, Role[d])]

\* _recompute_after_mutation
Recompute(D, j) ==
    [j EXCEPT !.review = Inputs(D, j), !.status = "CRITICAL_REVIEW_REQUIRED"]

(***************************************************************************)
(* A request that takes the lock                                           *)
(***************************************************************************)
\* What a request of this kind reads before the lock, it read now.
Start(c, op, arg) ==
    /\ op \in Ops
    /\ req[c] = Idle
    /\ req' = [req EXCEPT ![c] = [Idle EXCEPT !.pc = "waiting", !.op = op, !.arg = arg]]
    /\ UNCHANGED <<docs, job, lock, view>>

\* What _fresh_under_lock reads back.
Fresh == [docs |-> docs, job |-> job]

\* job_lock, then _fresh_under_lock.
Acquire(c) ==
    /\ req[c].pc = "waiting"
    /\ lock = None
    /\ lock' = c
    /\ req' = [req EXCEPT ![c].pc = "locked", ![c].seen = Fresh]
    /\ UNCHANGED <<docs, job, view>>

\* A request that decides nothing before it has the lock.
Enter(c, op, d, arg) ==
    /\ op \in Ops
    /\ req[c] = Idle
    /\ lock = None
    /\ lock' = c
    /\ req' = [req EXCEPT ![c] = [pc |-> "locked", op |-> op, doc |-> d,
                                  arg |-> arg, seen |-> Fresh]]
    /\ UNCHANGED <<docs, job, view>>

InBody(c, op) == req[c].pc = "locked" /\ req[c].op = op

\* The review a response carries.  It matters only to a client that will
\* confirm it later, so a model without such clients does not record it.
Show(c, in) ==
    view' = IF "confirm" \in Ops THEN [view EXCEPT ![c] = in] ELSE view

\* The transaction ends, and with it the request and the lock.
Done(c) ==
    /\ lock' = None
    /\ req' = [req EXCEPT ![c] = Idle]

\* A refusal under the lock: nothing is written.
Refuse(c) == Done(c) /\ UNCHANGED <<docs, job, view>>

(***************************************************************************)
(* Uploads: the twin check reads, the insert or reset is committed later,  *)
(* and neither takes the lock.                                             *)
(***************************************************************************)
Twins(D, d) == {e \in Docs : Exists(D, e) /\ Role[e] = Role[d] /\ File[e] = File[d]}

\* A file with no twin becomes a row; a live twin refuses the upload.
UploadCheck(c, d) ==
    /\ "upload" \in Ops
    /\ req[c] = Idle
    /\ Twins(docs, d) = {}
    /\ docs[d].status = "ABSENT"
    /\ \A k \in Clients : ~(req[k].pc = "insert" /\ req[k].doc = d)
    /\ req' = [req EXCEPT ![c] = [Idle EXCEPT !.pc = "insert", !.op = "upload", !.doc = d]]
    /\ UNCHANGED <<docs, job, lock, view>>

\* A file whose only twins are FAILED resets one of them.
ReuploadCheck(c, d) ==
    /\ "reupload" \in Ops
    /\ req[c] = Idle
    /\ d \in Twins(docs, d)
    /\ \A e \in Twins(docs, d) : docs[e].status = "FAILED"
    /\ req' = [req EXCEPT ![c] = [Idle EXCEPT !.pc = "reset", !.op = "reupload", !.doc = d]]
    /\ UNCHANGED <<docs, job, lock, view>>

UploadInsert(c) ==
    /\ req[c].pc = "insert"
    /\ docs' = [docs EXCEPT ![req[c].doc].status = "UPLOADED"]
    /\ req' = [req EXCEPT ![c] = Idle]
    /\ UNCHANGED <<job, lock, view>>

\* twin.status = UPLOADED is written by id, whatever the row holds by now.
UploadReset(c) ==
    /\ req[c].pc = "reset"
    /\ docs' = IF Exists(docs, req[c].doc)
               THEN [docs EXCEPT ![req[c].doc].status = "UPLOADED"]
               ELSE docs
    /\ req' = [req EXCEPT ![c] = Idle]
    /\ UNCHANGED <<job, lock, view>>

(***************************************************************************)
(* Extraction inside the request (run_extraction).                         *)
(***************************************************************************)
\* The guarded UPDATE, committed before the slow calls, without the lock.
Claim(c, d) ==
    /\ "extract" \in Ops
    /\ req[c] = Idle
    /\ docs[d].status \in {"UPLOADED", "FAILED"}
    /\ docs' = [docs EXCEPT ![d].status = "EXTRACTING"]
    /\ req' = [req EXCEPT ![c] = [Idle EXCEPT !.pc = "running", !.op = "extract", !.doc = d]]
    /\ UNCHANGED <<job, lock, view>>

\* Mutation: the failure is raised but not recorded on the row.
ExtractFailsKeepsClaim(c) ==
    /\ req[c].pc = "running"
    /\ req' = [req EXCEPT ![c] = Idle]
    /\ UNCHANGED <<docs, job, lock, view>>

\* An exception in OCR or extraction: FAILED, by id, without the lock.
ExtractFails(c) ==
    /\ req[c].pc = "running"
    /\ docs' = IF Exists(docs, req[c].doc)
               THEN [docs EXCEPT ![req[c].doc].status = "FAILED"]
               ELSE docs
    /\ req' = [req EXCEPT ![c] = Idle]
    /\ UNCHANGED <<job, lock, view>>

\* The extractor returns; the results wait in the session for the lock.
ExtractReturns(c, content, role_match) ==
    /\ req[c].pc = "running"
    /\ req' = [req EXCEPT ![c].pc = "waiting",
                          ![c].arg = [raw |-> content, match |-> role_match]]
    /\ UNCHANGED <<docs, job, lock, view>>

\* The row is written by id; if it is gone the flush raises.
CommitExtract(c) ==
    /\ InBody(c, "extract")
    /\ LET d == req[c].doc  r == req[c].arg  old == req[c].seen.job
       IN  IF ~Exists(docs, d)
           THEN Refuse(c)
           ELSE /\ docs' = [docs EXCEPT ![d] =
                      [status |-> IF r.match THEN "EXTRACTED" ELSE "ROLE_REVIEW_REQUIRED",
                       raw    |-> r.raw]]
                /\ job' = [EvidenceChanged(old, d) EXCEPT !.status = "EXTRACTION_COMPLETE"]
                /\ Done(c)
                /\ UNCHANGED view

(***************************************************************************)
(* Role decision and removal                                               *)
(***************************************************************************)
\* The routes look the document up first: 404 when it is not there.
EnterOnDocument(c, op, d, arg) == Exists(docs, d) /\ Enter(c, op, d, arg)

CommitDecide(c) ==
    /\ InBody(c, "decide")
    /\ LET d == req[c].doc  seen == req[c].seen
       IN  IF seen.docs[d].status # "ROLE_REVIEW_REQUIRED"
           THEN Refuse(c)
           ELSE /\ docs' = [docs EXCEPT ![d].status =
                               IF req[c].arg THEN "EXTRACTED" ELSE "ROLE_REJECTED"]
                /\ job' = [EvidenceChanged(seen.job, d) EXCEPT !.status = "EXTRACTION_COMPLETE"]
                /\ Done(c)
                /\ UNCHANGED view

CommitRemove(c) ==
    /\ InBody(c, "remove")
    /\ LET d == req[c].doc  seen == req[c].seen
           remaining == {e \in Docs \ {d} : seen.docs[e].status = "EXTRACTED"}
       IN  IF seen.docs[d].status \in {"EXTRACTING", "REMOVED"}
           THEN Refuse(c)
           ELSE /\ docs' = [docs EXCEPT ![d] = [status |-> "REMOVED", raw |-> None]]
                /\ job' = [EvidenceChanged(seen.job, d) EXCEPT !.status =
                              IF remaining # {} THEN "EXTRACTION_COMPLETE" ELSE "UPLOADING"]
                /\ Done(c)
                /\ UNCHANGED view

(***************************************************************************)
(* Critical review and finalize.  Both call _require_extracted BEFORE the  *)
(* lock and not again under it.                                            *)
(***************************************************************************)
StartReview(c) == RequireExtracted(docs) /\ Start(c, "review", None)

CommitReview(c) ==
    /\ InBody(c, "review")
    /\ LET seen == req[c].seen  in == Inputs(seen.docs, seen.job)
       IN  /\ job' = Recompute(seen.docs, seen.job)
           /\ Show(c, in)
    /\ Done(c)
    /\ UNCHANGED docs

StartFinalize(c, answer) ==
    /\ RequireExtracted(docs)
    /\ Start(c, "finalize", answer)

\* The client also sends the fingerprint of the review it was shown.
StartConfirm(c, answer) ==
    /\ view[c] # None
    /\ RequireExtracted(docs)
    /\ Start(c, "confirm", answer)

BuildXml(answer) == answer = "ready" \/ (~Strict /\ answer = "blockers")

\* The declaration, what the reviewer had seen when confirming it (None if
\* the client sent no fingerprint) and the answers it was built from.
Declaration(c, in) ==
    [in |-> Customs(in), answer |-> req[c].arg,
     reviewed |-> IF req[c].op = "confirm" THEN view[c] ELSE None]

CommitFinalize(c) ==
    /\ InBody(c, "finalize") \/ InBody(c, "confirm")
    /\ LET seen == req[c].seen
           in == Inputs(seen.docs, seen.job)
           answer == req[c].arg
           stale == req[c].op = "confirm" /\ Fingerprint(view[c]) # Fingerprint(in)
           decl == Declaration(c, in)
       IN  \/ /\ stale
              /\ job' = Recompute(seen.docs, seen.job)
              /\ Show(c, in)
           \/ /\ ~stale /\ answer = "miscount"
              /\ job' = [seen.job EXCEPT !.status = "EXTRACTION_RUNNING"]
              /\ UNCHANGED view
           \/ /\ ~stale /\ answer # "miscount"
              /\ \E bms_built \in BOOLEAN :     \* build_bms_xls may raise
                    job' = [seen.job EXCEPT
                       !.decl = decl,
                       !.xml = IF BuildXml(answer) THEN decl ELSE @,
                       !.bms = IF BuildXml(answer) /\ bms_built THEN in ELSE @,
                       !.status = IF answer = "ready" THEN "XML_READY" ELSE "VALIDATION_BLOCKED"]
              /\ UNCHANGED view
    /\ Done(c)
    /\ UNCHANGED docs

(***************************************************************************)
(* Reviewer mutations, all under the lock                                  *)
(***************************************************************************)
\* Mutation: an edit does not move the revision.
SetEntrySameRevision(c, o, ch, value, ev) ==
    [o EXCEPT !.entry[ch] = IF value = "clear" THEN None ELSE Entry(c, ch, ev)]

\* add, delete, edit, HS, COO, shipment totals: one channel each.  A pin may
\* also be cleared.
SetEntry(c, o, ch, value, ev) ==
    [rev |-> o.rev + 1,
     entry |-> [o.entry EXCEPT ![ch] = IF value = "clear" THEN None ELSE Entry(c, ch, ev)]]

CommitMutate(c) ==
    /\ InBody(c, "mutate")
    /\ LET seen == req[c].seen
           o == SetEntry(c, seen.job.overlay, req[c].arg.ch, req[c].arg.value, Evidence(seen.docs))
           next == Recompute(seen.docs, [InvalidateDerived(seen.job) EXCEPT !.overlay = o])
       IN  IF ~ItemMutable(seen.docs, seen.job) \/ seen.job.overlay.rev >= MaxRev
           THEN Refuse(c)
           ELSE /\ job' = next
                /\ Show(c, next.review)
                /\ Done(c)
                /\ UNCHANGED docs

\* edit_item_bms: no revision, no invalidation, the status stays.
CommitBms(c) ==
    /\ InBody(c, "bms")
    /\ LET seen == req[c].seen
           edited == [seen.job EXCEPT !.overlay.entry["bms"] = Entry(c, "bms", Evidence(seen.docs))]
           in == Inputs(seen.docs, edited)
       IN  IF ~RequireExtracted(seen.docs)
           THEN Refuse(c)
           ELSE /\ job' = [edited EXCEPT !.review = in,
                                         !.bms = IF @ = None THEN None ELSE in]
                /\ Show(c, in)
                /\ Done(c)
                /\ UNCHANGED docs

\* review_regime_selections; a body that changes nothing only reads.
CommitRegime(c) ==
    /\ InBody(c, "regime")
    /\ LET seen == req[c].seen
           selected == [rev |-> seen.job.sel.rev + 1, by |-> c]
           next == Recompute(seen.docs, [InvalidateDerived(seen.job) EXCEPT !.sel = selected])
       IN  \/ /\ ~RequireExtracted(seen.docs) \/ seen.job.sel.rev >= MaxRev
              /\ Refuse(c)
           \/ /\ RequireExtracted(seen.docs)
              /\ Done(c)
              /\ Show(c, seen.job.review)
              /\ UNCHANGED <<docs, job>>
           \/ /\ RequireExtracted(seen.docs)
              /\ seen.job.sel.rev < MaxRev
              /\ Done(c)
              /\ job' = next
              /\ Show(c, next.review)
              /\ UNCHANGED docs

\* Mutation: the startup sweep is not run.
RestartNoSweep ==
    /\ "restart" \in Ops
    /\ req # [c \in Clients |-> Idle]
    /\ req' = [c \in Clients |-> Idle]
    /\ lock' = None
    /\ UNCHANGED <<docs, job, view>>

(***************************************************************************)
(* The process stops and starts again: requests and uncommitted work are   *)
(* gone, the lock with them; recover_interrupted_extractions runs.         *)
(***************************************************************************)
Restart ==
    /\ "restart" \in Ops
    /\ req # [c \in Clients |-> Idle]
    /\ req' = [c \in Clients |-> Idle]
    /\ lock' = None
    /\ docs' = [d \in Docs |-> IF docs[d].status = "EXTRACTING"
                               THEN [docs[d] EXCEPT !.status = "UPLOADED"]
                               ELSE docs[d]]
    /\ UNCHANGED <<job, view>>

-----------------------------------------------------------------------------
\* A client issues a request.
Issue(c) ==
    \/ \E d \in Docs : UploadCheck(c, d)
    \/ \E d \in Docs : ReuploadCheck(c, d)
    \/ \E d \in Docs : Claim(c, d)
    \/ \E d \in Docs, accept \in BOOLEAN : EnterOnDocument(c, "decide", d, accept)
    \/ \E d \in Docs : EnterOnDocument(c, "remove", d, None)
    \/ StartReview(c)
    \/ \E answer \in Answers : StartFinalize(c, answer) \/ StartConfirm(c, answer)
    \/ \E ch \in Channels \ {"bms"} :
          Enter(c, "mutate", None, [ch |-> ch, value |-> "set"])
    \/ Enter(c, "mutate", None, [ch |-> "pin", value |-> "clear"])
    \/ Enter(c, "bms", None, None)
    \/ Enter(c, "regime", None, None)

\* A request under way takes its next step.
Proceed(c) ==
    \/ UploadInsert(c)
    \/ UploadReset(c)
    \/ ExtractFails(c)
    \/ \E content \in Contents, role_match \in BOOLEAN :
          ExtractReturns(c, content, role_match)
    \/ Acquire(c)
    \/ CommitExtract(c)
    \/ CommitDecide(c)
    \/ CommitRemove(c)
    \/ CommitReview(c)
    \/ CommitFinalize(c)
    \/ CommitMutate(c)
    \/ CommitBms(c)
    \/ CommitRegime(c)

Next ==
    \/ \E c \in Clients : Issue(c) \/ Proceed(c)
    \/ Restart

Spec == Init /\ [][Next]_vars

(***************************************************************************)
(* A request that has begun goes on: provider calls time out or return, a  *)
(* locked body commits, and a request blocked on the lock gets it in the   *)
(* end (Postgres queues waiters; see JobLock for the in-process lock).     *)
(* Nothing obliges a client to issue a request, or the process to restart. *)
(***************************************************************************)
Fairness == \A c \in Clients : WF_vars(Proceed(c)) /\ SF_vars(Acquire(c))

FairSpec == Spec /\ Fairness

-----------------------------------------------------------------------------
(***************************************************************************)
(* Properties                                                              *)
(***************************************************************************)
TypeOK ==
    /\ docs \in [Docs -> [status : DocStatus, raw : Contents \cup {None}]]
    /\ job.status \in JobStatus
    /\ job.overlay.rev \in Nat
    /\ DOMAIN job.overlay.entry = Channels
    /\ job.sel \in [rev : Nat, by : Clients \cup {None}]
    /\ lock \in Clients \cup {None}
    /\ DOMAIN req = Clients
    /\ DOMAIN view = Clients

\* The stored review, the declaration, the downloadable XML and the
\* workbook were each computed from exactly the evidence, the reviewer
\* entries and the regime selections that the job holds now: whatever
\* changes an input discards or recomputes what was derived from it.
DerivedIsCurrent ==
    LET now == Inputs(docs, job)
    IN  /\ job.review # None => job.review = now
        /\ job.decl # None => job.decl.in = Customs(now)
        /\ job.xml # None => job.xml.in = Customs(now)
        /\ job.bms # None => job.bms = now

\* No reviewer entry outlives the evidence it was made against: weight pins
\* go with invoice, packing and waybill changes, item entries with invoice
\* changes, shipment totals with packing and waybill changes.
EntriesFitEvidence ==
    \A ch \in Channels :
        job.overlay.entry[ch] # None =>
            job.overlay.entry[ch].ev = OfRoles(Evidence(docs), Scope(ch))

\* A declaration confirmed with a fingerprint contains the reviewer entries
\* and regime selections that the confirming client was shown: one revision
\* number never stands for two different sets of entries.
ConfirmedEntriesWereShown ==
    (job.decl # None /\ job.decl.reviewed # None) =>
        /\ Customs(job.decl.reviewed).overlay = job.decl.in.overlay
        /\ job.decl.reviewed.sel = job.decl.in.sel

\* A document is EXTRACTING only while some request is extracting it: a
\* claim is released by its own run or by the sweep after a restart.
ClaimHasRun ==
    \A d \in Docs : docs[d].status = "EXTRACTING" =>
        \E c \in Clients : req[c].op = "extract" /\ req[c].doc = d

\* A document does not stay EXTRACTING: whatever run holds the claim ends,
\* fails or is swept after a restart.
ClaimReleased ==
    \A d \in Docs : docs[d].status = "EXTRACTING" ~> docs[d].status # "EXTRACTING"

(***************************************************************************)
(* What the documentation and the comments say of the code, and the code   *)
(* does not quite keep: each of these is refuted by a run of its own.      *)
(***************************************************************************)
\* No stored review reads a document whose role mismatch is unanswered.
NoUnconfirmedDocument ==
    job.review # None =>
        \A d \in Docs : docs[d].status = "ROLE_REVIEW_REQUIRED" => job.review.ev[d] = None

\* A confirmed declaration is built from the evidence its reviewer was shown.
ConfirmedEvidenceWasShown ==
    (job.decl # None /\ job.decl.reviewed # None) =>
        job.decl.reviewed.ev = job.decl.in.ev
=============================================================================
