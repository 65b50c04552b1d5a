------------------------ MODULE DeclarationJobProofs ------------------------
(***************************************************************************)
(* Proofs about the job of DeclarationJob, for every value of its          *)
(* constants: its types, the claims on its documents, what a confirming    *)
(* client was shown, and that what is derived stays current.               *)
(***************************************************************************)
EXTENDS DeclarationJob, TLAPS

(***************************************************************************)
(* The types of everything the job keeps                                   *)
(***************************************************************************)
Rows       == [Docs -> [status : DocStatus, raw : Contents \cup {None}]]
Evidences  == [Docs -> Contents \cup {None}]
Entries    == {Entry(c, ch, ev) : c \in Clients, ch \in Channels, ev \in Evidences}
Overlays   == [rev : Nat, entry : [Channels -> Entries \cup {None}]]
Selections == [rev : Nat, by : Clients \cup {None}]
Reviews    == [ev : Evidences, overlay : Overlays, sel : Selections]

\* What a request carries: an extraction result, an edit, an answer, a yes.
Results == [raw : Contents, match : BOOLEAN]
Edits   == [ch : Channels, value : {"set", "clear"}]
Args    == Results \cup Edits \cup Answers \cup BOOLEAN \cup {None}

Declarations == [in : Reviews, answer : Args, reviewed : Reviews \cup {None}]
Jobs == [status : JobStatus, overlay : Overlays, sel : Selections,
         review : Reviews \cup {None}, decl : Declarations \cup {None},
         xml : Declarations \cup {None}, bms : Reviews \cup {None}]

Snapshots == [docs : Rows, job : Jobs]
Requests  ==
    [pc : {"idle", "insert", "reset", "running", "waiting", "locked"},
     op : Ops \cup {None}, doc : Docs \cup {None}, arg : Args,
     seen : Snapshots \cup {None}]

\* A request has the document and the argument that its next step uses.
WellFormed(r) ==
    /\ r.pc \in {"insert", "reset", "running"} =>
          r.doc \in Docs /\ (r.op = "extract" <=> r.pc = "running")
    /\ r.pc \in {"waiting", "locked"} =>
          /\ r.op = "extract" => r.doc \in Docs /\ r.arg \in Results
          /\ r.op \in {"decide", "remove"} => r.pc = "locked" /\ r.doc \in Docs
          /\ r.op = "mutate" => r.pc = "locked" /\ r.arg \in Edits

\* The one request inside its body holds the lock, and nothing has changed
\* the job row since it re-read it.
HolderIsFresh ==
    \A c \in Clients : req[c].pc = "locked" =>
        lock = c /\ req[c].seen \in Snapshots /\ req[c].seen.job = job

Typed ==
    /\ docs \in Rows
    /\ job \in Jobs
    /\ lock \in Clients \cup {None}
    /\ req \in [Clients -> Requests]
    /\ view \in [Clients -> Reviews \cup {None}]
    /\ \A c \in Clients : WellFormed(req[c])
    /\ HolderIsFresh

(***************************************************************************)
(* What a client was shown                                                 *)
(***************************************************************************)
\* A review is no newer than the job, and the same revision means the same
\* entries; the brand, model and size column moves no revision.
ShownOf(in, j) ==
    /\ in.overlay.rev <= j.overlay.rev
    /\ in.overlay.rev = j.overlay.rev =>
          Customs(in).overlay = [j.overlay EXCEPT !.entry["bms"] = None]
    /\ in.sel.rev <= j.sel.rev
    /\ in.sel.rev = j.sel.rev => in.sel = j.sel

RevisionsPin ==
    /\ job.review # None => ShownOf(job.review, job)
    /\ \A c \in Clients : view[c] # None => ShownOf(view[c], job)

ShownInv == RevisionsPin /\ ConfirmedEntriesWereShown

(***************************************************************************)
(* What is derived                                                         *)
(***************************************************************************)
\* A row that does not exist holds no extraction, and the request inside
\* its body sees the evidence as it is: what uploads, claims and failures
\* write under it changes a status and no evidence.
EvidenceIsFresh ==
    /\ \A d \in Docs : ~Exists(docs, d) => docs[d].raw = None
    /\ \A c \in Clients : req[c].pc = "locked" =>
          Evidence(req[c].seen.docs) = Evidence(docs)

CurrentInv == EvidenceIsFresh /\ DerivedIsCurrent /\ EntriesFitEvidence

\* No row that a reviewer rejected is put back by a request that does not
\* hold the lock: a re-attachment or a failure that is recorded late.
RejectionStands ==
    \A d \in Docs : docs[d].status = "ROLE_REJECTED" =>
        docs'[d].status \notin {"UPLOADED", "FAILED"}

\* Without re-attached files every document has at most one run, which finds
\* the row as it claimed it, or removed; and what a role decision read under
\* the lock is still so.
Extracting(r) == r.pc \in {"running", "waiting", "locked"} /\ r.op = "extract"

Own(r, D) ==
    /\ r.pc # "reset"
    /\ r.pc = "insert" => D[r.doc].status = "ABSENT"
    /\ Extracting(r) => D[r.doc].status \in {"EXTRACTING", "REMOVED"}
    /\ r.pc = "locked" /\ r.op \in {"decide", "remove"} => D[r.doc].status # "ABSENT"
    /\ r.pc = "locked" /\ r.op = "decide" /\ r.seen.docs[r.doc].status = "ROLE_REVIEW_REQUIRED"
          => D[r.doc].status = "ROLE_REVIEW_REQUIRED"

Apart(r, s, D) ==
    /\ r.pc = "insert" /\ s.pc = "insert" => r.doc # s.doc
    /\ Extracting(r) /\ Extracting(s) /\ r.doc = s.doc => D[r.doc].status = "REMOVED"

\* A request that does not count on what row d was, once its status is s.
Bystander(r, d, s) ==
    /\ r.pc = "insert" => r.doc # d
    /\ Extracting(r) /\ r.doc = d => s = "REMOVED"
    /\ r.pc = "locked" /\ r.op = "decide" /\ r.doc = d
          => r.seen.docs[d].status # "ROLE_REVIEW_REQUIRED"

OneRunPerDocument ==
    /\ \A c \in Clients : Own(req[c], docs)
    /\ \A c, k \in Clients : c # k => Apart(req[c], req[k], docs)

-----------------------------------------------------------------------------
(***************************************************************************)
(* The shared parts of the handlers                                        *)
(***************************************************************************)
\* The evidence of rows of the right type is of the right type.
LEMMA EvidenceType ==
    ASSUME NEW D \in Rows PROVE Evidence(D) \in Evidences
BY DEF Rows, Evidences, Evidence

\* What a review, a declaration or a workbook is computed from is a review,
\* and so is what remains of it without the brand, model and size.
LEMMA InputsType ==
    ASSUME NEW D \in Rows, NEW j \in Jobs
    PROVE  /\ Inputs(D, j) \in Reviews
           /\ Inputs(D, j).ev = Evidence(D)
           /\ Inputs(D, j).overlay = j.overlay
           /\ Inputs(D, j).sel = j.sel
BY EvidenceType DEF Inputs, Reviews, Jobs

LEMMA CustomsType ==
    ASSUME NEW in \in Reviews
    PROVE  /\ Customs(in) \in Reviews
           /\ Customs(in).ev = in.ev
           /\ Customs(in).overlay = [in.overlay EXCEPT !.entry["bms"] = None]
           /\ Customs(in).sel = in.sel
BY DEF Customs, Reviews, Overlays, Channels

LEMMA EntryType ==
    ASSUME NEW c \in Clients, NEW ch \in Channels, NEW ev \in Evidences
    PROVE  Entry(c, ch, ev) \in Entries /\ Entry(c, ch, ev).ev = OfRoles(ev, Scope(ch))
BY DEF Entries, Entry

\* What an edit and a change of evidence do to the overlay.
LEMMA ResetOverlayType ==
    ASSUME NEW o \in Overlays, NEW role
    PROVE  /\ ResetOverlay(o, role) \in Overlays
           /\ \/ ResetOverlay(o, role) = o
              \/ ResetOverlay(o, role).rev = o.rev + 1
           /\ \A ch \in Channels :
                 ResetOverlay(o, role).entry[ch] = IF ch \in Dropped(role) THEN None ELSE o.entry[ch]
<1>1. CASE \A ch \in Dropped(role) : o.entry[ch] = None
  <2>1. ResetOverlay(o, role) = o
    BY <1>1 DEF ResetOverlay
  <2> QED BY <1>1, <2>1
<1>2. CASE ~ \A ch \in Dropped(role) : o.entry[ch] = None
  <2> DEFINE entry == [ch \in Channels |-> IF ch \in Dropped(role) THEN None ELSE o.entry[ch]]
  <2>1. ResetOverlay(o, role) = [rev |-> o.rev + 1, entry |-> entry]
    BY <1>2 DEF ResetOverlay
  <2>2. entry \in [Channels -> Entries \cup {None}]
    BY DEF Overlays
  <2>3. o.rev + 1 \in Nat
    BY DEF Overlays
  <2> HIDE DEF entry
  <2>4. ResetOverlay(o, role) \in Overlays
    BY <2>1, <2>2, <2>3 DEF Overlays
  <2> QED BY <2>1, <2>4 DEF entry
<1> QED BY <1>1, <1>2

LEMMA SetEntryType ==
    ASSUME NEW o \in Overlays, NEW c \in Clients, NEW ch \in Channels, NEW value,
           NEW ev \in Evidences
    PROVE  /\ SetEntry(c, o, ch, value, ev) \in Overlays
           /\ SetEntry(c, o, ch, value, ev).rev = o.rev + 1
           /\ \A k \in Channels : SetEntry(c, o, ch, value, ev).entry[k] =
                 IF k # ch THEN o.entry[k]
                 ELSE IF value = "clear" THEN None ELSE Entry(c, ch, ev)
<1> DEFINE e == IF value = "clear" THEN None ELSE Entry(c, ch, ev)
<1>1. e \in Entries \cup {None}
  BY EntryType
<1> HIDE DEF e
<1>2. SetEntry(c, o, ch, value, ev) = [rev |-> o.rev + 1, entry |-> [o.entry EXCEPT ![ch] = e]]
  BY DEF SetEntry, e
<1>3. o.rev \in Nat /\ o.entry \in [Channels -> Entries \cup {None}]
  BY DEF Overlays
<1>4. [o.entry EXCEPT ![ch] = e] \in [Channels -> Entries \cup {None}]
  BY <1>1, <1>3
<1> QED BY <1>2, <1>3, <1>4 DEF Overlays, e

\* A change of evidence leaves nothing derived.
LEMMA EvidenceChangedType ==
    ASSUME NEW j \in Jobs, NEW d, NEW status \in JobStatus
    PROVE  /\ [EvidenceChanged(j, d) EXCEPT !.status = status] \in Jobs
           /\ [EvidenceChanged(j, d) EXCEPT !.status = status].overlay = ResetOverlay(j.overlay, Role[d])
           /\ [EvidenceChanged(j, d) EXCEPT !.status = status].sel = j.sel
           /\ [EvidenceChanged(j, d) EXCEPT !.status = status].review = None
           /\ [EvidenceChanged(j, d) EXCEPT !.status = status].decl = None
           /\ [EvidenceChanged(j, d) EXCEPT !.status = status].xml = None
           /\ [EvidenceChanged(j, d) EXCEPT !.status = status].bms = None
<1>1. ResetOverlay(j.overlay, Role[d]) \in Overlays
  BY ResetOverlayType DEF Jobs
<1> QED BY <1>1 DEF EvidenceChanged, InvalidateDerived, Jobs

LEMMA RecomputeType ==
    ASSUME NEW D \in Rows, NEW j \in Jobs
    PROVE  /\ Recompute(D, j) \in Jobs
           /\ Recompute(D, j).review = Inputs(D, j)
           /\ Recompute(D, j).overlay = j.overlay
           /\ Recompute(D, j).sel = j.sel
           /\ Recompute(D, j).decl = j.decl
           /\ Recompute(D, j).xml = j.xml
           /\ Recompute(D, j).bms = j.bms
BY InputsType DEF Recompute, Jobs, JobStatus

\* An edit, or a selection of regimes, discards everything derived and
\* computes the review anew.
LEMMA EditType ==
    ASSUME NEW D \in Rows, NEW j \in Jobs, NEW o \in Overlays
    PROVE  LET edited == [InvalidateDerived(j) EXCEPT !.overlay = o]
               next == Recompute(D, edited)
           IN  /\ next \in Jobs
               /\ next.overlay = o /\ next.sel = j.sel
               /\ next.review = [ev |-> Evidence(D), overlay |-> o, sel |-> j.sel]
               /\ next.decl = None /\ next.xml = None /\ next.bms = None
<1> DEFINE edited == [InvalidateDerived(j) EXCEPT !.overlay = o]
<1>1. /\ edited \in Jobs /\ edited.overlay = o /\ edited.sel = j.sel
      /\ edited.decl = None /\ edited.xml = None /\ edited.bms = None
  BY DEF InvalidateDerived, Jobs
<1> HIDE DEF edited
<1>2. Inputs(D, edited) = [ev |-> Evidence(D), overlay |-> o, sel |-> j.sel]
  BY <1>1 DEF Inputs
<1>3. /\ Recompute(D, edited) \in Jobs
      /\ Recompute(D, edited).overlay = o /\ Recompute(D, edited).sel = j.sel
      /\ Recompute(D, edited).review = [ev |-> Evidence(D), overlay |-> o, sel |-> j.sel]
      /\ Recompute(D, edited).decl = None /\ Recompute(D, edited).xml = None
      /\ Recompute(D, edited).bms = None
  BY <1>1, <1>2, RecomputeType
<1> QED BY <1>3 DEF edited

LEMMA SelectType ==
    ASSUME NEW D \in Rows, NEW j \in Jobs, NEW s \in Selections
    PROVE  LET edited == [InvalidateDerived(j) EXCEPT !.sel = s]
               next == Recompute(D, edited)
           IN  /\ next \in Jobs
               /\ next.overlay = j.overlay /\ next.sel = s
               /\ next.review = [ev |-> Evidence(D), overlay |-> j.overlay, sel |-> s]
               /\ next.decl = None /\ next.xml = None /\ next.bms = None
<1> DEFINE edited == [InvalidateDerived(j) EXCEPT !.sel = s]
<1>1. /\ edited \in Jobs /\ edited.overlay = j.overlay /\ edited.sel = s
      /\ edited.decl = None /\ edited.xml = None /\ edited.bms = None
  BY DEF InvalidateDerived, Jobs
<1> HIDE DEF edited
<1>2. Inputs(D, edited) = [ev |-> Evidence(D), overlay |-> j.overlay, sel |-> s]
  BY <1>1 DEF Inputs
<1>3. /\ Recompute(D, edited) \in Jobs
      /\ Recompute(D, edited).overlay = j.overlay /\ Recompute(D, edited).sel = s
      /\ Recompute(D, edited).review = [ev |-> Evidence(D), overlay |-> j.overlay, sel |-> s]
      /\ Recompute(D, edited).decl = None /\ Recompute(D, edited).xml = None
      /\ Recompute(D, edited).bms = None
  BY <1>1, <1>2, RecomputeType
<1> QED BY <1>3 DEF edited
-----------------------------------------------------------------------------
(***************************************************************************)
(* Requests and the lock                                                   *)
(***************************************************************************)
LEMMA IdleType ==
    Idle \in Requests /\ WellFormed(Idle) /\ Idle.pc = "idle" /\ Idle.doc = None
BY DEF Idle, Requests, Args, WellFormed

\* A request that neither enters nor leaves its body leaves the holder be.
LEMMA OutsideTheLock ==
    ASSUME Typed, NEW c \in Clients, req[c].pc # "locked",
           NEW r \in Requests, WellFormed(r), r.pc # "locked",
           req' = [req EXCEPT ![c] = r], UNCHANGED <<job, lock>>
    PROVE  /\ req' \in [Clients -> Requests]
           /\ \A k \in Clients : WellFormed(req'[k])
           /\ HolderIsFresh'
           /\ \A k \in Clients : req'[k].pc = "locked" => req'[k] = req[k]
<1>1. \A k \in Clients : req'[k] = IF k = c THEN r ELSE req[k]
  BY DEF Typed
<1>2. req' \in [Clients -> Requests]
  BY DEF Typed
<1>3. \A k \in Clients : WellFormed(req'[k])
  BY <1>1 DEF Typed
<1>4. \A k \in Clients : req'[k].pc = "locked" => req'[k] = req[k]
  BY <1>1
<1>5. HolderIsFresh'
  BY <1>1 DEF Typed, HolderIsFresh
<1> QED BY <1>2, <1>3, <1>4, <1>5

\* A request that gets the lock has read everything as it is.
LEMMA TakesTheLock ==
    ASSUME Typed, NEW c \in Clients, lock = None, lock' = c,
           NEW r \in Requests, WellFormed(r), r.pc = "locked", r.seen = Fresh,
           req' = [req EXCEPT ![c] = r], UNCHANGED job
    PROVE  /\ req' \in [Clients -> Requests]
           /\ \A k \in Clients : WellFormed(req'[k])
           /\ HolderIsFresh'
           /\ \A k \in Clients : req'[k].pc = "locked" => k = c
<1>1. \A k \in Clients : req'[k] = IF k = c THEN r ELSE req[k]
  BY DEF Typed
<1>2. req' \in [Clients -> Requests]
  BY DEF Typed
<1>3. \A k \in Clients : WellFormed(req'[k])
  BY <1>1 DEF Typed
<1>4. \A k \in Clients : req[k].pc # "locked"
  BY NoneFresh DEF Typed, HolderIsFresh
<1>5. Fresh \in Snapshots /\ Fresh.job = job
  BY DEF Typed, Fresh, Snapshots
<1>6. HolderIsFresh'
  BY <1>1, <1>4, <1>5 DEF HolderIsFresh
<1> QED BY <1>1, <1>2, <1>3, <1>4, <1>6

\* A request that ends leaves no request inside its body.
LEMMA DoneReleases ==
    ASSUME Typed, NEW c \in Clients, req[c].pc = "locked", Done(c)
    PROVE  /\ lock' \in Clients \cup {None}
           /\ req' \in [Clients -> Requests]
           /\ \A k \in Clients : WellFormed(req'[k])
           /\ \A k \in Clients : req'[k].pc # "locked"
           /\ \A k \in Clients : req'[k] = IF k = c THEN Idle ELSE req[k]
           /\ HolderIsFresh'
<1>1. \A k \in Clients : req'[k] = IF k = c THEN Idle ELSE req[k]
  BY DEF Typed, Done
<1>2. \A k \in Clients : req'[k].pc # "locked"
  BY <1>1, IdleType DEF Typed, HolderIsFresh
<1>3. req' \in [Clients -> Requests]
  BY IdleType DEF Typed, Done
<1>4. \A k \in Clients : WellFormed(req'[k])
  BY <1>1, IdleType DEF Typed
<1> QED BY <1>1, <1>2, <1>3, <1>4 DEF HolderIsFresh, Done

\* What a request inside its body works on is the job as it is.
LEMMA BodyReads ==
    ASSUME Typed, NEW c \in Clients, req[c].pc = "locked"
    PROVE  /\ req[c].seen.docs \in Rows
           /\ req[c].seen.job = job
           /\ Inputs(req[c].seen.docs, job) \in Reviews
           /\ req[c].arg \in Args
<1>1. req[c].seen \in Snapshots /\ req[c].seen.job = job /\ req[c] \in Requests
  BY DEF Typed, HolderIsFresh
<1>2. req[c].seen.docs \in Rows /\ req[c].arg \in Args
  BY <1>1 DEF Snapshots, Requests
<1> QED BY <1>1, <1>2, InputsType DEF Typed

LEMMA ShowType ==
    ASSUME Typed, NEW c \in Clients, NEW in \in Reviews \cup {None}, Show(c, in)
    PROVE  /\ view' \in [Clients -> Reviews \cup {None}]
           /\ \A k \in Clients : view'[k] = view[k] \/ view'[k] = in
BY DEF Typed, Show

-----------------------------------------------------------------------------
(***************************************************************************)
(* What each body writes, by its kind                                      *)
(***************************************************************************)
\* The rows other than d stay, and so does nothing that was derived.
EvidenceStep(d) ==
    /\ d \in Docs
    /\ docs' \in Rows /\ job' \in Jobs /\ view' = view
    /\ \A e \in Docs \ {d} : docs'[e] = docs[e]
    /\ ~Exists(docs', d) => docs'[d].raw = None
    /\ job'.overlay = ResetOverlay(job.overlay, Role[d])
    /\ job'.sel = job.sel
    /\ job'.review = None /\ job'.decl = None /\ job'.xml = None /\ job'.bms = None

\* A review is computed, and shown; nothing else changes.
ReviewStep(c) ==
    /\ docs' = docs /\ job' \in Jobs
    /\ job'.overlay = job.overlay /\ job'.sel = job.sel
    /\ job'.decl = job.decl /\ job'.xml = job.xml /\ job'.bms = job.bms
    /\ job'.review = Inputs(req[c].seen.docs, job)
    /\ view' \in [Clients -> Reviews \cup {None}]
    /\ \A k \in Clients : view'[k] = view[k] \/ view'[k] = job'.review

\* An input changes, the review is computed from it, and the rest goes.
EditStep(c) ==
    /\ docs' = docs /\ job' \in Jobs
    /\ job'.review = [ev |-> Evidence(req[c].seen.docs), overlay |-> job'.overlay, sel |-> job'.sel]
    /\ job'.decl = None /\ job'.xml = None /\ job'.bms = None
    /\ view' \in [Clients -> Reviews \cup {None}]
    /\ \A k \in Clients : view'[k] = view[k] \/ view'[k] = job'.review

LEMMA ExtractEffect ==
    ASSUME Typed, NEW c \in Clients, CommitExtract(c)
    PROVE  /\ req[c].pc = "locked" /\ Done(c)
           /\ \/ ~Exists(docs, req[c].doc) /\ UNCHANGED <<docs, job, view>>
              \/ /\ EvidenceStep(req[c].doc) /\ Exists(docs, req[c].doc)
                 /\ docs'[req[c].doc].status \in {"EXTRACTED", "ROLE_REVIEW_REQUIRED"}
<1> DEFINE d == req[c].doc
           row == [status |-> IF req[c].arg.match THEN "EXTRACTED" ELSE "ROLE_REVIEW_REQUIRED",
                   raw    |-> req[c].arg.raw]
<1>1. req[c].pc = "locked" /\ req[c].op = "extract"
  BY DEF CommitExtract, InBody
<1>2. d \in Docs /\ req[c].arg \in Results
  BY <1>1 DEF Typed, WellFormed
<1>3. req[c].seen.job = job
  BY <1>1, BodyReads
<1>4. CASE ~Exists(docs, d)
  BY <1>1, <1>4 DEF CommitExtract, Refuse
<1>5. CASE Exists(docs, d)
  <2>1. /\ docs' = [docs EXCEPT ![d] = row]
        /\ job' = [EvidenceChanged(job, d) EXCEPT !.status = "EXTRACTION_COMPLETE"]
        /\ Done(c) /\ view' = view
    BY <1>3, <1>5 DEF CommitExtract
  <2>2. row.status \in {"EXTRACTED", "ROLE_REVIEW_REQUIRED"}
    OBVIOUS
  <2>3. row.raw \in Contents
    BY <1>2 DEF Results
  <2>4. row \in [status : DocStatus, raw : Contents \cup {None}]
    BY <2>3 DEF DocStatus
  <2>5. docs'[d] = row /\ docs' \in Rows /\ \A e \in Docs \ {d} : docs'[e] = docs[e]
    BY <1>2, <2>1, <2>4 DEF Typed, Rows
  <2>6. Exists(docs', d)
    BY <2>2, <2>5 DEF Exists
  <2>7. "EXTRACTION_COMPLETE" \in JobStatus /\ job \in Jobs
    BY DEF Typed, JobStatus
  <2> HIDE DEF row
  <2>8. EvidenceStep(d)
    BY <1>2, <2>1, <2>5, <2>6, <2>7, EvidenceChangedType DEF EvidenceStep
  <2> QED BY <1>1, <1>5, <2>1, <2>2, <2>5, <2>8 DEF row
<1> QED BY <1>4, <1>5

LEMMA DecideEffect ==
    ASSUME Typed, NEW c \in Clients, CommitDecide(c)
    PROVE  /\ req[c].pc = "locked" /\ Done(c)
           /\ \/ UNCHANGED <<docs, job, view>>
              \/ /\ EvidenceStep(req[c].doc)
                 /\ req[c].op = "decide"
                 /\ req[c].seen.docs[req[c].doc].status = "ROLE_REVIEW_REQUIRED"
                 /\ docs'[req[c].doc].status \in {"EXTRACTED", "ROLE_REJECTED"}
<1> DEFINE d == req[c].doc
           status == IF req[c].arg THEN "EXTRACTED" ELSE "ROLE_REJECTED"
<1>1. req[c].pc = "locked" /\ req[c].op = "decide"
  BY DEF CommitDecide, InBody
<1>2. d \in Docs
  BY <1>1 DEF Typed, WellFormed
<1>3. req[c].seen.job = job
  BY <1>1, BodyReads
<1>4. CASE req[c].seen.docs[d].status # "ROLE_REVIEW_REQUIRED"
  BY <1>1, <1>4 DEF CommitDecide, Refuse
<1>5. CASE req[c].seen.docs[d].status = "ROLE_REVIEW_REQUIRED"
  <2>1. /\ docs' = [docs EXCEPT ![d].status = status]
        /\ job' = [EvidenceChanged(job, d) EXCEPT !.status = "EXTRACTION_COMPLETE"]
        /\ Done(c) /\ view' = view
    BY <1>3, <1>5 DEF CommitDecide
  <2>2. status \in {"EXTRACTED", "ROLE_REJECTED"}
    OBVIOUS
  <2> HIDE DEF status
  <2>3. /\ docs' \in Rows
        /\ docs'[d].status = status
        /\ \A e \in Docs \ {d} : docs'[e] = docs[e]
    BY <1>2, <2>1, <2>2 DEF Typed, Rows, DocStatus
  <2>4. Exists(docs', d)
    BY <2>2, <2>3 DEF Exists
  <2>5. EvidenceStep(d)
    BY <1>2, <2>1, <2>3, <2>4, EvidenceChangedType DEF Typed, EvidenceStep, JobStatus
  <2> QED BY <1>1, <1>5, <2>1, <2>2, <2>3, <2>5
<1> QED BY <1>4, <1>5

LEMMA RemoveEffect ==
    ASSUME Typed, NEW c \in Clients, CommitRemove(c)
    PROVE  /\ req[c].pc = "locked" /\ Done(c)
           /\ \/ UNCHANGED <<docs, job, view>>
              \/ /\ EvidenceStep(req[c].doc)
                 /\ docs'[req[c].doc].status = "REMOVED"
<1> DEFINE d == req[c].doc
           remaining == {e \in Docs \ {d} : req[c].seen.docs[e].status = "EXTRACTED"}
           status == IF remaining # {} THEN "EXTRACTION_COMPLETE" ELSE "UPLOADING"
<1>1. req[c].pc = "locked" /\ req[c].op = "remove"
  BY DEF CommitRemove, InBody
<1>2. d \in Docs
  BY <1>1 DEF Typed, WellFormed
<1>3. req[c].seen.job = job
  BY <1>1, BodyReads
<1>4. CASE req[c].seen.docs[d].status \in {"EXTRACTING", "REMOVED"}
  BY <1>1, <1>4 DEF CommitRemove, Refuse
<1>5. CASE req[c].seen.docs[d].status \notin {"EXTRACTING", "REMOVED"}
  <2>1. /\ docs' = [docs EXCEPT ![d] = [status |-> "REMOVED", raw |-> None]]
        /\ job' = [EvidenceChanged(job, d) EXCEPT !.status = status]
        /\ Done(c) /\ view' = view
    BY <1>3, <1>5 DEF CommitRemove
  <2>2. status \in JobStatus
    BY DEF JobStatus
  <2> HIDE DEF status
  <2>3. /\ docs' \in Rows
        /\ docs'[d].status = "REMOVED" /\ docs'[d].raw = None
        /\ \A e \in Docs \ {d} : docs'[e] = docs[e]
    BY <1>2, <2>1 DEF Typed, Rows, DocStatus
  <2>4. EvidenceStep(d)
    BY <1>2, <2>1, <2>2, <2>3, EvidenceChangedType DEF Typed, EvidenceStep
  <2> QED BY <1>1, <2>1, <2>3, <2>4
<1> QED BY <1>4, <1>5

LEMMA ReviewEffect ==
    ASSUME Typed, NEW c \in Clients, CommitReview(c)
    PROVE  req[c].pc = "locked" /\ Done(c) /\ ReviewStep(c)
<1> DEFINE D == req[c].seen.docs
<1>1. req[c].pc = "locked"
  BY DEF CommitReview, InBody
<1>2. req[c].seen.job = job /\ D \in Rows /\ Inputs(D, job) \in Reviews /\ job \in Jobs
  BY <1>1, BodyReads DEF Typed
<1>3. Done(c) /\ docs' = docs /\ job' = Recompute(D, job) /\ Show(c, Inputs(D, job))
  BY <1>2 DEF CommitReview
<1>4. /\ view' \in [Clients -> Reviews \cup {None}]
      /\ \A k \in Clients : view'[k] = view[k] \/ view'[k] = Inputs(D, job)
  BY <1>2, <1>3, ShowType
<1> QED BY <1>1, <1>2, <1>3, <1>4, RecomputeType DEF ReviewStep

\* What finalize may write: the review of a client whose fingerprint is
\* stale, the status alone, or the declaration and what is rendered from it.
LEMMA FinalizeEffect ==
    ASSUME Typed, NEW c \in Clients, CommitFinalize(c)
    PROVE  LET in == Inputs(req[c].seen.docs, job)
               decl == Declaration(c, in)
           IN  /\ req[c].pc = "locked" /\ Done(c) /\ docs' = docs
               /\ \/ ReviewStep(c)
                  \/ /\ job' \in Jobs /\ view' = view
                     /\ job'.overlay = job.overlay /\ job'.sel = job.sel
                     /\ job'.review = job.review
                     /\ job'.decl = job.decl /\ job'.xml = job.xml /\ job'.bms = job.bms
                  \/ /\ job' \in Jobs /\ view' = view
                     /\ job'.overlay = job.overlay /\ job'.sel = job.sel
                     /\ job'.review = job.review
                     /\ job'.decl = decl /\ job'.xml \in {job.xml, decl}
                     /\ job'.bms \in {job.bms, in}
                     /\ decl.in = Customs(in) /\ decl.reviewed \in Reviews \cup {None}
                     /\ decl.reviewed # None =>
                           decl.reviewed = view[c] /\ Fingerprint(view[c]) = Fingerprint(in)
<1> DEFINE D == req[c].seen.docs
           in == Inputs(D, job)
           answer == req[c].arg
           stale == req[c].op = "confirm" /\ Fingerprint(view[c]) # Fingerprint(in)
           decl == Declaration(c, in)
           status == IF answer = "ready" THEN "XML_READY" ELSE "VALIDATION_BLOCKED"
<1>1. req[c].pc = "locked" /\ Done(c) /\ docs' = docs
  BY DEF CommitFinalize, InBody
<1>2. req[c].seen.job = job /\ D \in Rows /\ in \in Reviews /\ job \in Jobs /\ answer \in Args
  BY <1>1, BodyReads DEF Typed
<1>3. \/ stale /\ job' = Recompute(D, job) /\ Show(c, in)
      \/ job' = [job EXCEPT !.status = "EXTRACTION_RUNNING"] /\ view' = view
      \/ /\ ~stale /\ view' = view
         /\ \E bms_built \in BOOLEAN :
               job' = [job EXCEPT
                  !.decl = decl,
                  !.xml = IF BuildXml(answer) THEN decl ELSE @,
                  !.bms = IF BuildXml(answer) /\ bms_built THEN in ELSE @,
                  !.status = status]
  BY <1>2 DEF CommitFinalize
<1>4. CASE stale /\ job' = Recompute(D, job) /\ Show(c, in)
  <2>1. /\ view' \in [Clients -> Reviews \cup {None}]
        /\ \A k \in Clients : view'[k] = view[k] \/ view'[k] = in
    BY <1>2, <1>4, ShowType
  <2>2. ReviewStep(c)
    BY <1>1, <1>2, <1>4, <2>1, RecomputeType DEF ReviewStep
  <2> QED BY <1>1, <2>2
<1>5. CASE job' = [job EXCEPT !.status = "EXTRACTION_RUNNING"] /\ view' = view
  BY <1>1, <1>2, <1>5 DEF Jobs, JobStatus
<1>6. CASE /\ ~stale /\ view' = view
           /\ \E bms_built \in BOOLEAN :
                 job' = [job EXCEPT
                    !.decl = decl,
                    !.xml = IF BuildXml(answer) THEN decl ELSE @,
                    !.bms = IF BuildXml(answer) /\ bms_built THEN in ELSE @,
                    !.status = status]
  <2>1. /\ decl.in = Customs(in) /\ decl.answer = answer
        /\ decl.reviewed = IF req[c].op = "confirm" THEN view[c] ELSE None
        /\ decl = [in |-> decl.in, answer |-> decl.answer, reviewed |-> decl.reviewed]
    BY DEF Declaration
  <2>2. decl.reviewed \in Reviews \cup {None}
    BY <2>1 DEF Typed
  <2>3. decl.in \in Reviews
    BY <1>2, <2>1, CustomsType
  <2>4. decl \in Declarations
    BY <1>2, <2>1, <2>2, <2>3 DEF Declarations
  <2>5. decl.reviewed # None => decl.reviewed = view[c] /\ Fingerprint(view[c]) = Fingerprint(in)
    BY <1>6, <2>1
  <2>6. status \in JobStatus
    BY DEF JobStatus
  <2>7. PICK x, b : /\ x \in {job.xml, decl} /\ b \in {job.bms, in}
                    /\ job' = [job EXCEPT !.decl = decl, !.xml = x, !.bms = b, !.status = status]
    <3>1. PICK bms_built \in BOOLEAN :
              job' = [job EXCEPT
                 !.decl = decl,
                 !.xml = IF BuildXml(answer) THEN decl ELSE @,
                 !.bms = IF BuildXml(answer) /\ bms_built THEN in ELSE @,
                 !.status = status]
      BY <1>6
    <3> HIDE DEF decl, in, answer, status
    <3> QED BY <1>2, <3>1 DEF Jobs
  <2> HIDE DEF decl, in, answer, status
  <2>8. x \in Declarations \cup {None} /\ b \in Reviews \cup {None}
    BY <1>2, <2>4, <2>7 DEF Jobs
  <2>9. /\ job' \in Jobs
        /\ job'.overlay = job.overlay /\ job'.sel = job.sel /\ job'.review = job.review
        /\ job'.decl = decl /\ job'.xml = x /\ job'.bms = b
    BY <1>2, <2>4, <2>6, <2>7, <2>8 DEF Jobs
  <2> QED BY <1>1, <1>6, <2>1, <2>2, <2>5, <2>7, <2>9 DEF decl, in
<1> QED BY <1>3, <1>4, <1>5, <1>6

LEMMA MutateEffect ==
    ASSUME Typed, NEW c \in Clients, CommitMutate(c)
    PROVE  /\ req[c].pc = "locked" /\ Done(c)
           /\ \/ UNCHANGED <<docs, job, view>>
              \/ /\ EditStep(c)
                 /\ job'.overlay.rev = job.overlay.rev + 1 /\ job'.sel = job.sel
                 /\ \A ch \in Channels :
                       \/ job'.overlay.entry[ch] \in {None, job.overlay.entry[ch]}
                       \/ job'.overlay.entry[ch] = Entry(c, ch, Evidence(req[c].seen.docs))
<1> DEFINE D == req[c].seen.docs
           ch == req[c].arg.ch
           o == SetEntry(c, job.overlay, ch, req[c].arg.value, Evidence(D))
           next == Recompute(D, [InvalidateDerived(job) EXCEPT !.overlay = o])
<1>1. req[c].pc = "locked" /\ req[c].op = "mutate"
  BY DEF CommitMutate, InBody
<1>2. req[c].seen.job = job /\ D \in Rows /\ job \in Jobs /\ job.overlay \in Overlays
  BY <1>1, BodyReads DEF Typed, Jobs
<1>3. ch \in Channels
  BY <1>1 DEF Typed, WellFormed, Edits
<1>4. CASE ~ItemMutable(D, job) \/ job.overlay.rev >= MaxRev
  BY <1>1, <1>2, <1>4 DEF CommitMutate, Refuse
<1>5. CASE ~(~ItemMutable(D, job) \/ job.overlay.rev >= MaxRev)
  <2>1. job' = next /\ Show(c, next.review) /\ Done(c) /\ docs' = docs
    BY <1>2, <1>5 DEF CommitMutate
  <2>2. o \in Overlays /\ o.rev = job.overlay.rev + 1
    BY <1>2, <1>3, EvidenceType, SetEntryType
  <2>3. \A k \in Channels : \/ o.entry[k] \in {None, job.overlay.entry[k]}
                            \/ o.entry[k] = Entry(c, k, Evidence(D))
    BY <1>2, <1>3, EvidenceType, SetEntryType
  <2> HIDE DEF o, ch
  <2>4. /\ next \in Jobs
        /\ next.overlay = o /\ next.sel = job.sel
        /\ next.review = [ev |-> Evidence(D), overlay |-> o, sel |-> job.sel]
        /\ next.decl = None /\ next.xml = None /\ next.bms = None
    BY <1>2, <2>2, EditType
  <2> HIDE DEF next
  <2>5. next.review \in Reviews
    BY <1>2, <2>2, <2>4, EvidenceType DEF Reviews, Jobs
  <2>6. /\ view' \in [Clients -> Reviews \cup {None}]
        /\ \A k \in Clients : view'[k] = view[k] \/ view'[k] = next.review
    BY <2>1, <2>5, ShowType
  <2>7. EditStep(c)
    BY <2>1, <2>4, <2>6 DEF EditStep
  <2> QED BY <1>1, <2>1, <2>2, <2>3, <2>4, <2>7
<1> QED BY <1>4, <1>5

\* Brand, model and size: the review anew, the workbook anew when there is
\* one, and the declaration and the XML as they are.
LEMMA BmsEffect ==
    ASSUME Typed, NEW c \in Clients, CommitBms(c)
    PROVE  /\ req[c].pc = "locked" /\ Done(c) /\ docs' = docs
           /\ \/ UNCHANGED <<job, view>>
              \/ LET ev == Evidence(req[c].seen.docs)
                 IN  /\ job' \in Jobs
                     /\ job'.overlay = [job.overlay EXCEPT !.entry["bms"] = Entry(c, "bms", ev)]
                     /\ job'.sel = job.sel /\ job'.decl = job.decl /\ job'.xml = job.xml
                     /\ job'.review = [ev |-> ev, overlay |-> job'.overlay, sel |-> job.sel]
                     /\ job.bms = None => job'.bms = None
                     /\ job.bms # None => job'.bms = job'.review
                     /\ view' \in [Clients -> Reviews \cup {None}]
                     /\ \A k \in Clients : view'[k] = view[k] \/ view'[k] = job'.review
<1> DEFINE D == req[c].seen.docs
           e == Entry(c, "bms", Evidence(D))
           edited == [job EXCEPT !.overlay.entry["bms"] = e]
           o == [job.overlay EXCEPT !.entry["bms"] = e]
           in == [ev |-> Evidence(D), overlay |-> o, sel |-> job.sel]
<1>1. req[c].pc = "locked"
  BY DEF CommitBms, InBody
<1>2. req[c].seen.job = job /\ D \in Rows /\ job \in Jobs /\ job.overlay \in Overlays
  BY <1>1, BodyReads DEF Typed, Jobs
<1>3. CASE ~RequireExtracted(D)
  BY <1>1, <1>2, <1>3 DEF CommitBms, Refuse
<1>4. CASE RequireExtracted(D)
  <2>1. /\ job' = [edited EXCEPT !.review = Inputs(D, edited),
                                 !.bms = IF @ = None THEN None ELSE Inputs(D, edited)]
        /\ Show(c, Inputs(D, edited)) /\ Done(c) /\ docs' = docs
    BY <1>2, <1>4 DEF CommitBms
  <2>2. e \in Entries
    BY <1>2, EvidenceType, EntryType DEF Channels
  <2> HIDE DEF e
  <2>3. o \in Overlays
    BY <1>2, <2>2 DEF Overlays
  <2>4. edited = [job EXCEPT !.overlay = o]
    BY <1>2 DEF Jobs
  <2> HIDE DEF o
  <2>5. /\ edited \in Jobs /\ edited.overlay = o /\ edited.sel = job.sel
        /\ edited.decl = job.decl /\ edited.xml = job.xml /\ edited.bms = job.bms
    BY <1>2, <2>3, <2>4 DEF Jobs
  <2> HIDE DEF edited
  <2>6. Inputs(D, edited) = in
    BY <2>5 DEF Inputs
  <2>7. in \in Reviews
    BY <1>2, <2>5, <2>6, InputsType
  <2> HIDE DEF in
  <2>8. PICK b \in Reviews \cup {None} :
            /\ b = (IF job.bms = None THEN None ELSE in)
            /\ job' = [edited EXCEPT !.review = in, !.bms = b]
    BY <2>1, <2>5, <2>6, <2>7 DEF Jobs
  <2>9. /\ job' \in Jobs /\ job'.overlay = o /\ job'.sel = job.sel
        /\ job'.decl = job.decl /\ job'.xml = job.xml
        /\ job'.review = in /\ job'.bms = b
    BY <2>5, <2>7, <2>8 DEF Jobs
  <2>10. /\ view' \in [Clients -> Reviews \cup {None}]
         /\ \A k \in Clients : view'[k] = view[k] \/ view'[k] = in
    BY <2>1, <2>6, <2>7, ShowType
  <2> QED BY <1>1, <2>1, <2>8, <2>9, <2>10 DEF o, e, in
<1> QED BY <1>3, <1>4

\* A regime selection; one that changes nothing shows the stored review.
LEMMA RegimeEffect ==
    ASSUME Typed, NEW c \in Clients, CommitRegime(c)
    PROVE  /\ req[c].pc = "locked" /\ Done(c)
           /\ \/ UNCHANGED <<docs, job, view>>
              \/ /\ UNCHANGED <<docs, job>>
                 /\ view' \in [Clients -> Reviews \cup {None}]
                 /\ \A k \in Clients : view'[k] = view[k] \/ view'[k] = job.review
              \/ /\ EditStep(c)
                 /\ job'.overlay = job.overlay /\ job'.sel.rev = job.sel.rev + 1
<1> DEFINE D == req[c].seen.docs
           selected == [rev |-> job.sel.rev + 1, by |-> c]
           next == Recompute(D, [InvalidateDerived(job) EXCEPT !.sel = selected])
<1>1. req[c].pc = "locked"
  BY DEF CommitRegime, InBody
<1>2. req[c].seen.job = job /\ D \in Rows /\ job \in Jobs
  BY <1>1, BodyReads DEF Typed
<1>3. \/ Refuse(c)
      \/ Done(c) /\ Show(c, job.review) /\ UNCHANGED <<docs, job>>
      \/ Done(c) /\ job' = next /\ Show(c, next.review) /\ docs' = docs
  BY <1>2 DEF CommitRegime
<1>4. CASE Refuse(c)
  BY <1>1, <1>4 DEF Refuse
<1>5. CASE Done(c) /\ Show(c, job.review) /\ UNCHANGED <<docs, job>>
  <2>1. job.review \in Reviews \cup {None}
    BY <1>2 DEF Jobs
  <2> QED BY <1>1, <1>5, <2>1, ShowType
<1>6. CASE Done(c) /\ job' = next /\ Show(c, next.review) /\ docs' = docs
  <2>1. selected \in Selections /\ selected.rev = job.sel.rev + 1
    BY <1>2 DEF Jobs, Selections
  <2> HIDE DEF selected
  <2>2. /\ next \in Jobs
        /\ next.overlay = job.overlay /\ next.sel = selected
        /\ next.review = [ev |-> Evidence(D), overlay |-> job.overlay, sel |-> selected]
        /\ next.decl = None /\ next.xml = None /\ next.bms = None
    BY <1>2, <2>1, SelectType
  <2> HIDE DEF next
  <2>3. next.review \in Reviews
    BY <1>2, <2>1, <2>2, EvidenceType DEF Reviews, Jobs
  <2>4. /\ view' \in [Clients -> Reviews \cup {None}]
        /\ \A k \in Clients : view'[k] = view[k] \/ view'[k] = next.review
    BY <1>6, <2>3, ShowType
  <2>5. EditStep(c)
    BY <1>6, <2>2, <2>4 DEF EditStep
  <2> QED BY <1>1, <1>6, <2>1, <2>2, <2>5
<1> QED BY <1>3, <1>4, <1>5, <1>6

-----------------------------------------------------------------------------
(***************************************************************************)
(* Everything else: requests that arrive, wait, claim, insert and fail,    *)
(* and the restart.  None of it touches the job row, and of the documents  *)
(* it writes only a status.                                                *)
(***************************************************************************)
QuietStep ==
    /\ docs' \in Rows
    /\ \A d \in Docs :
          \/ docs'[d] = docs[d]
          \/ /\ docs'[d].raw = docs[d].raw
             /\ docs'[d].status \in {"UPLOADED", "EXTRACTING", "FAILED"}
             /\ docs'[d].status = "EXTRACTING" => docs[d].status \in {"UPLOADED", "FAILED"}
    /\ UNCHANGED <<job, view>>
    /\ lock' \in Clients \cup {None}
    /\ req' \in [Clients -> Requests]
    /\ \A k \in Clients : WellFormed(req'[k])
    /\ HolderIsFresh'
    /\ \A k \in Clients : req'[k].pc = "locked" =>
          \/ req'[k] = req[k]
          \/ req'[k].seen = Fresh /\ docs' = docs

\* A request that has just arrived and waits, or works, outside the lock.
LEMMA ArrivesOutside ==
    ASSUME Typed, NEW c \in Clients, req[c] = Idle,
           NEW r \in Requests, WellFormed(r), r.pc # "locked",
           req' = [req EXCEPT ![c] = r], UNCHANGED <<docs, job, lock, view>>
    PROVE  QuietStep
<1>1. req[c].pc # "locked"
  BY IdleType
<1>2. /\ req' \in [Clients -> Requests]
      /\ \A k \in Clients : WellFormed(req'[k])
      /\ HolderIsFresh'
      /\ \A k \in Clients : req'[k].pc = "locked" => req'[k] = req[k]
  BY <1>1, OutsideTheLock
<1> QED BY <1>2 DEF QuietStep, Typed

LEMMA StartQuiet ==
    ASSUME Typed, NEW c \in Clients, NEW op \in {"review", "finalize", "confirm"},
           NEW arg \in Answers \cup {None}, Start(c, op, arg)
    PROVE  QuietStep
<1> DEFINE r == [Idle EXCEPT !.pc = "waiting", !.op = op, !.arg = arg]
<1>1. op \in Ops /\ arg \in Args
  BY DEF Start, Args
<1>2. r \in Requests /\ r.pc = "waiting" /\ r.op = op
  BY <1>1, IdleType DEF Requests
<1> HIDE DEF r
<1>3. WellFormed(r) /\ r.pc # "locked"
  BY <1>2 DEF WellFormed
<1> QED BY <1>2, <1>3, ArrivesOutside DEF Start, r

LEMMA EnterQuiet ==
    ASSUME Typed, NEW c \in Clients, NEW op, NEW d \in Docs \cup {None}, NEW arg \in Args,
           Enter(c, op, d, arg),
           op # "extract", op \in {"decide", "remove"} => d \in Docs,
           op = "mutate" => arg \in Edits
    PROVE  QuietStep
<1> DEFINE r == [pc |-> "locked", op |-> op, doc |-> d, arg |-> arg, seen |-> Fresh]
<1>1. op \in Ops /\ Fresh \in Snapshots
  BY DEF Enter, Fresh, Snapshots, Typed
<1>2. r \in Requests /\ WellFormed(r) /\ r.pc = "locked" /\ r.seen = Fresh
  BY <1>1 DEF Requests, WellFormed
<1>3. lock = None /\ lock' = c /\ req' = [req EXCEPT ![c] = r] /\ UNCHANGED <<docs, job, view>>
  BY DEF Enter
<1> HIDE DEF r
<1>4. /\ req' \in [Clients -> Requests]
      /\ \A k \in Clients : WellFormed(req'[k])
      /\ HolderIsFresh'
      /\ \A k \in Clients : req'[k].pc = "locked" => k = c
  BY <1>2, <1>3, TakesTheLock
<1>5. req'[c] = r
  BY <1>3 DEF Typed
<1> QED BY <1>2, <1>3, <1>4, <1>5 DEF QuietStep, Typed

LEMMA CheckQuiet ==
    ASSUME Typed, NEW c \in Clients, NEW d \in Docs, UploadCheck(c, d) \/ ReuploadCheck(c, d)
    PROVE  QuietStep
<1>1. CASE UploadCheck(c, d)
  <2> DEFINE r == [Idle EXCEPT !.pc = "insert", !.op = "upload", !.doc = d]
  <2>1. "upload" \in Ops
    BY <1>1 DEF UploadCheck
  <2>2. r \in Requests /\ r.pc = "insert" /\ r.op = "upload" /\ r.doc = d
    BY <2>1, IdleType DEF Requests
  <2> HIDE DEF r
  <2>3. WellFormed(r) /\ r.pc # "locked"
    BY <2>2 DEF WellFormed
  <2> QED BY <1>1, <2>2, <2>3, ArrivesOutside DEF UploadCheck, r
<1>2. CASE ReuploadCheck(c, d)
  <2> DEFINE r == [Idle EXCEPT !.pc = "reset", !.op = "reupload", !.doc = d]
  <2>1. "reupload" \in Ops
    BY <1>2 DEF ReuploadCheck
  <2>2. r \in Requests /\ r.pc = "reset" /\ r.op = "reupload" /\ r.doc = d
    BY <2>1, IdleType DEF Requests
  <2> HIDE DEF r
  <2>3. WellFormed(r) /\ r.pc # "locked"
    BY <2>2 DEF WellFormed
  <2> QED BY <1>2, <2>2, <2>3, ArrivesOutside DEF ReuploadCheck, r
<1> QED BY <1>1, <1>2

LEMMA ClaimQuiet ==
    ASSUME Typed, NEW c \in Clients, NEW d \in Docs, Claim(c, d)
    PROVE  QuietStep
<1> DEFINE r == [Idle EXCEPT !.pc = "running", !.op = "extract", !.doc = d]
<1>1. "extract" \in Ops /\ req[c] = Idle
  BY DEF Claim
<1>2. r \in Requests /\ r.pc = "running" /\ r.op = "extract" /\ r.doc = d
  BY <1>1, IdleType DEF Requests
<1>3. /\ docs[d].status \in {"UPLOADED", "FAILED"}
      /\ docs' = [docs EXCEPT ![d].status = "EXTRACTING"]
      /\ req' = [req EXCEPT ![c] = r] /\ UNCHANGED <<job, lock, view>>
  BY DEF Claim
<1> HIDE DEF r
<1>4. WellFormed(r) /\ r.pc # "locked"
  BY <1>2 DEF WellFormed
<1>5. /\ docs' \in Rows
      /\ docs'[d].status = "EXTRACTING" /\ docs'[d].raw = docs[d].raw
      /\ \A e \in Docs \ {d} : docs'[e] = docs[e]
  BY <1>3 DEF Typed, Rows, DocStatus
<1>6. req[c].pc # "locked"
  BY <1>1, IdleType
<1>7. /\ req' \in [Clients -> Requests]
      /\ \A k \in Clients : WellFormed(req'[k])
      /\ HolderIsFresh'
      /\ \A k \in Clients : req'[k].pc = "locked" => req'[k] = req[k]
  BY <1>2, <1>3, <1>4, <1>6, OutsideTheLock
<1> QED BY <1>3, <1>5, <1>7 DEF QuietStep, Typed

\* A row written by id without the lock, by a request that ends with it.
LEMMA EndsOutside ==
    ASSUME Typed, NEW c \in Clients, req[c].pc \in {"insert", "reset", "running"},
           NEW status \in {"UPLOADED", "FAILED"},
           \/ docs' = docs
           \/ docs' = [docs EXCEPT ![req[c].doc].status = status],
           req' = [req EXCEPT ![c] = Idle], UNCHANGED <<job, lock, view>>
    PROVE  QuietStep
<1>1. req[c].doc \in Docs /\ req[c].pc # "locked"
  BY DEF Typed, WellFormed
<1>2. /\ req' \in [Clients -> Requests]
      /\ \A k \in Clients : WellFormed(req'[k])
      /\ HolderIsFresh'
      /\ \A k \in Clients : req'[k].pc = "locked" => req'[k] = req[k]
  BY <1>1, IdleType, OutsideTheLock
<1>3. CASE docs' = docs
  BY <1>2, <1>3 DEF QuietStep, Typed
<1>4. CASE docs' = [docs EXCEPT ![req[c].doc].status = status]
  <2>1. /\ docs' \in Rows
        /\ docs'[req[c].doc].status = status
        /\ docs'[req[c].doc].raw = docs[req[c].doc].raw
        /\ \A e \in Docs \ {req[c].doc} : docs'[e] = docs[e]
    BY <1>1, <1>4 DEF Typed, Rows, DocStatus
  <2> QED BY <1>1, <1>2, <2>1 DEF QuietStep, Typed
<1> QED BY <1>3, <1>4

LEMMA EndingQuiet ==
    ASSUME Typed, NEW c \in Clients, UploadInsert(c) \/ UploadReset(c) \/ ExtractFails(c)
    PROVE  QuietStep
<1>1. CASE UploadInsert(c)
  BY <1>1, EndsOutside DEF UploadInsert
<1>2. CASE UploadReset(c)
  BY <1>2, EndsOutside DEF UploadReset
<1>3. CASE ExtractFails(c)
  BY <1>3, EndsOutside DEF ExtractFails
<1> QED BY <1>1, <1>2, <1>3

LEMMA ReturnsQuiet ==
    ASSUME Typed, NEW c \in Clients, NEW content \in Contents, NEW role_match \in BOOLEAN,
           ExtractReturns(c, content, role_match)
    PROVE  QuietStep
<1> DEFINE arg == [raw |-> content, match |-> role_match]
           r == [req[c] EXCEPT !.pc = "waiting", !.arg = arg]
<1>1. req[c].pc = "running" /\ req[c].op = "extract" /\ req[c] \in Requests /\ req[c].doc \in Docs
  BY DEF ExtractReturns, Typed, WellFormed
<1>2. arg \in Results /\ arg \in Args
  BY DEF Results, Args
<1>3. req' = [req EXCEPT ![c].pc = "waiting", ![c].arg = arg] /\ UNCHANGED <<docs, job, lock, view>>
  BY DEF ExtractReturns
<1> HIDE DEF arg
<1>4. r \in Requests /\ r.pc = "waiting" /\ r.op = "extract" /\ r.doc = req[c].doc /\ r.arg = arg
  BY <1>1, <1>2 DEF Requests
<1>5. req' = [req EXCEPT ![c] = r]
  BY <1>1, <1>3 DEF Typed, Requests
<1> HIDE DEF r
<1>6. WellFormed(r)
  BY <1>1, <1>2, <1>4 DEF WellFormed
<1>7. /\ req' \in [Clients -> Requests]
      /\ \A k \in Clients : WellFormed(req'[k])
      /\ HolderIsFresh'
      /\ \A k \in Clients : req'[k].pc = "locked" => req'[k] = req[k]
  BY <1>1, <1>3, <1>4, <1>5, <1>6, OutsideTheLock
<1> QED BY <1>3, <1>7 DEF QuietStep, Typed

LEMMA AcquireQuiet ==
    ASSUME Typed, NEW c \in Clients, Acquire(c)
    PROVE  QuietStep
<1> DEFINE r == [req[c] EXCEPT !.pc = "locked", !.seen = Fresh]
<1>1. req[c].pc = "waiting" /\ lock = None /\ lock' = c /\ UNCHANGED <<docs, job, view>>
  BY DEF Acquire
<1>2. req[c] \in Requests /\ WellFormed(req[c]) /\ Fresh \in Snapshots
  BY DEF Typed, Fresh, Snapshots
<1>3. r \in Requests /\ r.pc = "locked" /\ r.seen = Fresh
      /\ r.op = req[c].op /\ r.doc = req[c].doc /\ r.arg = req[c].arg
  BY <1>2 DEF Requests
<1>4. req' = [req EXCEPT ![c] = r]
  BY <1>2 DEF Acquire, Typed, Requests
<1> HIDE DEF r
<1>5. WellFormed(r)
  BY <1>1, <1>2, <1>3 DEF WellFormed
<1>6. /\ req' \in [Clients -> Requests]
      /\ \A k \in Clients : WellFormed(req'[k])
      /\ HolderIsFresh'
      /\ \A k \in Clients : req'[k].pc = "locked" => k = c
  BY <1>1, <1>3, <1>4, <1>5, TakesTheLock
<1>7. req'[c] = r
  BY <1>4 DEF Typed
<1> QED BY <1>1, <1>3, <1>6, <1>7 DEF QuietStep, Typed

\* The requests are gone, the lock with them, and the claims are released.
LEMMA RestartQuiet ==
    ASSUME Typed, Restart
    PROVE  QuietStep /\ \A k \in Clients : req'[k] = Idle
<1>1. req' = [c \in Clients |-> Idle] /\ lock' = None /\ UNCHANGED <<job, view>>
  BY DEF Restart
<1>2. docs' = [d \in Docs |-> IF docs[d].status = "EXTRACTING"
                              THEN [docs[d] EXCEPT !.status = "UPLOADED"]
                              ELSE docs[d]]
  BY DEF Restart
<1>3. ASSUME NEW d \in Docs
      PROVE  /\ docs'[d] \in [status : DocStatus, raw : Contents \cup {None}]
             /\ \/ docs'[d] = docs[d]
                \/ docs'[d].raw = docs[d].raw /\ docs'[d].status = "UPLOADED"
  BY <1>2, <1>3 DEF Typed, Rows, DocStatus
<1>4. docs' \in Rows
  BY <1>2, <1>3 DEF Rows
<1>5. \A k \in Clients : req'[k] = Idle /\ req'[k].pc # "locked"
  BY <1>1, IdleType
<1>6. req' \in [Clients -> Requests] /\ \A k \in Clients : WellFormed(req'[k])
  BY <1>1, IdleType
<1> QED BY <1>1, <1>3, <1>4, <1>5, <1>6 DEF QuietStep, HolderIsFresh

LEMMA IssueQuiet ==
    ASSUME Typed, NEW c \in Clients, Issue(c)
    PROVE  QuietStep
<1>1. ASSUME NEW d \in Docs, UploadCheck(c, d) \/ ReuploadCheck(c, d) PROVE QuietStep
  BY <1>1, CheckQuiet
<1>2. ASSUME NEW d \in Docs, Claim(c, d) PROVE QuietStep
  BY <1>2, ClaimQuiet
<1>3. ASSUME NEW d \in Docs, NEW accept \in BOOLEAN, EnterOnDocument(c, "decide", d, accept)
      PROVE  QuietStep
  BY <1>3, EnterQuiet DEF EnterOnDocument, Args
<1>4. ASSUME NEW d \in Docs, EnterOnDocument(c, "remove", d, None) PROVE QuietStep
  BY <1>4, EnterQuiet DEF EnterOnDocument, Args
<1>5. ASSUME StartReview(c) PROVE QuietStep
  BY <1>5, StartQuiet DEF StartReview
<1>6. ASSUME NEW answer \in Answers, StartFinalize(c, answer) \/ StartConfirm(c, answer)
      PROVE  QuietStep
  BY <1>6, StartQuiet DEF StartFinalize, StartConfirm
<1>7. ASSUME NEW ch \in Channels, NEW value \in {"set", "clear"},
             Enter(c, "mutate", None, [ch |-> ch, value |-> value])
      PROVE  QuietStep
  <2>1. [ch |-> ch, value |-> value] \in Edits
    BY DEF Edits
  <2> QED BY <1>7, <2>1, EnterQuiet DEF Args
<1>8. ASSUME NEW op \in {"bms", "regime"}, Enter(c, op, None, None) PROVE QuietStep
  BY <1>8, EnterQuiet DEF Args
<1>9. "pin" \in Channels
  BY DEF Channels
<1> QED BY <1>1, <1>2, <1>3, <1>4, <1>5, <1>6, <1>7, <1>8, <1>9 DEF Issue

\* Every step is quiet, or the end of one body.
Commit(c) ==
    \/ CommitExtract(c) \/ CommitDecide(c) \/ CommitRemove(c) \/ CommitReview(c)
    \/ CommitFinalize(c) \/ CommitMutate(c) \/ CommitBms(c) \/ CommitRegime(c)

LEMMA StepKinds ==
    ASSUME Typed, Next
    PROVE  QuietStep \/ \E c \in Clients : Commit(c)
<1>1. ASSUME NEW c \in Clients, Issue(c) PROVE QuietStep
  BY <1>1, IssueQuiet
<1>2. ASSUME NEW c \in Clients, Proceed(c) PROVE QuietStep \/ Commit(c)
  BY <1>2, EndingQuiet, ReturnsQuiet, AcquireQuiet DEF Proceed, Commit
<1>3. ASSUME Restart PROVE QuietStep
  BY <1>3, RestartQuiet
<1> QED BY <1>1, <1>2, <1>3 DEF Next

-----------------------------------------------------------------------------
(***************************************************************************)
(* Types                                                                   *)
(***************************************************************************)
LEMMA InitTyped == Init => Typed
<1> SUFFICES ASSUME Init PROVE Typed
  OBVIOUS
<1>1. docs \in Rows
  BY DEF Init, Rows, DocStatus
<1>2. EmptyOverlay \in Overlays
  BY DEF EmptyOverlay, Overlays
<1>3. job \in Jobs
  BY <1>2 DEF Init, Jobs, JobStatus, Selections
<1>4. \A c \in Clients : req[c] = Idle /\ req[c].pc # "locked"
  BY IdleType DEF Init
<1>5. req \in [Clients -> Requests] /\ \A c \in Clients : WellFormed(req[c])
  BY IdleType DEF Init
<1>6. lock = None /\ view \in [Clients -> Reviews \cup {None}]
  BY DEF Init
<1> QED BY <1>1, <1>3, <1>4, <1>5, <1>6 DEF Typed, HolderIsFresh

LEMMA CommitTyped ==
    ASSUME Typed, NEW c \in Clients, Commit(c)
    PROVE  docs' \in Rows /\ job' \in Jobs /\ view' \in [Clients -> Reviews \cup {None}]
           /\ req[c].pc = "locked" /\ Done(c)
<1>0. docs \in Rows /\ job \in Jobs /\ view \in [Clients -> Reviews \cup {None}]
  BY DEF Typed
<1>1. CASE CommitExtract(c)
  BY <1>0, <1>1, ExtractEffect DEF EvidenceStep
<1>2. CASE CommitDecide(c)
  BY <1>0, <1>2, DecideEffect DEF EvidenceStep
<1>3. CASE CommitRemove(c)
  BY <1>0, <1>3, RemoveEffect DEF EvidenceStep
<1>4. CASE CommitReview(c)
  BY <1>0, <1>4, ReviewEffect DEF ReviewStep
<1>5. CASE CommitFinalize(c)
  BY <1>0, <1>5, FinalizeEffect DEF ReviewStep
<1>6. CASE CommitMutate(c)
  BY <1>0, <1>6, MutateEffect DEF EditStep
<1>7. CASE CommitBms(c)
  BY <1>0, <1>7, BmsEffect
<1>8. CASE CommitRegime(c)
  BY <1>0, <1>8, RegimeEffect DEF EditStep
<1> QED BY <1>1, <1>2, <1>3, <1>4, <1>5, <1>6, <1>7, <1>8 DEF Commit

LEMMA TypedStep == Typed /\ [Next]_vars => Typed'
<1> SUFFICES ASSUME Typed, [Next]_vars PROVE Typed'
  OBVIOUS
<1>1. CASE QuietStep
  BY <1>1 DEF QuietStep, Typed
<1>2. ASSUME NEW c \in Clients, Commit(c) PROVE Typed'
  <2>1. /\ docs' \in Rows /\ job' \in Jobs /\ view' \in [Clients -> Reviews \cup {None}]
        /\ req[c].pc = "locked" /\ Done(c)
    BY <1>2, CommitTyped
  <2>2. /\ lock' \in Clients \cup {None}
        /\ req' \in [Clients -> Requests]
        /\ \A k \in Clients : WellFormed(req'[k])
        /\ HolderIsFresh'
    BY <2>1, DoneReleases
  <2> QED BY <2>1, <2>2 DEF Typed
<1>3. CASE UNCHANGED vars
  BY <1>3 DEF vars, Typed, HolderIsFresh
<1> QED BY <1>1, <1>2, <1>3, StepKinds

LEMMA AlwaysTyped == Spec => []Typed
<1>1. Init => Typed
  BY InitTyped
<1>2. Typed /\ [Next]_vars => Typed'
  BY TypedStep
<1> QED BY <1>1, <1>2, PTL DEF Spec

\* The rows, the job, its overlay and selections, the lock and the requests
\* have their types in every reachable state, for any documents and clients.
THEOREM JobTypes == Spec => []TypeOK
<1>1. Typed => TypeOK
  BY DEF Typed, TypeOK, Rows, Jobs, Overlays, Selections
<1> QED BY <1>1, AlwaysTyped, PTL

-----------------------------------------------------------------------------
(***************************************************************************)
(* What a confirming client was shown                                      *)
(***************************************************************************)
\* The entries without the column that moves no revision.
Masked(o) == [o EXCEPT !.entry["bms"] = None]

\* A revision moves, or the entries that it stands for are as they were.
Advances(j, next) ==
    /\ \/ next.overlay.rev = j.overlay.rev + 1
       \/ Masked(next.overlay) = Masked(j.overlay)
    /\ next.sel = j.sel \/ next.sel.rev = j.sel.rev + 1

LEMMA MaskedRevision ==
    ASSUME NEW o \in Overlays PROVE Masked(o).rev = o.rev /\ o.rev \in Nat
BY DEF Masked, Overlays

\* What was shown before a step was shown still, unless its revision is past.
LEMMA ShownAfter ==
    ASSUME NEW in \in Reviews, NEW j \in Jobs, NEW next \in Jobs,
           ShownOf(in, j), Advances(j, next)
    PROVE  ShownOf(in, next)
<1>1. /\ j.overlay \in Overlays /\ next.overlay \in Overlays /\ in.overlay \in Overlays
      /\ j.sel \in Selections /\ next.sel \in Selections /\ in.sel \in Selections
  BY DEF Jobs, Reviews
<1>2. /\ j.overlay.rev \in Nat /\ next.overlay.rev \in Nat /\ in.overlay.rev \in Nat
      /\ j.sel.rev \in Nat /\ next.sel.rev \in Nat /\ in.sel.rev \in Nat
  BY <1>1, MaskedRevision DEF Selections
<1>3. /\ in.overlay.rev <= j.overlay.rev
      /\ in.overlay.rev = j.overlay.rev => Customs(in).overlay = Masked(j.overlay)
      /\ in.sel.rev <= j.sel.rev
      /\ in.sel.rev = j.sel.rev => in.sel = j.sel
  BY DEF ShownOf, Masked
<1>4. /\ in.overlay.rev <= next.overlay.rev
      /\ in.overlay.rev = next.overlay.rev => Customs(in).overlay = Masked(next.overlay)
  <2>1. CASE next.overlay.rev = j.overlay.rev + 1
    BY <1>2, <1>3, <2>1
  <2>2. CASE Masked(next.overlay) = Masked(j.overlay)
    <3>1. next.overlay.rev = j.overlay.rev
      BY <1>1, <2>2, MaskedRevision
    <3> QED BY <1>3, <2>2, <3>1
  <2> QED BY <2>1, <2>2 DEF Advances
<1>5. /\ in.sel.rev <= next.sel.rev
      /\ in.sel.rev = next.sel.rev => in.sel = next.sel
  <2>1. CASE next.sel = j.sel
    BY <1>3, <2>1
  <2>2. CASE next.sel.rev = j.sel.rev + 1
    BY <1>2, <1>3, <2>2
  <2> QED BY <2>1, <2>2 DEF Advances
<1> QED BY <1>4, <1>5 DEF ShownOf, Masked

\* A review computed from the job as it is.
LEMMA ShownNow ==
    ASSUME NEW in \in Reviews, NEW j \in Jobs, in.overlay = j.overlay, in.sel = j.sel
    PROVE  ShownOf(in, j)
<1>1. j.overlay.rev \in Nat /\ j.sel.rev \in Nat
  BY DEF Jobs, Overlays, Selections
<1> QED BY <1>1, CustomsType DEF ShownOf

\* Equal fingerprints are equal revisions, and those are the same entries
\* and selections.
LEMMA FingerprintPins ==
    ASSUME NEW in \in Reviews, NEW seen \in Reviews, NEW j \in Jobs,
           ShownOf(seen, j), in.overlay = j.overlay, in.sel = j.sel,
           Fingerprint(seen) = Fingerprint(in)
    PROVE  Customs(seen).overlay = Customs(in).overlay /\ seen.sel = in.sel
<1>1. /\ Fingerprint(seen).item_revision = seen.overlay.rev
      /\ Fingerprint(seen).regime_revision = seen.sel.rev
      /\ Fingerprint(in).item_revision = in.overlay.rev
      /\ Fingerprint(in).regime_revision = in.sel.rev
  BY DEF Fingerprint
<1>2. seen.overlay.rev = j.overlay.rev /\ seen.sel.rev = j.sel.rev
  BY <1>1
<1> QED BY <1>2, CustomsType DEF ShownOf

\* Shows are of the stored review, and that is computed from the job.
LEMMA PinsStep ==
    ASSUME RevisionsPin, job \in Jobs, job' \in Jobs,
           view \in [Clients -> Reviews \cup {None}],
           Advances(job, job'),
           \/ job'.review \in {None, job.review}
           \/ job'.review.overlay = job'.overlay /\ job'.review.sel = job'.sel,
           \A k \in Clients : view'[k] \in {view[k], job'.review}
    PROVE  RevisionsPin'
<1>1. job.review \in Reviews \cup {None} /\ job'.review \in Reviews \cup {None}
  BY DEF Jobs
<1>2. job'.review # None => ShownOf(job'.review, job')
  <2> SUFFICES ASSUME job'.review # None PROVE ShownOf(job'.review, job')
    OBVIOUS
  <2>1. CASE job'.review = job.review
    BY <1>1, <2>1, ShownAfter DEF RevisionsPin
  <2>2. CASE job'.review.overlay = job'.overlay /\ job'.review.sel = job'.sel
    BY <1>1, <2>2, ShownNow
  <2> QED BY <2>1, <2>2
<1>3. ASSUME NEW k \in Clients, view'[k] # None PROVE ShownOf(view'[k], job')
  <2>1. CASE view'[k] = view[k]
    BY <1>3, <2>1, ShownAfter DEF RevisionsPin
  <2>2. CASE view'[k] = job'.review
    BY <1>2, <1>3, <2>2
  <2> QED BY <2>1, <2>2
<1> QED BY <1>2, <1>3 DEF RevisionsPin

LEMMA ResetAdvances ==
    ASSUME NEW j \in Jobs, NEW next \in Jobs, NEW role,
           next.overlay = ResetOverlay(j.overlay, role), next.sel = j.sel
    PROVE  Advances(j, next)
<1>1. \/ next.overlay = j.overlay
      \/ next.overlay.rev = j.overlay.rev + 1
  BY ResetOverlayType DEF Jobs
<1> QED BY <1>1 DEF Advances

LEMMA BmsAdvances ==
    ASSUME NEW j \in Jobs, NEW next \in Jobs, NEW e,
           next.overlay = [j.overlay EXCEPT !.entry["bms"] = e], next.sel = j.sel
    PROVE  Advances(j, next)
<1>1. j.overlay \in Overlays
  BY DEF Jobs
<1>2. Masked(next.overlay) = Masked(j.overlay)
  BY <1>1 DEF Masked, Overlays, Channels
<1> QED BY <1>2 DEF Advances

LEMMA DeclarationStands ==
    ASSUME ConfirmedEntriesWereShown, job'.decl \in {None, job.decl}
    PROVE  ConfirmedEntriesWereShown'
BY DEF ConfirmedEntriesWereShown

LEMMA CommitShown ==
    ASSUME Typed, ShownInv, NEW c \in Clients, Commit(c)
    PROVE  ShownInv'
<1>0. /\ job \in Jobs /\ view \in [Clients -> Reviews \cup {None}]
      /\ RevisionsPin /\ ConfirmedEntriesWereShown
  BY DEF Typed, ShownInv
<1>1. ASSUME UNCHANGED <<job, view>> PROVE ShownInv'
  BY <1>1, <1>0 DEF ShownInv, RevisionsPin, ConfirmedEntriesWereShown
<1>2. ASSUME EvidenceStep(req[c].doc) PROVE ShownInv'
  <2>1. Advances(job, job') /\ job'.review = None /\ job'.decl = None /\ view' = view
    BY <1>0, <1>2, ResetAdvances DEF EvidenceStep
  <2>2. job' \in Jobs
    BY <1>2 DEF EvidenceStep
  <2>3. RevisionsPin'
    BY <1>0, <2>1, <2>2, PinsStep
  <2> QED BY <1>0, <2>1, <2>3, DeclarationStands DEF ShownInv
<1>3. ASSUME ReviewStep(c), req[c].pc = "locked" PROVE ShownInv'
  <2>1. /\ Inputs(req[c].seen.docs, job).overlay = job.overlay
        /\ Inputs(req[c].seen.docs, job).sel = job.sel
    BY DEF Inputs
  <2>2. /\ job' \in Jobs /\ Advances(job, job')
        /\ job'.review.overlay = job'.overlay /\ job'.review.sel = job'.sel
        /\ job'.decl = job.decl /\ \A k \in Clients : view'[k] \in {view[k], job'.review}
    BY <1>3, <2>1 DEF ReviewStep, Advances
  <2>3. RevisionsPin'
    BY <1>0, <2>2, PinsStep
  <2> QED BY <1>0, <2>2, <2>3, DeclarationStands DEF ShownInv
<1>4. ASSUME EditStep(c), Advances(job, job') PROVE ShownInv'
  <2>1. /\ job' \in Jobs /\ job'.decl = None
        /\ job'.review.overlay = job'.overlay /\ job'.review.sel = job'.sel
        /\ \A k \in Clients : view'[k] \in {view[k], job'.review}
    BY <1>4 DEF EditStep
  <2>2. RevisionsPin'
    BY <1>0, <1>4, <2>1, PinsStep
  <2> QED BY <1>0, <2>1, <2>2, DeclarationStands DEF ShownInv
<1>5. CASE CommitExtract(c)
  BY <1>1, <1>2, <1>5, ExtractEffect
<1>6. CASE CommitDecide(c)
  BY <1>1, <1>2, <1>6, DecideEffect
<1>7. CASE CommitRemove(c)
  BY <1>1, <1>2, <1>7, RemoveEffect
<1>8. CASE CommitReview(c)
  BY <1>3, <1>8, ReviewEffect
<1>9. CASE CommitFinalize(c)
  <2> DEFINE in == Inputs(req[c].seen.docs, job)
             decl == Declaration(c, in)
  <2>0. req[c].pc = "locked"
    BY <1>9, FinalizeEffect
  <2>1. in \in Reviews /\ in.overlay = job.overlay /\ in.sel = job.sel
    BY <1>0, <2>0, BodyReads, InputsType
  <2>2. ASSUME job' \in Jobs, view' = view, job'.overlay = job.overlay, job'.sel = job.sel,
               job'.review = job.review
        PROVE  RevisionsPin'
    BY <1>0, <2>2, PinsStep DEF Advances
  <2>3. CASE ReviewStep(c)
    BY <1>3, <2>0, <2>3
  <2>4. CASE /\ job' \in Jobs /\ view' = view
             /\ job'.overlay = job.overlay /\ job'.sel = job.sel /\ job'.review = job.review
             /\ job'.decl = job.decl
    BY <1>0, <2>2, <2>4, DeclarationStands DEF ShownInv
  <2>5. CASE /\ job' \in Jobs /\ view' = view
             /\ job'.overlay = job.overlay /\ job'.sel = job.sel /\ job'.review = job.review
             /\ job'.decl = decl
             /\ decl.in = Customs(in) /\ decl.reviewed \in Reviews \cup {None}
             /\ decl.reviewed # None =>
                   decl.reviewed = view[c] /\ Fingerprint(view[c]) = Fingerprint(in)
    <3> HIDE DEF decl, in
    <3>1. RevisionsPin'
      BY <2>2, <2>5
    <3>2. ASSUME decl.reviewed # None
          PROVE  /\ Customs(decl.reviewed).overlay = decl.in.overlay
                 /\ decl.reviewed.sel = decl.in.sel
      <4>1. ShownOf(view[c], job) /\ view[c] \in Reviews
        BY <1>0, <2>5, <3>2 DEF RevisionsPin
      <4>2. Customs(view[c]).overlay = Customs(in).overlay /\ view[c].sel = in.sel
        BY <1>0, <2>1, <2>5, <3>2, <4>1, FingerprintPins
      <4>3. Customs(in).sel = in.sel
        BY <2>1, CustomsType
      <4> QED BY <2>5, <3>2, <4>2, <4>3
    <3>3. ConfirmedEntriesWereShown'
      BY <2>5, <3>2 DEF ConfirmedEntriesWereShown
    <3> QED BY <3>1, <3>3 DEF ShownInv
  <2> HIDE DEF in, decl
  <2> QED BY <1>9, <2>3, <2>4, <2>5, FinalizeEffect DEF in, decl
<1>10. CASE CommitMutate(c)
  BY <1>1, <1>4, <1>10, MutateEffect DEF Advances
<1>11. CASE CommitBms(c)
  <2> DEFINE ev == Evidence(req[c].seen.docs)
  <2>1. CASE UNCHANGED <<job, view>>
    BY <1>1, <2>1
  <2>2. CASE /\ job' \in Jobs
             /\ job'.overlay = [job.overlay EXCEPT !.entry["bms"] = Entry(c, "bms", ev)]
             /\ job'.sel = job.sel /\ job'.decl = job.decl
             /\ job'.review = [ev |-> ev, overlay |-> job'.overlay, sel |-> job.sel]
             /\ \A k \in Clients : view'[k] = view[k] \/ view'[k] = job'.review
    <3>1. Advances(job, job')
      BY <1>0, <2>2, BmsAdvances
    <3>2. RevisionsPin'
      BY <1>0, <2>2, <3>1, PinsStep
    <3> QED BY <1>0, <2>2, <3>2, DeclarationStands DEF ShownInv
  <2> QED BY <1>11, <2>1, <2>2, BmsEffect
<1>12. CASE CommitRegime(c)
  <2>1. CASE /\ UNCHANGED <<docs, job>>
             /\ \A k \in Clients : view'[k] = view[k] \/ view'[k] = job.review
    <3>1. RevisionsPin'
      BY <1>0, <2>1, PinsStep DEF Advances
    <3> QED BY <1>0, <2>1, <3>1, DeclarationStands DEF ShownInv
  <2>2. CASE EditStep(c) /\ job'.overlay = job.overlay /\ job'.sel.rev = job.sel.rev + 1
    BY <1>4, <2>2 DEF Advances
  <2> QED BY <1>1, <1>12, <2>1, <2>2, RegimeEffect
<1> QED BY <1>5, <1>6, <1>7, <1>8, <1>9, <1>10, <1>11, <1>12 DEF Commit

LEMMA ShownStep == Typed /\ ShownInv /\ [Next]_vars => ShownInv'
<1> SUFFICES ASSUME Typed, ShownInv, [Next]_vars PROVE ShownInv'
  OBVIOUS
<1>1. ASSUME UNCHANGED <<job, view>> PROVE ShownInv'
  BY <1>1 DEF ShownInv, RevisionsPin, ConfirmedEntriesWereShown
<1> QED BY <1>1, StepKinds, CommitShown DEF vars, QuietStep

\* A declaration confirmed with a fingerprint holds the entries and the
\* selections that the client had been shown: between the two a request may
\* edit, select, extract, decide, remove, or the process may restart, and
\* every one of them that changes an entry or a selection moves a revision
\* that the fingerprint covers.
THEOREM ConfirmedWereShown == Spec => []ConfirmedEntriesWereShown
<1>1. Init => ShownInv
  BY DEF Init, ShownInv, RevisionsPin, ConfirmedEntriesWereShown
<1>2. Typed /\ ShownInv /\ [Next]_vars => ShownInv'
  BY ShownStep
<1>3. ShownInv => ConfirmedEntriesWereShown
  BY DEF ShownInv
<1> QED BY <1>1, <1>2, <1>3, AlwaysTyped, PTL DEF Spec

-----------------------------------------------------------------------------
(***************************************************************************)
(* What is derived is current                                              *)
(***************************************************************************)
\* A status written without the lock shows no other evidence.
LEMMA QuietEvidence ==
    ASSUME Typed, EvidenceIsFresh, QuietStep, RejectionStands
    PROVE  Evidence(docs') = Evidence(docs) /\ EvidenceIsFresh'
<1>1. ASSUME NEW d \in Docs
      PROVE  /\ ~Exists(docs', d) => docs'[d].raw = None
             /\ Evidence(docs')[d] = Evidence(docs)[d]
  <2>1. CASE docs'[d] = docs[d]
    BY <2>1 DEF EvidenceIsFresh, Exists, Evidence
  <2>2. CASE /\ docs'[d].raw = docs[d].raw
             /\ docs'[d].status \in {"UPLOADED", "EXTRACTING", "FAILED"}
             /\ docs'[d].status = "EXTRACTING" => docs[d].status \in {"UPLOADED", "FAILED"}
    <3>1. Exists(docs', d) /\ docs'[d].status # "ROLE_REJECTED"
      BY <2>2 DEF Exists
    <3>2. docs[d].status # "ROLE_REJECTED"
      BY <2>2 DEF RejectionStands
    <3>3. Evidence(docs)[d] = docs[d].raw
      BY <3>2 DEF Evidence, EvidenceIsFresh
    <3> QED BY <2>2, <3>1, <3>3 DEF Evidence
  <2> QED BY <2>1, <2>2 DEF QuietStep
<1>2. Evidence(docs') = Evidence(docs)
  <2>1. Evidence(docs') \in Evidences /\ Evidence(docs) \in Evidences
    BY EvidenceType DEF QuietStep, Typed
  <2> QED BY <1>1, <2>1 DEF Evidences
<1>3. ASSUME NEW k \in Clients, req'[k].pc = "locked"
      PROVE  Evidence(req'[k].seen.docs) = Evidence(docs')
  <2>1. CASE req'[k] = req[k]
    BY <1>2, <1>3, <2>1 DEF EvidenceIsFresh
  <2>2. CASE req'[k].seen = Fresh
    BY <1>2, <2>2 DEF Fresh
  <2> QED BY <1>3, <2>1, <2>2 DEF QuietStep
<1> QED BY <1>1, <1>2, <1>3 DEF EvidenceIsFresh

\* A channel is dropped with any of the evidence it is entered against.
LEMMA ScopeIsDropped ==
    ASSUME NEW ch \in Channels, NEW role \in Scope(ch) PROVE ch \in Dropped(role)
<1>1. CASE ch = "item"
  BY <1>1 DEF Scope, Dropped, ItemRoles, ShipmentRoles
<1>2. CASE ch = "bms"
  BY <1>2 DEF Scope, Dropped, ItemRoles, ShipmentRoles
<1>3. CASE ch = "pin"
  BY <1>3 DEF Scope, Dropped, ItemRoles, ShipmentRoles
<1>4. CASE ch = "totals"
  BY <1>4 DEF Scope, Dropped, ItemRoles, ShipmentRoles
<1> QED BY <1>1, <1>2, <1>3, <1>4 DEF Channels

\* New evidence of one document: nothing derived is left, and the entries
\* that are left are about other documents.
LEMMA EvidenceStepCurrent ==
    ASSUME Typed, CurrentInv, NEW d, EvidenceStep(d), \A k \in Clients : req'[k].pc # "locked"
    PROVE  CurrentInv'
<1>1. EvidenceIsFresh'
  BY DEF CurrentInv, EvidenceIsFresh, EvidenceStep, Exists
<1>2. DerivedIsCurrent'
  BY DEF DerivedIsCurrent, EvidenceStep
<1>3. ASSUME NEW ch \in Channels, job'.overlay.entry[ch] # None
      PROVE  job'.overlay.entry[ch].ev = OfRoles(Evidence(docs'), Scope(ch))
  <2>1. job'.overlay.entry[ch] = IF ch \in Dropped(Role[d]) THEN None ELSE job.overlay.entry[ch]
    BY ResetOverlayType DEF EvidenceStep, Typed, Jobs
  <2>2. ch \notin Dropped(Role[d]) /\ job'.overlay.entry[ch] = job.overlay.entry[ch]
    BY <1>3, <2>1
  <2>3. job.overlay.entry[ch].ev = OfRoles(Evidence(docs), Scope(ch))
    BY <1>3, <2>2 DEF CurrentInv, EntriesFitEvidence
  <2>4. \A e \in Docs : Role[e] \in Scope(ch) => e # d
    BY <2>2, ScopeIsDropped
  <2>5. \A e \in Docs : Role[e] \in Scope(ch) => Evidence(docs')[e] = Evidence(docs)[e]
    BY <2>4 DEF EvidenceStep, Evidence, Exists
  <2>6. OfRoles(Evidence(docs'), Scope(ch)) = OfRoles(Evidence(docs), Scope(ch))
    BY <2>5 DEF OfRoles
  <2> QED BY <2>2, <2>3, <2>6
<1> QED BY <1>1, <1>2, <1>3 DEF CurrentInv, EntriesFitEvidence

\* The documents stay; the invariant follows from what the job row holds.
LEMMA JobStepCurrent ==
    ASSUME CurrentInv, docs' = docs, \A k \in Clients : req'[k].pc # "locked",
           LET now == Inputs(docs, job') IN
              /\ job'.review # None => job'.review = now
              /\ job'.decl # None => job'.decl.in = Customs(now)
              /\ job'.xml # None => job'.xml.in = Customs(now)
              /\ job'.bms # None => job'.bms = now,
           \A ch \in Channels :
              \/ job'.overlay.entry[ch] \in {None, job.overlay.entry[ch]}
              \/ job'.overlay.entry[ch].ev = OfRoles(Evidence(docs), Scope(ch))
    PROVE  CurrentInv'
<1>1. EvidenceIsFresh'
  BY DEF CurrentInv, EvidenceIsFresh, Exists
<1>2. DerivedIsCurrent'
  BY DEF DerivedIsCurrent
<1>3. EntriesFitEvidence'
  BY DEF EntriesFitEvidence, CurrentInv
<1> QED BY <1>1, <1>2, <1>3 DEF CurrentInv

LEMMA SameInputs ==
    ASSUME job'.overlay = job.overlay, job'.sel = job.sel
    PROVE  Inputs(docs, job') = Inputs(docs, job)
BY DEF Inputs

LEMMA CommitCurrent ==
    ASSUME Typed, CurrentInv, NEW c \in Clients, Commit(c)
    PROVE  CurrentInv'
<1> DEFINE D == req[c].seen.docs
           now == Inputs(docs, job)
<1>0. req[c].pc = "locked" /\ Done(c) /\ \A k \in Clients : req'[k].pc # "locked"
  BY CommitTyped, DoneReleases
<1>1. Evidence(D) = Evidence(docs)
  BY <1>0 DEF CurrentInv, EvidenceIsFresh
<1>2. Inputs(D, job) = now
  BY <1>1 DEF Inputs
<1>3. /\ job.review # None => job.review = now
      /\ job.decl # None => job.decl.in = Customs(now)
      /\ job.xml # None => job.xml.in = Customs(now)
      /\ job.bms # None => job.bms = now
  BY DEF CurrentInv, DerivedIsCurrent
<1> HIDE DEF now, D
<1>4. ASSUME UNCHANGED <<docs, job>> PROVE CurrentInv'
  BY <1>0, <1>4 DEF CurrentInv, EvidenceIsFresh, DerivedIsCurrent, EntriesFitEvidence
<1>5. ASSUME ReviewStep(c) PROVE CurrentInv'
  <2>1. Inputs(docs, job') = now
    BY <1>5, SameInputs DEF ReviewStep, now
  <2>2. job'.review = now
    BY <1>2, <1>5 DEF ReviewStep, D
  <2> QED BY <1>0, <1>3, <1>5, <2>1, <2>2, JobStepCurrent DEF ReviewStep
<1>6. ASSUME EditStep(c),
             \A ch \in Channels :
                \/ job'.overlay.entry[ch] \in {None, job.overlay.entry[ch]}
                \/ job'.overlay.entry[ch] = Entry(c, ch, Evidence(D))
      PROVE  CurrentInv'
  <2>1. job'.review = Inputs(docs, job')
    BY <1>1, <1>6 DEF EditStep, Inputs, D
  <2>2. \A ch \in Channels :
           \/ job'.overlay.entry[ch] \in {None, job.overlay.entry[ch]}
           \/ job'.overlay.entry[ch].ev = OfRoles(Evidence(docs), Scope(ch))
    <3>1. \A ch \in Channels : Entry(c, ch, Evidence(D)).ev = OfRoles(Evidence(docs), Scope(ch))
      BY <1>1 DEF Entry
    <3> QED BY <1>6, <3>1
  <2> QED BY <1>0, <1>6, <2>1, <2>2, JobStepCurrent DEF EditStep
<1>7. CASE CommitExtract(c)
  BY <1>0, <1>4, <1>7, ExtractEffect, EvidenceStepCurrent
<1>8. CASE CommitDecide(c)
  BY <1>0, <1>4, <1>8, DecideEffect, EvidenceStepCurrent
<1>9. CASE CommitRemove(c)
  BY <1>0, <1>4, <1>9, RemoveEffect, EvidenceStepCurrent
<1>10. CASE CommitReview(c)
  BY <1>5, <1>10, ReviewEffect
<1>11. CASE CommitFinalize(c)
  <2> DEFINE in == Inputs(req[c].seen.docs, job)
             decl == Declaration(c, in)
  <2>1. in = now /\ docs' = docs
    BY <1>2, <1>11, FinalizeEffect DEF D
  <2>2. CASE ReviewStep(c)
    BY <1>5, <2>2
  <2>3. CASE /\ job'.overlay = job.overlay /\ job'.sel = job.sel /\ job'.review = job.review
             /\ job'.decl = job.decl /\ job'.xml = job.xml /\ job'.bms = job.bms
    <3>1. Inputs(docs, job') = now
      BY <2>3, SameInputs DEF now
    <3> QED BY <1>0, <1>3, <2>1, <2>3, <3>1, JobStepCurrent
  <2>4. CASE /\ job'.overlay = job.overlay /\ job'.sel = job.sel /\ job'.review = job.review
             /\ job'.decl = decl /\ job'.xml \in {job.xml, decl} /\ job'.bms \in {job.bms, in}
             /\ decl.in = Customs(in)
    <3>1. Inputs(docs, job') = now
      BY <2>4, SameInputs DEF now
    <3> HIDE DEF in, decl
    <3> QED BY <1>0, <1>3, <2>1, <2>4, <3>1, JobStepCurrent
  <2> HIDE DEF in, decl
  <2> QED BY <1>11, <2>2, <2>3, <2>4, FinalizeEffect DEF in, decl
<1>12. CASE CommitMutate(c)
  BY <1>4, <1>6, <1>12, MutateEffect DEF D
<1>13. CASE CommitBms(c)
  <2>0. docs' = docs
    BY <1>13, BmsEffect
  <2>1. CASE UNCHANGED <<job, view>>
    BY <1>4, <2>0, <2>1
  <2>2. CASE LET ev == Evidence(req[c].seen.docs)
             IN  /\ job' \in Jobs
                 /\ job'.overlay = [job.overlay EXCEPT !.entry["bms"] = Entry(c, "bms", ev)]
                 /\ job'.sel = job.sel /\ job'.decl = job.decl /\ job'.xml = job.xml
                 /\ job'.review = [ev |-> ev, overlay |-> job'.overlay, sel |-> job.sel]
                 /\ job.bms = None => job'.bms = None
                 /\ job.bms # None => job'.bms = job'.review
    <3>1. job'.review = Inputs(docs, job')
      BY <1>1, <2>2 DEF Inputs, D
    <3>2. job.overlay \in Overlays
      BY DEF Typed, Jobs
    <3>3. [job'.overlay EXCEPT !.entry["bms"] = None] = [job.overlay EXCEPT !.entry["bms"] = None]
      BY <2>2, <3>2 DEF Overlays, Channels
    <3>4. Customs(Inputs(docs, job')) = Customs(now)
      <4>1. /\ Inputs(docs, job') = [ev |-> Evidence(docs), overlay |-> job'.overlay, sel |-> job.sel]
            /\ now = [ev |-> Evidence(docs), overlay |-> job.overlay, sel |-> job.sel]
        BY <2>2 DEF Inputs, now
      <4>2. /\ Inputs(docs, job') \in Reviews /\ now \in Reviews
            /\ Customs(Inputs(docs, job')) \in Reviews /\ Customs(now) \in Reviews
        BY <2>0, <2>2, InputsType, CustomsType DEF Typed, now
      <4>3. /\ Customs(Inputs(docs, job')).ev = Customs(now).ev
            /\ Customs(Inputs(docs, job')).overlay = Customs(now).overlay
            /\ Customs(Inputs(docs, job')).sel = Customs(now).sel
        BY <3>3, <4>1, <4>2, CustomsType
      <4> QED BY <4>2, <4>3 DEF Reviews
    <3>5. ASSUME NEW ch \in Channels
          PROVE  \/ job'.overlay.entry[ch] \in {None, job.overlay.entry[ch]}
                 \/ job'.overlay.entry[ch].ev = OfRoles(Evidence(docs), Scope(ch))
      <4>1. CASE ch = "bms"
        BY <1>1, <2>2, <3>2, <4>1 DEF Entry, Overlays, D
      <4>2. CASE ch # "bms"
        BY <2>2, <3>2, <4>2 DEF Overlays
      <4> QED BY <4>1, <4>2
    <3> QED BY <1>0, <1>3, <2>0, <2>2, <3>1, <3>4, <3>5, JobStepCurrent
  <2> QED BY <1>13, <2>1, <2>2, BmsEffect
<1>14. CASE CommitRegime(c)
  BY <1>4, <1>6, <1>14, RegimeEffect
<1> QED BY <1>7, <1>8, <1>9, <1>10, <1>11, <1>12, <1>13, <1>14 DEF Commit

LEMMA CurrentStep ==
    Typed /\ CurrentInv /\ [Next /\ RejectionStands]_vars => CurrentInv'
<1> SUFFICES ASSUME Typed, CurrentInv, [Next /\ RejectionStands]_vars PROVE CurrentInv'
  OBVIOUS
<1>1. CASE UNCHANGED vars
  BY <1>1 DEF vars, CurrentInv, EvidenceIsFresh, DerivedIsCurrent, EntriesFitEvidence
<1>2. CASE QuietStep /\ RejectionStands
  <2>1. Evidence(docs') = Evidence(docs) /\ EvidenceIsFresh' /\ job' = job
    BY <1>2, QuietEvidence DEF CurrentInv, QuietStep
  <2>2. Inputs(docs', job') = Inputs(docs, job)
    BY <2>1 DEF Inputs
  <2> QED BY <2>1, <2>2 DEF CurrentInv, DerivedIsCurrent, EntriesFitEvidence
<1> QED BY <1>1, <1>2, StepKinds, CommitCurrent

\* Unless a request without the lock puts a rejected row back, the review,
\* the declaration, the XML and the workbook are computed from the evidence,
\* the entries and the selections of the moment, and no entry outlives the
\* evidence it was made against.
LEMMA AlwaysCurrent == Spec /\ [][RejectionStands]_vars => []CurrentInv
<1>1. Init => CurrentInv
  <2> SUFFICES ASSUME Init PROVE CurrentInv
    OBVIOUS
  <2>1. \A c \in Clients : req[c].pc # "locked"
    BY IdleType DEF Init
  <2>2. EvidenceIsFresh
    BY <2>1 DEF Init, EvidenceIsFresh
  <2>3. DerivedIsCurrent /\ EntriesFitEvidence
    BY DEF Init, DerivedIsCurrent, EntriesFitEvidence, EmptyOverlay
  <2> QED BY <2>2, <2>3 DEF CurrentInv
<1>2. Typed /\ CurrentInv /\ [Next /\ RejectionStands]_vars => CurrentInv'
  BY CurrentStep
<1>3. [Next]_vars /\ [RejectionStands]_vars => [Next /\ RejectionStands]_vars
  OBVIOUS
<1> QED BY <1>1, <1>2, <1>3, AlwaysTyped, PTL DEF Spec

-----------------------------------------------------------------------------
(***************************************************************************)
(* Claims and their runs                                                   *)
(***************************************************************************)
\* A step of c leaves the runs of the others, and its own unless it ends it.
LEMMA RunsStay ==
    ASSUME ClaimHasRun, NEW c \in Clients, \A k \in Clients \ {c} : req'[k] = req[k],
           NEW d \in Docs, docs[d].status = "EXTRACTING",
           req[c].op = "extract" /\ req[c].doc = d => req'[c].op = "extract" /\ req'[c].doc = d
    PROVE  \E k \in Clients : req'[k].op = "extract" /\ req'[k].doc = d
BY DEF ClaimHasRun

\* A request that arrives replaces one that is not there; only a claim
\* writes a document.
LEMMA IssueShape ==
    ASSUME NEW c \in Clients, Issue(c)
    PROVE  /\ req[c] = Idle
           /\ \E r : req' = [req EXCEPT ![c] = r]
           /\ docs' = docs \/ \E d \in Docs : Claim(c, d)
<1>1. ASSUME NEW d \in Docs, UploadCheck(c, d)
      PROVE  req[c] = Idle /\ docs' = docs /\ \E r : req' = [req EXCEPT ![c] = r]
  BY <1>1 DEF UploadCheck
<1>2. ASSUME NEW d \in Docs, ReuploadCheck(c, d)
      PROVE  req[c] = Idle /\ docs' = docs /\ \E r : req' = [req EXCEPT ![c] = r]
  BY <1>2 DEF ReuploadCheck
<1>3. ASSUME NEW d \in Docs, Claim(c, d)
      PROVE  req[c] = Idle /\ \E r : req' = [req EXCEPT ![c] = r]
  BY <1>3 DEF Claim
<1>4. ASSUME NEW op, NEW d, NEW arg, Enter(c, op, d, arg)
      PROVE  req[c] = Idle /\ docs' = docs /\ \E r : req' = [req EXCEPT ![c] = r]
  BY <1>4 DEF Enter
<1>5. ASSUME NEW op, NEW arg, Start(c, op, arg)
      PROVE  req[c] = Idle /\ docs' = docs /\ \E r : req' = [req EXCEPT ![c] = r]
  BY <1>5 DEF Start
<1> QED BY <1>1, <1>2, <1>3, <1>4, <1>5
        DEF Issue, EnterOnDocument, StartReview, StartFinalize, StartConfirm

LEMMA ClaimStep == Typed /\ ClaimHasRun /\ [Next]_vars => ClaimHasRun'
<1> SUFFICES ASSUME Typed, ClaimHasRun, [Next]_vars, NEW d \in Docs,
                    docs'[d].status = "EXTRACTING"
             PROVE  \E k \in Clients : req'[k].op = "extract" /\ req'[k].doc = d
  BY DEF ClaimHasRun
<1>1. CASE UNCHANGED vars
  BY <1>1 DEF vars, ClaimHasRun
<1>2. ASSUME NEW c \in Clients, Issue(c)
      PROVE  \E k \in Clients : req'[k].op = "extract" /\ req'[k].doc = d
  <2>0. /\ req[c] = Idle /\ req[c].doc # d
        /\ \A k \in Clients \ {c} : req'[k] = req[k]
    BY <1>2, IssueShape, IdleType, NoneFresh DEF Typed
  <2>1. CASE docs[d].status = "EXTRACTING"
    BY <2>0, <2>1, RunsStay
  <2>2. CASE docs[d].status # "EXTRACTING"
    <3>1. PICK e \in Docs : Claim(c, e)
      BY <1>2, <2>2, IssueShape
    <3>2. e = d
      BY <2>2, <3>1 DEF Claim, Typed, Rows
    <3>3. req'[c] = [Idle EXCEPT !.pc = "running", !.op = "extract", !.doc = d]
      BY <3>1, <3>2 DEF Claim, Typed
    <3> QED BY <3>3, IdleType DEF Requests
  <2> QED BY <2>1, <2>2
<1>3. ASSUME NEW c \in Clients, UploadInsert(c) \/ UploadReset(c)
      PROVE  \E k \in Clients : req'[k].op = "extract" /\ req'[k].doc = d
  <2>1. req[c].op # "extract" /\ req[c].doc \in Docs /\ \A k \in Clients \ {c} : req'[k] = req[k]
    BY <1>3 DEF UploadInsert, UploadReset, Typed, WellFormed
  <2>2. docs[d].status = "EXTRACTING"
    BY <1>3, <2>1 DEF UploadInsert, UploadReset, Typed, Rows
  <2> QED BY <2>1, <2>2, RunsStay
<1>4. ASSUME NEW c \in Clients, ExtractFails(c)
      PROVE  \E k \in Clients : req'[k].op = "extract" /\ req'[k].doc = d
  <2>1. req[c].doc \in Docs /\ \A k \in Clients \ {c} : req'[k] = req[k]
    BY <1>4 DEF ExtractFails, Typed, WellFormed
  <2>2. docs[d].status = "EXTRACTING" /\ req[c].doc # d
    BY <1>4, <2>1 DEF ExtractFails, Typed, Rows, Exists
  <2> QED BY <2>1, <2>2, RunsStay
<1>5. ASSUME NEW c \in Clients, NEW content, NEW role_match, ExtractReturns(c, content, role_match)
      PROVE  \E k \in Clients : req'[k].op = "extract" /\ req'[k].doc = d
  <2>1. docs[d].status = "EXTRACTING" /\ req[c] \in Requests
    BY <1>5 DEF ExtractReturns, Typed
  <2>2. \A k \in Clients \ {c} : req'[k] = req[k]
    BY <1>5 DEF ExtractReturns, Typed
  <2>3. req'[c].op = req[c].op /\ req'[c].doc = req[c].doc
    BY <1>5, <2>1 DEF ExtractReturns, Typed, Requests
  <2> QED BY <2>1, <2>2, <2>3, RunsStay
<1>6. ASSUME NEW c \in Clients, Acquire(c)
      PROVE  \E k \in Clients : req'[k].op = "extract" /\ req'[k].doc = d
  <2>1. docs[d].status = "EXTRACTING" /\ req[c] \in Requests
    BY <1>6 DEF Acquire, Typed
  <2>2. \A k \in Clients \ {c} : req'[k] = req[k]
    BY <1>6 DEF Acquire, Typed
  <2>3. req'[c].op = req[c].op /\ req'[c].doc = req[c].doc
    BY <1>6, <2>1 DEF Acquire, Typed, Requests
  <2> QED BY <2>1, <2>2, <2>3, RunsStay
<1>7. ASSUME NEW c \in Clients, CommitExtract(c)
      PROVE  \E k \in Clients : req'[k].op = "extract" /\ req'[k].doc = d
  <2>1. docs[d].status = "EXTRACTING" /\ req[c].doc # d
    BY <1>7, ExtractEffect DEF EvidenceStep, Exists
  <2>2. \A k \in Clients \ {c} : req'[k] = req[k]
    BY <1>7, ExtractEffect DEF Done, Typed
  <2> QED BY <2>1, <2>2, RunsStay
<1>8. ASSUME NEW c \in Clients, Commit(c), ~CommitExtract(c)
      PROVE  \E k \in Clients : req'[k].op = "extract" /\ req'[k].doc = d
  <2>1. req[c].op # "extract"
    BY <1>8 DEF Commit, CommitDecide, CommitRemove, CommitReview, CommitFinalize, CommitMutate,
                CommitBms, CommitRegime, InBody
  <2>2. \A k \in Clients \ {c} : req'[k] = req[k]
    BY <1>8, CommitTyped DEF Done, Typed
  <2>3. docs[d].status = "EXTRACTING"
    <3>1. CASE CommitDecide(c)
      BY <3>1, DecideEffect DEF EvidenceStep
    <3>2. CASE CommitRemove(c)
      BY <3>2, RemoveEffect DEF EvidenceStep
    <3>3. CASE docs' = docs
      BY <3>3
    <3> QED BY <1>8, <3>1, <3>2, <3>3, ReviewEffect, FinalizeEffect, MutateEffect, BmsEffect,
               RegimeEffect DEF Commit, ReviewStep, EditStep
  <2> QED BY <2>1, <2>2, <2>3, RunsStay
<1>9. CASE Restart
  <2>1. docs'[d].status # "EXTRACTING"
    BY <1>9 DEF Restart, Typed, Rows
  <2> QED BY <2>1
<1> QED BY <1>1, <1>2, <1>3, <1>4, <1>5, <1>6, <1>7, <1>8, <1>9 DEF Next, Proceed, Commit

\* A document is EXTRACTING only while a request is extracting it, whatever
\* uploads, failures, removals and restarts fall between the claim and the
\* commit.
THEOREM ClaimsHaveRuns == Spec => []ClaimHasRun
<1>1. Init => ClaimHasRun
  BY DEF Init, ClaimHasRun
<1>2. Typed /\ ClaimHasRun /\ [Next]_vars => ClaimHasRun'
  BY ClaimStep
<1> QED BY <1>1, <1>2, AlwaysTyped, PTL DEF Spec

-----------------------------------------------------------------------------
(***************************************************************************)
(* Without re-attached files                                               *)
(***************************************************************************)
\* A step of c that writes no document.
LEMMA OneRunReads ==
    ASSUME Typed, OneRunPerDocument, docs' = docs,
           NEW c \in Clients, NEW r, req' = [req EXCEPT ![c] = r],
           Own(r, docs),
           \A k \in Clients \ {c} : r.pc = "insert" /\ req[k].pc = "insert" => r.doc # req[k].doc,
           Extracting(r) => Extracting(req[c]) /\ r.doc = req[c].doc
    PROVE  OneRunPerDocument'
<1>1. \A k \in Clients : req'[k] = IF k = c THEN r ELSE req[k]
  BY DEF Typed
<1>2. \A k \in Clients : Own(req'[k], docs')
  BY <1>1 DEF OneRunPerDocument
<1>3. ASSUME NEW k \in Clients, NEW l \in Clients, k # l PROVE Apart(req'[k], req'[l], docs')
  <2>1. Apart(req[k], req[l], docs)
    BY <1>3 DEF OneRunPerDocument
  <2>2. CASE k # c /\ l # c
    BY <1>1, <2>1, <2>2
  <2>3. CASE k = c
    BY <1>1, <1>3, <2>1, <2>3 DEF Apart
  <2>4. CASE l = c
    BY <1>1, <1>3, <2>1, <2>4 DEF Apart
  <2> QED BY <2>2, <2>3, <2>4
<1> QED BY <1>2, <1>3 DEF OneRunPerDocument

\* A step of c that writes the row d, which no other request counts on.
LEMMA OneRunWrites ==
    ASSUME Typed, OneRunPerDocument, NEW d \in Docs,
           \A e \in Docs \ {d} : docs'[e] = docs[e],
           docs'[d].status # "ABSENT", docs[d].status # "ABSENT" \/ docs'[d].status = "UPLOADED",
           NEW c \in Clients, NEW r, req' = [req EXCEPT ![c] = r],
           Own(r, docs'), r.pc # "insert", Extracting(r) => r.doc = d,
           \A k \in Clients \ {c} : Bystander(req[k], d, docs'[d].status)
    PROVE  OneRunPerDocument'
<1>1. \A k \in Clients : req'[k] = IF k = c THEN r ELSE req[k]
  BY DEF Typed
<1>2. ASSUME NEW k \in Clients PROVE Own(req'[k], docs')
  <2>1. CASE k = c
    BY <1>1, <2>1
  <2>2. CASE k # c
    <3>1. req'[k] = req[k] /\ Own(req[k], docs) /\ WellFormed(req[k])
      BY <1>1, <2>2 DEF OneRunPerDocument, Typed
    <3>2. CASE req[k].doc = d
      BY <2>2, <3>1, <3>2 DEF Own, Bystander
    <3>3. CASE req[k].doc # d
      BY <3>1, <3>3 DEF Own, WellFormed, Extracting
    <3> QED BY <3>2, <3>3
  <2> QED BY <2>1, <2>2
<1>3. ASSUME NEW k \in Clients, NEW l \in Clients, k # l PROVE Apart(req'[k], req'[l], docs')
  <2>1. Apart(req[k], req[l], docs) /\ WellFormed(req[k])
    BY <1>3 DEF OneRunPerDocument, Typed
  <2>2. CASE k # c /\ l # c
    <3>1. req'[k] = req[k] /\ req'[l] = req[l]
      BY <1>1, <2>2
    <3>2. CASE req[k].doc = d
      BY <2>1, <2>2, <3>1, <3>2 DEF Apart, Bystander
    <3>3. CASE req[k].doc # d
      BY <2>1, <3>1, <3>3 DEF Apart, WellFormed, Extracting
    <3> QED BY <3>2, <3>3
  <2>3. CASE k = c
    BY <1>1, <1>3, <2>3 DEF Apart, Bystander
  <2>4. CASE l = c
    BY <1>1, <1>3, <2>4 DEF Apart, Bystander
  <2> QED BY <2>2, <2>3, <2>4
<1> QED BY <1>2, <1>3 DEF OneRunPerDocument

LEMMA IdleOwn == \A D : Own(Idle, D) /\ Idle.pc # "insert" /\ ~Extracting(Idle)
BY IdleType DEF Own, Extracting

\* What is inside its body is there alone.
LEMMA AloneInBody ==
    ASSUME Typed, NEW c \in Clients, req[c].pc = "locked", NEW k \in Clients \ {c}
    PROVE  req[k].pc # "locked"
BY DEF Typed, HolderIsFresh

\* A request that ends, and has written the row d or none.
LEMMA OneRunEnds ==
    ASSUME Typed, OneRunPerDocument, NEW c \in Clients, req' = [req EXCEPT ![c] = Idle],
           NEW d \in Docs,
           \/ docs' = docs
           \/ /\ \A e \in Docs \ {d} : docs'[e] = docs[e]
              /\ docs'[d].status # "ABSENT"
              /\ docs[d].status # "ABSENT" \/ docs'[d].status = "UPLOADED"
              /\ \A k \in Clients \ {c} : Bystander(req[k], d, docs'[d].status)
    PROVE  OneRunPerDocument'
<1>1. CASE docs' = docs
  BY <1>1, IdleOwn, OneRunReads
<1>2. CASE docs' # docs
  BY <1>2, IdleOwn, OneRunWrites
<1> QED BY <1>1, <1>2

LEMMA IssueOneRun ==
    ASSUME "reupload" \notin Ops, Typed, OneRunPerDocument, NEW c \in Clients, Issue(c)
    PROVE  OneRunPerDocument' /\ RejectionStands
<1>1. ASSUME NEW d \in Docs, UploadCheck(c, d) PROVE OneRunPerDocument' /\ docs' = docs
  <2> DEFINE r == [Idle EXCEPT !.pc = "insert", !.op = "upload", !.doc = d]
  <2>1. /\ docs[d].status = "ABSENT" /\ docs' = docs
        /\ \A k \in Clients : ~(req[k].pc = "insert" /\ req[k].doc = d)
        /\ req' = [req EXCEPT ![c] = r]
    BY <1>1 DEF UploadCheck
  <2>2. r.pc = "insert" /\ r.op = "upload" /\ r.doc = d
    BY IdleType DEF Requests
  <2> HIDE DEF r
  <2>3. Own(r, docs) /\ ~Extracting(r)
    BY <2>1, <2>2 DEF Own, Extracting
  <2> QED BY <2>1, <2>2, <2>3, OneRunReads
<1>2. ASSUME NEW d \in Docs, ReuploadCheck(c, d) PROVE FALSE
  BY <1>2 DEF ReuploadCheck
<1>3. ASSUME NEW d \in Docs, Claim(c, d) PROVE OneRunPerDocument' /\ RejectionStands
  <2> DEFINE r == [Idle EXCEPT !.pc = "running", !.op = "extract", !.doc = d]
  <2>1. /\ docs[d].status \in {"UPLOADED", "FAILED"} /\ req[c] = Idle
        /\ docs' = [docs EXCEPT ![d].status = "EXTRACTING"]
        /\ req' = [req EXCEPT ![c] = r]
    BY <1>3 DEF Claim
  <2>2. r.pc = "running" /\ r.op = "extract" /\ r.doc = d
    BY IdleType DEF Requests
  <2> HIDE DEF r
  <2>3. /\ docs'[d].status = "EXTRACTING"
        /\ \A e \in Docs \ {d} : docs'[e] = docs[e]
    BY <2>1 DEF Typed, Rows
  <2>4. Own(r, docs')
    BY <2>2, <2>3 DEF Own, Extracting
  <2>5. \A k \in Clients : Own(req[k], docs)
    BY DEF OneRunPerDocument
  <2>6. ASSUME NEW k \in Clients \ {c}
        PROVE  Bystander(req[k], d, docs'[d].status)
    BY <2>1, <2>5 DEF Own, Bystander
  <2>7. OneRunPerDocument'
    BY <2>1, <2>2, <2>3, <2>4, <2>6, OneRunWrites
  <2>8. RejectionStands
    BY <2>3 DEF RejectionStands
  <2> QED BY <2>7, <2>8
<1>4. ASSUME NEW op \in {"review", "finalize", "confirm"}, NEW arg, Start(c, op, arg)
      PROVE  OneRunPerDocument' /\ docs' = docs
  <2> DEFINE r == [Idle EXCEPT !.pc = "waiting", !.op = op, !.arg = arg]
  <2>1. docs' = docs /\ req' = [req EXCEPT ![c] = r]
    BY <1>4 DEF Start
  <2>2. r.pc = "waiting" /\ r.op = op
    BY IdleType DEF Requests
  <2> HIDE DEF r
  <2>3. Own(r, docs) /\ ~Extracting(r)
    BY <2>2 DEF Own, Extracting
  <2> QED BY <2>1, <2>2, <2>3, OneRunReads
<1>5. ASSUME NEW op, NEW d, NEW arg, Enter(c, op, d, arg), op # "extract",
             op \in {"decide", "remove"} => Exists(docs, d)
      PROVE  OneRunPerDocument' /\ docs' = docs
  <2> DEFINE r == [pc |-> "locked", op |-> op, doc |-> d, arg |-> arg, seen |-> Fresh]
  <2>1. docs' = docs /\ req' = [req EXCEPT ![c] = r]
    BY <1>5 DEF Enter
  <2>2. r.pc = "locked" /\ r.op = op /\ r.doc = d /\ r.seen.docs = docs
    BY DEF Fresh
  <2> HIDE DEF r
  <2>3. Own(r, docs) /\ ~Extracting(r)
    BY <1>5, <2>2 DEF Own, Extracting, Exists
  <2> QED BY <2>1, <2>2, <2>3, OneRunReads
<1>6. docs' = docs => RejectionStands
  BY DEF RejectionStands
<1>7. ASSUME NEW d \in Docs, NEW arg,
             EnterOnDocument(c, "decide", d, arg) \/ EnterOnDocument(c, "remove", d, arg)
      PROVE  OneRunPerDocument' /\ docs' = docs
  BY <1>5, <1>7 DEF EnterOnDocument
<1>8. ASSUME NEW op \in {"mutate", "bms", "regime"}, NEW arg, Enter(c, op, None, arg)
      PROVE  OneRunPerDocument' /\ docs' = docs
  BY <1>5, <1>8
<1> QED BY <1>1, <1>2, <1>3, <1>4, <1>6, <1>7, <1>8
        DEF Issue, StartReview, StartFinalize, StartConfirm

LEMMA ProceedOneRun ==
    ASSUME Typed, OneRunPerDocument, NEW c \in Clients, Proceed(c)
    PROVE  OneRunPerDocument' /\ RejectionStands
<1> DEFINE d == req[c].doc
<1>0. /\ \A k \in Clients : Own(req[k], docs)
      /\ \A k \in Clients \ {c} : Apart(req[k], req[c], docs)
      /\ WellFormed(req[c])
  BY DEF OneRunPerDocument, Typed
<1>1. CASE UploadInsert(c)
  <2>1. /\ req[c].pc = "insert" /\ d \in Docs /\ docs[d].status = "ABSENT"
        /\ req' = [req EXCEPT ![c] = Idle]
    BY <1>0, <1>1 DEF UploadInsert, WellFormed, Own
  <2>2. docs'[d].status = "UPLOADED" /\ \A e \in Docs \ {d} : docs'[e] = docs[e]
    BY <1>1, <2>1 DEF UploadInsert, Typed, Rows
  <2>3. ASSUME NEW k \in Clients \ {c}
        PROVE  Bystander(req[k], d, docs'[d].status)
    BY <1>0, <2>1 DEF Own, Apart, Bystander
  <2>4. OneRunPerDocument'
    BY <2>1, <2>2, <2>3, OneRunEnds
  <2> QED BY <2>1, <2>2, <2>4 DEF RejectionStands
<1>2. CASE UploadReset(c)
  BY <1>0, <1>2 DEF UploadReset, Own
<1>3. CASE ExtractFails(c)
  <2>1. /\ Extracting(req[c]) /\ d \in Docs /\ docs[d].status \in {"EXTRACTING", "REMOVED"}
        /\ req' = [req EXCEPT ![c] = Idle]
    BY <1>0, <1>3 DEF ExtractFails, WellFormed, Own, Extracting
  <2>2. CASE ~Exists(docs, d)
    <3>1. docs' = docs
      BY <1>3, <2>2 DEF ExtractFails
    <3> QED BY <2>1, <3>1, OneRunEnds DEF RejectionStands
  <2>3. CASE Exists(docs, d)
    <3>1. docs[d].status = "EXTRACTING"
      BY <2>1, <2>3 DEF Exists
    <3>2. docs'[d].status = "FAILED" /\ \A e \in Docs \ {d} : docs'[e] = docs[e]
      BY <1>3, <2>1, <2>3 DEF ExtractFails, Typed, Rows
    <3>3. ASSUME NEW k \in Clients \ {c}
          PROVE  Bystander(req[k], d, docs'[d].status)
      BY <1>0, <2>1, <3>1 DEF Own, Apart, Bystander
    <3>4. OneRunPerDocument'
      BY <2>1, <3>1, <3>2, <3>3, OneRunEnds
    <3> QED BY <3>1, <3>2, <3>4 DEF RejectionStands
  <2> QED BY <2>2, <2>3
<1>4. ASSUME NEW content, NEW role_match, ExtractReturns(c, content, role_match)
      PROVE  OneRunPerDocument' /\ RejectionStands
  <2> DEFINE r == [req[c] EXCEPT !.pc = "waiting", !.arg = [raw |-> content, match |-> role_match]]
  <2>1. req[c] \in Requests /\ req[c].pc = "running" /\ docs' = docs
    BY <1>4 DEF ExtractReturns, Typed
  <2>2. /\ r.pc = "waiting" /\ r.op = req[c].op /\ r.doc = d
        /\ req' = [req EXCEPT ![c] = r]
    BY <1>4, <2>1 DEF ExtractReturns, Requests
  <2> HIDE DEF r
  <2>3. Extracting(req[c])
    BY <1>0, <2>1 DEF WellFormed, Extracting
  <2>4. Own(r, docs)
    BY <1>0, <2>2, <2>3 DEF Own, Extracting
  <2> QED BY <2>1, <2>2, <2>3, <2>4, OneRunReads DEF RejectionStands
<1>5. CASE Acquire(c)
  <2> DEFINE r == [req[c] EXCEPT !.pc = "locked", !.seen = Fresh]
  <2>1. req[c] \in Requests /\ req[c].pc = "waiting" /\ docs' = docs
    BY <1>5 DEF Acquire, Typed
  <2>2. /\ r.pc = "locked" /\ r.op = req[c].op /\ r.doc = d
        /\ req' = [req EXCEPT ![c] = r]
    BY <1>5, <2>1 DEF Acquire, Requests
  <2> HIDE DEF r
  <2>3. Extracting(r) => Extracting(req[c])
    BY <2>1, <2>2 DEF Extracting
  <2>4. r.op \notin {"decide", "remove"}
    BY <1>0, <2>1, <2>2 DEF WellFormed
  <2>5. Own(r, docs)
    BY <1>0, <2>2, <2>3, <2>4 DEF Own
  <2> QED BY <2>1, <2>2, <2>3, <2>5, OneRunReads DEF RejectionStands
<1>6. ASSUME Commit(c), docs' = docs PROVE OneRunPerDocument' /\ RejectionStands
  <2>1. req' = [req EXCEPT ![c] = Idle]
    BY <1>6, CommitTyped DEF Done
  <2>2. OneRunPerDocument'
    BY <1>6, <2>1, IdleOwn, OneRunReads
  <2> QED BY <1>6, <2>2 DEF RejectionStands
<1>7. ASSUME CommitExtract(c), docs' # docs PROVE OneRunPerDocument' /\ RejectionStands
  <2>1. /\ req' = [req EXCEPT ![c] = Idle] /\ req[c].pc = "locked"
        /\ d \in Docs /\ Exists(docs, d)
        /\ \A e \in Docs \ {d} : docs'[e] = docs[e]
        /\ docs'[d].status \in {"EXTRACTED", "ROLE_REVIEW_REQUIRED"}
    BY <1>7, ExtractEffect DEF EvidenceStep, Done
  <2>2. Extracting(req[c])
    BY <1>7 DEF CommitExtract, InBody, Extracting
  <2>3. docs[d].status = "EXTRACTING"
    BY <1>0, <2>1, <2>2 DEF Own, Exists
  <2>4. ASSUME NEW k \in Clients \ {c}
        PROVE  Bystander(req[k], d, docs'[d].status)
    BY <1>0, <2>1, <2>2, <2>3, AloneInBody DEF Own, Apart, Bystander
  <2>5. OneRunPerDocument'
    BY <2>1, <2>3, <2>4, OneRunEnds
  <2> QED BY <2>1, <2>5 DEF RejectionStands
<1>8. ASSUME CommitDecide(c), docs' # docs PROVE OneRunPerDocument' /\ RejectionStands
  <2>1. /\ req' = [req EXCEPT ![c] = Idle] /\ req[c].pc = "locked" /\ req[c].op = "decide"
        /\ d \in Docs /\ req[c].seen.docs[d].status = "ROLE_REVIEW_REQUIRED"
        /\ \A e \in Docs \ {d} : docs'[e] = docs[e]
        /\ docs'[d].status \in {"EXTRACTED", "ROLE_REJECTED"}
    BY <1>8, DecideEffect DEF EvidenceStep, Done
  <2>2. docs[d].status = "ROLE_REVIEW_REQUIRED"
    BY <1>0, <2>1 DEF Own
  <2>3. ASSUME NEW k \in Clients \ {c}
        PROVE  Bystander(req[k], d, docs'[d].status)
    BY <1>0, <2>1, <2>2, AloneInBody DEF Own, Bystander
  <2>4. OneRunPerDocument'
    BY <2>1, <2>2, <2>3, OneRunEnds
  <2> QED BY <2>1, <2>4 DEF RejectionStands
<1>9. ASSUME CommitRemove(c), docs' # docs PROVE OneRunPerDocument' /\ RejectionStands
  <2>1. /\ req' = [req EXCEPT ![c] = Idle] /\ req[c].pc = "locked" /\ req[c].op = "remove"
        /\ d \in Docs
        /\ \A e \in Docs \ {d} : docs'[e] = docs[e]
        /\ docs'[d].status = "REMOVED"
    BY <1>9, RemoveEffect DEF EvidenceStep, Done, CommitRemove, InBody
  <2>2. docs[d].status # "ABSENT"
    BY <1>0, <2>1 DEF Own
  <2>3. ASSUME NEW k \in Clients \ {c}
        PROVE  Bystander(req[k], d, docs'[d].status)
    BY <1>0, <2>1, <2>2, AloneInBody DEF Own, Bystander
  <2>4. OneRunPerDocument'
    BY <2>1, <2>2, <2>3, OneRunEnds
  <2> QED BY <2>1, <2>4 DEF RejectionStands
<1>10. Commit(c) => docs' = docs \/ CommitExtract(c) \/ CommitDecide(c) \/ CommitRemove(c)
  BY ReviewEffect, FinalizeEffect, MutateEffect, BmsEffect, RegimeEffect
     DEF Commit, ReviewStep, EditStep
<1> QED BY <1>1, <1>2, <1>3, <1>4, <1>5, <1>6, <1>7, <1>8, <1>9, <1>10 DEF Proceed, Commit

LEMMA OneRunStep ==
    ASSUME "reupload" \notin Ops
    PROVE  /\ Typed /\ OneRunPerDocument /\ [Next]_vars => OneRunPerDocument'
           /\ Typed /\ OneRunPerDocument /\ [Next]_vars => [RejectionStands]_vars
<1> SUFFICES ASSUME Typed, OneRunPerDocument, [Next]_vars
             PROVE  OneRunPerDocument' /\ [RejectionStands]_vars
  OBVIOUS
<1>1. CASE UNCHANGED vars
  BY <1>1 DEF vars, OneRunPerDocument
<1>2. ASSUME NEW c \in Clients, Issue(c) \/ Proceed(c) PROVE OneRunPerDocument' /\ RejectionStands
  BY <1>2, IssueOneRun, ProceedOneRun
<1>3. CASE Restart
  <2>1. \A k \in Clients : req'[k] = Idle
    BY <1>3, RestartQuiet
  <2>2. \A k \in Clients : Own(req'[k], docs')
    BY <2>1, IdleOwn
  <2>3. \A k, l \in Clients : Apart(req'[k], req'[l], docs')
    BY <2>1, IdleOwn DEF Apart
  <2>4. RejectionStands
    BY <1>3 DEF Restart, RejectionStands, Typed, Rows
  <2> QED BY <2>2, <2>3, <2>4 DEF OneRunPerDocument
<1> QED BY <1>1, <1>2, <1>3 DEF Next

LEMMA AlwaysRejectionStands ==
    ASSUME "reupload" \notin Ops PROVE Spec => [][RejectionStands]_vars
<1>1. Init => OneRunPerDocument
  <2> SUFFICES ASSUME Init PROVE OneRunPerDocument
    OBVIOUS
  <2>1. \A k \in Clients : req[k] = Idle
    BY DEF Init
  <2> QED BY <2>1, IdleOwn DEF OneRunPerDocument, Apart
<1>2. Typed /\ OneRunPerDocument /\ [Next]_vars => OneRunPerDocument'
  BY OneRunStep
<1>3. Typed /\ OneRunPerDocument /\ [Next]_vars => [RejectionStands]_vars
  BY OneRunStep
<1> QED BY <1>1, <1>2, <1>3, AlwaysTyped, PTL DEF Spec

\* The stored review, the declaration, the XML and the workbook are computed
\* from the evidence, the entries and the selections that the job holds: in
\* every behaviour in which no row that a reviewer rejected is put back
\* without the lock, and so in every behaviour without re-attached files.
THEOREM DerivedStaysCurrent ==
    /\ Spec /\ [][RejectionStands]_vars => []DerivedIsCurrent
    /\ "reupload" \notin Ops => (Spec => []DerivedIsCurrent)
<1>1. CurrentInv => DerivedIsCurrent
  BY DEF CurrentInv
<1>2. Spec /\ [][RejectionStands]_vars => []DerivedIsCurrent
  BY <1>1, AlwaysCurrent, PTL
<1>3. ASSUME "reupload" \notin Ops PROVE Spec => []DerivedIsCurrent
  <2>1. Spec => [][RejectionStands]_vars
    BY <1>3, AlwaysRejectionStands
  <2> QED BY <1>2, <2>1, PTL
<1> QED BY <1>2, <1>3

\* No entry outlives the evidence it was made against, in the same behaviours.
THEOREM EntriesStayFitting ==
    /\ Spec /\ [][RejectionStands]_vars => []EntriesFitEvidence
    /\ "reupload" \notin Ops => (Spec => []EntriesFitEvidence)
<1>1. CurrentInv => EntriesFitEvidence
  BY DEF CurrentInv
<1>2. Spec /\ [][RejectionStands]_vars => []EntriesFitEvidence
  BY <1>1, AlwaysCurrent, PTL
<1>3. ASSUME "reupload" \notin Ops PROVE Spec => []EntriesFitEvidence
  <2>1. Spec => [][RejectionStands]_vars
    BY <1>3, AlwaysRejectionStands
  <2> QED BY <1>2, <2>1, PTL
<1> QED BY <1>2, <1>3
=============================================================================
