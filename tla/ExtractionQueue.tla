--------------------------- MODULE ExtractionQueue --------------------------
(***************************************************************************)
(* Extraction in queue mode: the API claims a document and sends a message *)
(* (queueing.enqueue_extraction), worker threads receive it, run the       *)
(* extraction and delete the message (worker.process_message).             *)
(*                                                                         *)
(* The status column and the message are two separate systems.  Each step  *)
(* below is one commit to the database or one call to SQS, so a process    *)
(* may die, or a call fail, between any two of them.                       *)
(*                                                                         *)
(* SQS itself is external: an undeleted message whose receipt nobody       *)
(* extends becomes visible again, and after MaxReceive deliveries it goes  *)
(* to the dead-letter queue.                                               *)
(***************************************************************************)
EXTENDS Naturals, FiniteSets

CONSTANTS
    Docs,         \* documents
    Msgs,         \* identities of messages; bounds the number of sends
    Producers,    \* API requests that may enqueue at the same time
    Workers,      \* worker threads, on whatever machines
    MaxReceive,   \* maxReceiveCount of the queue's redrive policy
    Kinds,        \* what messages say: see Send
    Faults,       \* the failures that may happen
    None          \* null

AllFaults ==
    {"crash",      \* a worker dies
     "heartbeat",  \* change_message_visibility fails, the worker lives on
     "delete",     \* delete_message fails
     "send",       \* send_message raises; the message may be sent all the same
     "api",        \* the API process dies
     "commit"}     \* the last transaction of a run fails

ASSUME FaultsType == Faults \subseteq AllFaults
AllKinds == {"ok", "unsupported", "malformed"}

ASSUME KindsType == "ok" \in Kinds /\ Kinds \subseteq AllKinds
ASSUME MaxReceiveType == MaxReceive \in Nat \ {0}
ASSUME NoneFresh == None \notin Docs \cup Msgs \cup Producers \cup Workers \cup AllKinds

VARIABLES
    doc,       \* the document rows: status, and whether the OCR is stored
    msg,       \* the messages, on the queue, in flight, deleted or dead
    prod,      \* enqueue_extraction calls
    work,      \* process_message calls
    stranded   \* history: claims that were lost, and how

vars == <<doc, msg, prod, work, stranded>>

\* EXTRACTED stands for ROLE_REVIEW_REQUIRED as well: the run succeeded.
Status == {"UPLOADED", "EXTRACTING", "EXTRACTED", "FAILED", "REMOVED"}

Claimable == {"UPLOADED", "FAILED"}

Resting == [pc |-> "idle", doc |-> None, prior |-> None]
NoWork  == [pc |-> "idle", msg |-> None, kind |-> None, doc |-> None, ocr |-> FALSE, beating |-> TRUE]
Unsent  == [at |-> "unsent", doc |-> None, kind |-> None, holder |-> None, count |-> 0]

\* The ways a claim loses whoever was to settle it: its request dies before
\* the message is sent, or the last commit of its run fails.
Holes == {"api", "commit"}

\* A worker between its claim and the end of its run.
RunPCs == {"ocr", "extract"}

TypeOK ==
    /\ doc \in [Docs -> [status : Status, ocr : BOOLEAN]]
    /\ msg \in [Msgs -> [at : {"unsent", "visible", "inflight", "deleted", "dead"},
                         doc : Docs \cup {None}, kind : Kinds \cup {None},
                         holder : Workers \cup {None}, count : 0..MaxReceive]]
    /\ prod \in [Producers -> [pc : {"idle", "claim", "send", "release"},
                               doc : Docs \cup {None}, prior : Claimable \cup {None}]]
    /\ work \in [Workers -> [pc : {"idle", "look", "claim", "dispose"} \cup RunPCs,
                             msg : Msgs \cup {None}, kind : Kinds \cup {None},
                             doc : Docs \cup {None},
                             ocr : BOOLEAN, beating : BOOLEAN]]
    /\ stranded \subseteq Docs \X Holes

Init ==
    /\ doc = [d \in Docs |-> [status |-> "UPLOADED", ocr |-> FALSE]]
    /\ msg = [m \in Msgs |-> Unsent]
    /\ prod = [p \in Producers |-> Resting]
    /\ work = [w \in Workers |-> NoWork]
    /\ stranded = {}

SetStatus(d, s) == doc' = [doc EXCEPT ![d].status = s]

\* Rows are written by id: a removed row is not written.
Written(d, s) == IF doc[d].status = "REMOVED" THEN doc ELSE [doc EXCEPT ![d].status = s]

-----------------------------------------------------------------------------
(***************************************************************************)
(* The producer: POST .../extract and enqueue_extraction                   *)
(***************************************************************************)
\* Bound: a send finds an identity that no other send will take.
CanSend ==
    Cardinality({p \in Producers : prod[p].pc \in {"claim", "send"}})
        < Cardinality({m \in Msgs : msg[m].at = "unsent"})

\* The route's status check, and claim_for_queued_extraction's pre-read.
Request(p, d) ==
    /\ prod[p].pc = "idle"
    /\ CanSend
    /\ doc[d].status \in Claimable
    /\ prod' = [prod EXCEPT ![p] = [pc |-> "claim", doc |-> d, prior |-> doc[d].status]]
    /\ UNCHANGED <<doc, msg, work, stranded>>

\* A new claim starts with nothing lost.
StrandedBut(d) == {s \in stranded : s[1] # d}

\* Mutation: the prior status is read after the UPDATE instead of before.
ClaimReadsPriorLate(p) ==
    /\ prod[p].pc = "claim"
    /\ doc[prod[p].doc].status \in Claimable
    /\ SetStatus(prod[p].doc, "EXTRACTING")
    /\ prod' = [prod EXCEPT ![p].pc = "send", ![p].prior = "EXTRACTING"]
    /\ stranded' = StrandedBut(prod[p].doc)
    /\ UNCHANGED <<msg, work>>

\* The guarded UPDATE; the loser of a race is refused.
Claim(p) ==
    /\ prod[p].pc = "claim"
    /\ \/ /\ doc[prod[p].doc].status \in Claimable
          /\ SetStatus(prod[p].doc, "EXTRACTING")
          /\ prod' = [prod EXCEPT ![p].pc = "send"]
          /\ stranded' = StrandedBut(prod[p].doc)
       \/ /\ doc[prod[p].doc].status \notin Claimable
          /\ prod' = [prod EXCEPT ![p] = Resting]
          /\ UNCHANGED <<doc, stranded>>
    /\ UNCHANGED <<msg, work>>

\* A message appears on the queue; which identity it gets does not matter.
OnQueue(d, kind) ==
    /\ \E n \in Msgs : msg[n].at = "unsent"
    /\ LET m == CHOOSE n \in Msgs : msg[n].at = "unsent"
       IN  msg' = [msg EXCEPT ![m] = [at |-> "visible", doc |-> d, kind |-> kind,
                                      holder |-> None, count |-> 0]]

\* send_message.  "unsupported" is what an API newer than the workers sends.
Send(p) ==
    /\ prod[p].pc = "send"
    /\ \E kind \in Kinds \ {"malformed"} : OnQueue(prod[p].doc, kind)
    /\ prod' = [prod EXCEPT ![p] = Resting]
    /\ UNCHANGED <<doc, work, stranded>>

\* send_message raises: nothing was sent, or only the answer was lost.
SendFails(p) ==
    /\ "send" \in Faults
    /\ prod[p].pc = "send"
    /\ \/ UNCHANGED msg
       \/ OnQueue(prod[p].doc, "ok")
    /\ prod' = [prod EXCEPT ![p].pc = "release"]
    /\ UNCHANGED <<doc, work, stranded>>

\* Mutation: the failed send is reported and the claim kept.
ReleaseNothing(p) ==
    /\ prod[p].pc = "release"
    /\ prod' = [prod EXCEPT ![p] = Resting]
    /\ UNCHANGED <<doc, msg, work, stranded>>

\* release_queued_claim: back to the prior status, whatever happened since.
Release(p) ==
    /\ prod[p].pc = "release"
    /\ doc' = Written(prod[p].doc, prod[p].prior)
    /\ prod' = [prod EXCEPT ![p] = Resting]
    /\ UNCHANGED <<msg, work, stranded>>

\* The API dies.  In queue mode its restart sweeps nothing.
ApiDies ==
    /\ "api" \in Faults
    /\ prod # [p \in Producers |-> Resting]
    /\ prod' = [p \in Producers |-> Resting]
    /\ stranded' = stranded \cup
          {<<prod[p].doc, "api">> : p \in {q \in Producers : prod[q].pc \in {"send", "release"}}}
    /\ UNCHANGED <<doc, msg, work>>

\* producer.py --probe malformed
Probe ==
    /\ "malformed" \in Kinds
    /\ CanSend
    /\ OnQueue(None, "malformed")
    /\ UNCHANGED <<doc, prod, work, stranded>>

\* remove_document refuses a document that is being extracted.
Remove(d) ==
    /\ doc[d].status \notin {"EXTRACTING", "REMOVED"}
    /\ SetStatus(d, "REMOVED")
    /\ UNCHANGED <<msg, prod, work, stranded>>

\* release_stuck_extractions.py, run as it demands: with everything stopped.
ReleaseStuck ==
    /\ \A p \in Producers : prod[p].pc = "idle"
    /\ \A w \in Workers : work[w].pc = "idle"
    /\ \E d \in Docs : doc[d].status = "EXTRACTING"
    /\ doc' = [d \in Docs |-> IF doc[d].status = "EXTRACTING"
                              THEN [doc[d] EXCEPT !.status = "UPLOADED"] ELSE doc[d]]
    /\ stranded' = {}
    /\ UNCHANGED <<msg, prod, work>>

-----------------------------------------------------------------------------
(***************************************************************************)
(* SQS                                                                     *)
(***************************************************************************)
\* An in-flight message that nothing extends any longer.
Expire(m) ==
    /\ msg[m].at = "inflight"
    /\ ~ \E w \in Workers : msg[m].holder = w /\ work[w].beating
    /\ msg' = [msg EXCEPT ![m].at = "visible", ![m].holder = None]
    /\ UNCHANGED <<doc, prod, work, stranded>>

Redrive(m) ==
    /\ msg[m].at = "visible"
    /\ msg[m].count = MaxReceive
    /\ msg' = [msg EXCEPT ![m].at = "dead"]
    /\ UNCHANGED <<doc, prod, work, stranded>>

\* A delivery to an idle thread, with the heartbeat started.
Receive(w, m) ==
    /\ work[w].pc = "idle"
    /\ msg[m].at = "visible"
    /\ msg[m].count < MaxReceive
    /\ msg' = [msg EXCEPT ![m].at = "inflight", ![m].holder = w, ![m].count = @ + 1]
    /\ work' = [work EXCEPT ![w] = [NoWork EXCEPT !.pc = "look", !.msg = m,
                                        !.kind = msg[m].kind, !.doc = msg[m].doc]]
    /\ UNCHANGED <<doc, prod, stranded>>

HeartbeatLost(w) ==
    /\ "heartbeat" \in Faults
    /\ work[w].pc # "idle"
    /\ work[w].beating
    /\ work' = [work EXCEPT ![w].beating = FALSE]
    /\ UNCHANGED <<doc, msg, prod, stranded>>

-----------------------------------------------------------------------------
(***************************************************************************)
(* The worker: process_message and, from "claim" on, run_extraction with   *)
(* claim_from = (EXTRACTING,)                                              *)
(***************************************************************************)
At(w, here) == work[w].pc = here

\* The thread lets go of the message without deleting it.
LetGo(w) ==
    /\ msg' = [m \in Msgs |-> IF msg[m].holder = w THEN [msg[m] EXCEPT !.holder = None]
                              ELSE msg[m]]
    /\ work' = [work EXCEPT ![w] = NoWork]

\* The attempt is over; what remains is the message.
Over(w) ==
    work' = [work EXCEPT ![w] = [@ EXCEPT !.pc = "dispose", !.doc = None, !.kind = None,
                                          !.ocr = FALSE]]

\* Mutation: a message of an unknown version is treated as malformed.
LookDeletesUnsupported(w) ==
    /\ At(w, "look")
    /\ LET wanted == work[w].kind = "ok" /\ doc[work[w].doc].status = "EXTRACTING"
       IN  IF wanted THEN work' = [work EXCEPT ![w].pc = "claim"] ELSE Over(w)
    /\ UNCHANGED <<doc, msg, prod, stranded>>

\* parse_message, and the status check before the run.
Look(w) ==
    /\ At(w, "look")
    /\ \/ /\ work[w].kind = "unsupported"
          /\ LetGo(w)
       \/ /\ work[w].kind # "unsupported"
          /\ LET wanted == work[w].kind = "ok" /\ doc[work[w].doc].status = "EXTRACTING"
             IN  IF wanted THEN work' = [work EXCEPT ![w].pc = "claim"] ELSE Over(w)
          /\ UNCHANGED msg
    /\ UNCHANGED <<doc, prod, stranded>>

\* The guarded UPDATE of run_extraction, from EXTRACTING to EXTRACTING, and
\* the refresh that reads the stored OCR.
TakeOver(w) ==
    /\ At(w, "claim")
    /\ \/ /\ doc[work[w].doc].status = "EXTRACTING"
          /\ work' = [work EXCEPT ![w].pc = "ocr", ![w].ocr = doc[work[w].doc].ocr]
       \/ /\ doc[work[w].doc].status # "EXTRACTING"
          /\ Over(w)
    /\ UNCHANGED <<doc, msg, prod, stranded>>

\* The OCR is bought unless a stored one was read, and committed at once.
Ocr(w) ==
    /\ At(w, "ocr")
    /\ \/ /\ work[w].ocr
          /\ UNCHANGED doc
       \/ /\ ~work[w].ocr
          /\ doc[work[w].doc].status # "REMOVED"
          /\ doc' = [doc EXCEPT ![work[w].doc].ocr = TRUE]
    /\ work' = [work EXCEPT ![w].pc = "extract"]
    /\ UNCHANGED <<msg, prod, stranded>>

\* Mutation: the failure is raised before it is stored.
FailsUnrecorded(w) ==
    /\ work[w].pc \in RunPCs
    /\ Over(w)
    /\ UNCHANGED <<doc, msg, prod, stranded>>

\* Anything raised by OCR or extraction: FAILED with the reason, by id.
Fails(w) ==
    /\ work[w].pc \in RunPCs
    /\ doc' = Written(work[w].doc, "FAILED")
    /\ Over(w)
    /\ UNCHANGED <<msg, prod, stranded>>

\* The extraction succeeds; its results, under the job lock, by id.
Commit(w) ==
    /\ At(w, "extract")
    /\ doc' = Written(work[w].doc, "EXTRACTED")
    /\ Over(w)
    /\ UNCHANGED <<msg, prod, stranded>>

\* The last transaction is outside the try: JOB_BUSY from the lock timeout,
\* or a lost connection, is swallowed by process_message.
CommitFails(w) ==
    /\ "commit" \in Faults
    /\ At(w, "extract")
    /\ stranded' = stranded \cup {<<work[w].doc, "commit">>}
    /\ Over(w)
    /\ UNCHANGED <<doc, msg, prod>>

\* finally: the heartbeat ends, then delete_message.  A receipt that has
\* expired may or may not still delete.
Dispose(w) ==
    /\ At(w, "dispose")
    /\ LET m == work[w].msg
       IN  \/ /\ msg[m].at \in {"visible", "inflight"}
              /\ msg' = [msg EXCEPT ![m] = [Unsent EXCEPT !.at = "deleted"]]
              /\ work' = [work EXCEPT ![w] = NoWork]
           \/ /\ "delete" \in Faults \/ msg[m].holder # w
              /\ LetGo(w)
    /\ UNCHANGED <<doc, prod, stranded>>

\* The process dies: what it had committed stays, the message is not deleted.
Dies(w) ==
    /\ "crash" \in Faults
    /\ work[w].pc # "idle"
    /\ LetGo(w)
    /\ UNCHANGED <<doc, prod, stranded>>

-----------------------------------------------------------------------------
ProducerStep(p) == Claim(p) \/ Send(p) \/ SendFails(p) \/ Release(p)

WorkerStep(w) ==
    \/ Look(w)
    \/ TakeOver(w)
    \/ Ocr(w)
    \/ Fails(w)
    \/ Commit(w)
    \/ CommitFails(w)
    \/ Dispose(w)

Next ==
    \/ \E p \in Producers : ProducerStep(p) \/ \E d \in Docs : Request(p, d)
    \/ ApiDies
    \/ Probe
    \/ \E d \in Docs : Remove(d)
    \/ ReleaseStuck
    \/ \E m \in Msgs : Expire(m) \/ Redrive(m)
    \/ \E w \in Workers :
          \/ WorkerStep(w)
          \/ \E m \in Msgs : Receive(w, m)
          \/ HeartbeatLost(w)
          \/ Dies(w)

Spec == Init /\ [][Next]_vars

(***************************************************************************)
(* Provider calls return or time out, SQS makes unextended messages        *)
(* visible again and delivers visible ones to a polling thread.  Nothing   *)
(* obliges a reviewer to press Continue, a process to die, or an operator  *)
(* to run the release script.                                              *)
(***************************************************************************)
Fairness ==
    /\ \A p \in Producers : WF_vars(ProducerStep(p))
    /\ \A w \in Workers : WF_vars(WorkerStep(w))
    /\ \A m \in Msgs : /\ WF_vars(Expire(m))
                       /\ WF_vars(Redrive(m))
                       /\ WF_vars(\E w \in Workers : Receive(w, m))

FairSpec == Spec /\ Fairness

-----------------------------------------------------------------------------
(***************************************************************************)
(* Properties                                                              *)
(***************************************************************************)
Running(w) == work[w].pc \in RunPCs

\* The request that took the claim, and has yet to send or to release it.
HeldByRequest(d) == \E p \in Producers : prod[p].doc = d /\ prod[p].pc \in {"send", "release"}

\* A message that names the document, or that the dead-letter queue keeps.
Pending(d) == {m \in Msgs : msg[m].doc = d /\ msg[m].at \in {"visible", "inflight", "dead"}}

Stranded(d) == \E hole \in Holes : <<d, hole>> \in stranded

\* A document that is EXTRACTING is never forgotten: a request or a message
\* for it exists, unless the claim was lost through one of the two holes.  A
\* message is only deleted once the row says how the run ended, whichever of
\* several workers of one document comes first.
ClaimHasBearer ==
    \A d \in Docs :
        doc[d].status = "EXTRACTING" =>
            HeldByRequest(d) \/ Pending(d) # {} \/ Stranded(d)

\* What release_stuck_extractions.py says of the same design: "That leaves
\* exactly one hole", an API process that dies before its message is sent.
OnlyTheApiLosesClaims ==
    \A d \in Docs :
        doc[d].status = "EXTRACTING" =>
            HeldByRequest(d) \/ Pending(d) # {} \/ <<d, "api">> \in stranded

\* Two workers of one document may both be about to delete, each counting on
\* the other's message.  That a claim has a message NOBODY is about to delete
\* is what survives every step.
Doomed(m) == \E w \in Workers : work[w].pc = "dispose" /\ work[w].msg = m

BearerIsSafe ==
    \A d \in Docs :
        doc[d].status = "EXTRACTING" =>
            \/ HeldByRequest(d)
            \/ \E m \in Pending(d) : ~Doomed(m)
            \/ Stranded(d)

\* What a worker holds is a message that was sent, for the document it works
\* on (unless another worker has deleted it meanwhile).
WorkMatchesMessage ==
    \A w \in Workers :
        work[w].pc # "idle" =>
            /\ work[w].msg \in Msgs
            /\ msg[work[w].msg].at # "unsent"
            /\ work[w].pc # "dispose" =>
                  \/ msg[work[w].msg].doc = work[w].doc
                  \/ msg[work[w].msg].at = "deleted"

RequestHasDoc ==
    \A p \in Producers :
        prod[p].pc # "idle" => prod[p].doc \in Docs /\ prod[p].prior \in Claimable

\* Only an unintelligible message names no document, and only an intelligible
\* one is acted on.
KindTellsDoc ==
    /\ \A m \in Msgs :
          /\ msg[m].kind = "malformed" => msg[m].doc = None
          /\ msg[m].kind \in {"ok", "unsupported"} <=> msg[m].doc \in Docs
    /\ \A w \in Workers :
          /\ work[w].kind = "malformed" => work[w].doc = None
          /\ work[w].kind \in {"ok", "unsupported"} <=> work[w].doc \in Docs
          /\ work[w].pc \in {"claim"} \cup RunPCs => work[w].kind = "ok"

IndInv ==
    /\ TypeOK
    /\ RequestHasDoc
    /\ KindTellsDoc
    /\ WorkMatchesMessage
    /\ BearerIsSafe

\* A claimed document is decided, or its message is dead-lettered, or the
\* claim was lost through one of the two holes.
ClaimSettles ==
    \A d \in Docs :
        doc[d].status = "EXTRACTING" ~>
            \/ doc[d].status # "EXTRACTING"
            \/ \E m \in Msgs : msg[m].doc = d /\ msg[m].at = "dead"
            \/ Stranded(d)

\* Two workers never extract one document at the same time.
OneRunAtATime ==
    \A v, w \in Workers : (Running(v) /\ Running(w) /\ work[v].doc = work[w].doc) => v = w
=============================================================================
