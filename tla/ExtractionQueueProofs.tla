----------------------- MODULE ExtractionQueueProofs ------------------------
(***************************************************************************)
(* The queue never forgets a claim, but through its two holes: for any     *)
(* number of documents, messages, API requests and workers, any redrive    *)
(* policy and any of the failures of AllFaults.                            *)
(***************************************************************************)
EXTENDS ExtractionQueue, TLAPS

LEMMA InitInv == Init => IndInv
<1> SUFFICES ASSUME Init PROVE IndInv
  OBVIOUS
<1> USE DEF Init, Unsent, NoWork, Resting
<1>1. TypeOK
  BY MaxReceiveType DEF TypeOK, Status, Claimable, RunPCs
<1>2. RequestHasDoc
  BY DEF RequestHasDoc
<1>3. KindTellsDoc
  BY NoneFresh DEF KindTellsDoc, RunPCs, AllKinds
<1>4. WorkMatchesMessage
  BY DEF WorkMatchesMessage
<1>5. BearerIsSafe
  BY DEF BearerIsSafe
<1> QED
  BY <1>1, <1>2, <1>3, <1>4, <1>5 DEF IndInv

-----------------------------------------------------------------------------
(***************************************************************************)
(* Types, one variable at a time.                                          *)
(***************************************************************************)
DocType == doc \in [Docs -> [status : Status, ocr : BOOLEAN]]

LEMMA WrittenType ==
    ASSUME DocType, NEW d, NEW s \in Status
    PROVE  /\ Written(d, s) \in [Docs -> [status : Status, ocr : BOOLEAN]]
           /\ [doc EXCEPT ![d].status = s] \in [Docs -> [status : Status, ocr : BOOLEAN]]
  BY DEF Written, DocType

LEMMA DocTypeStep == IndInv /\ [Next]_vars => DocType'
<1> SUFFICES ASSUME IndInv, [Next]_vars PROVE DocType'
  OBVIOUS
<1>0. DocType /\ RequestHasDoc
  BY DEF IndInv, TypeOK, DocType
<1> USE <1>0
<1>1. ASSUME NEW p \in Producers, ProducerStep(p) PROVE DocType'
  <2>1. CASE Claim(p)
    <3>1. CASE doc' = [doc EXCEPT ![prod[p].doc].status = "EXTRACTING"]
      BY <3>1, WrittenType DEF DocType, Status
    <3>2. CASE UNCHANGED doc
      BY <3>2 DEF DocType
    <3> QED
      BY <2>1, <3>1, <3>2 DEF Claim, SetStatus
  <2>2. CASE Release(p)
    <3>1. prod[p].prior \in Status
      BY <2>2 DEF Release, RequestHasDoc, Claimable, Status
    <3> QED
      BY <2>2, <3>1, WrittenType DEF Release, DocType
  <2>3. CASE Send(p) \/ SendFails(p)
    BY <2>3 DEF Send, SendFails, DocType
  <2> QED
    BY <1>1, <2>1, <2>2, <2>3 DEF ProducerStep
<1>2. ASSUME NEW d \in Docs, Remove(d) PROVE DocType'
  BY <1>2, WrittenType DEF Remove, SetStatus, DocType, Status
<1>3. CASE ReleaseStuck
  BY <1>3 DEF ReleaseStuck, DocType, Status
<1>4. ASSUME NEW w \in Workers, WorkerStep(w) PROVE DocType'
  <2>1. CASE Ocr(w)
    BY <2>1 DEF Ocr, DocType
  <2>2. CASE Fails(w)
    BY <2>2, WrittenType DEF Fails, DocType, Status
  <2>3. CASE Commit(w)
    BY <2>3, WrittenType DEF Commit, DocType, Status
  <2>4. CASE Look(w) \/ TakeOver(w) \/ CommitFails(w) \/ Dispose(w)
    BY <2>4 DEF Look, TakeOver, CommitFails, Dispose, DocType
  <2> QED
    BY <1>4, <2>1, <2>2, <2>3, <2>4 DEF WorkerStep
<1>5. CASE UNCHANGED doc
  BY <1>5 DEF DocType
<1> QED
  BY <1>1, <1>2, <1>3, <1>4, <1>5
     DEF Next, vars, Request, ApiDies, Probe, Expire, Redrive, Receive, HeartbeatLost, Dies

MsgState ==
    [at : {"unsent", "visible", "inflight", "deleted", "dead"},
     doc : Docs \cup {None}, kind : Kinds \cup {None},
     holder : Workers \cup {None}, count : 0..MaxReceive]

\* The message a send creates is one that had not been sent.
LEMMA OnQueueIs ==
    ASSUME msg \in [Msgs -> MsgState],
           NEW d \in Docs \cup {None}, NEW kind \in Kinds, OnQueue(d, kind)
    PROVE  /\ msg' \in [Msgs -> MsgState]
           /\ \E m \in Msgs :
                 /\ msg[m].at = "unsent"
                 /\ msg'[m].at = "visible" /\ msg'[m].doc = d /\ msg'[m].kind = kind
                 /\ \A n \in Msgs : n # m => msg'[n] = msg[n]
<1> DEFINE m == CHOOSE n \in Msgs : msg[n].at = "unsent"
           new == [at |-> "visible", doc |-> d, kind |-> kind, holder |-> None, count |-> 0]
<1>1. m \in Msgs /\ msg[m].at = "unsent"
  BY DEF OnQueue
<1>2. msg' = [msg EXCEPT ![m] = new]
  BY DEF OnQueue
<1>3. /\ new \in MsgState
      /\ new.at = "visible" /\ new.doc = d /\ new.kind = kind
  BY MaxReceiveType DEF MsgState
<1> HIDE DEF m, new
<1> QED
  BY <1>1, <1>2, <1>3

LEMMA MsgTypeStep == IndInv /\ [Next]_vars => msg' \in [Msgs -> MsgState]
<1> SUFFICES ASSUME IndInv, [Next]_vars PROVE msg' \in [Msgs -> MsgState]
  OBVIOUS
<1>0. /\ msg \in [Msgs -> MsgState] /\ RequestHasDoc
      /\ \A w \in Workers : work[w].msg \in Msgs \cup {None}
  BY DEF IndInv, TypeOK, MsgState
<1>1. ASSUME NEW p \in Producers, ProducerStep(p) PROVE msg' \in [Msgs -> MsgState]
  <2>1. CASE Send(p)
    <3>1. PICK kind \in Kinds : OnQueue(prod[p].doc, kind)
      BY <2>1 DEF Send
    <3>2. prod[p].doc \in Docs
      BY <1>0, <2>1 DEF Send, RequestHasDoc
    <3> QED
      BY <1>0, <3>1, <3>2, OnQueueIs
  <2>2. CASE SendFails(p)
    <3>1. prod[p].doc \in Docs
      BY <1>0, <2>2 DEF SendFails, RequestHasDoc
    <3> QED
      BY <1>0, <2>2, <3>1, OnQueueIs, KindsType DEF SendFails
  <2>3. CASE Claim(p) \/ Release(p)
    BY <1>0, <2>3 DEF Claim, Release
  <2> QED
    BY <1>1, <2>1, <2>2, <2>3 DEF ProducerStep
<1>2. CASE Probe
  BY <1>0, <1>2, OnQueueIs DEF Probe
<1>3. ASSUME NEW m \in Msgs, Expire(m) \/ Redrive(m) PROVE msg' \in [Msgs -> MsgState]
  BY <1>0, <1>3 DEF Expire, Redrive, MsgState
<1>4. ASSUME NEW w \in Workers, NEW m \in Msgs, Receive(w, m)
      PROVE  msg' \in [Msgs -> MsgState]
  BY <1>0, <1>4, MaxReceiveType DEF Receive, MsgState
<1>5. ASSUME NEW w \in Workers, LetGo(w) PROVE msg' \in [Msgs -> MsgState]
  BY <1>0, <1>5 DEF LetGo, MsgState
<1>6. ASSUME NEW w \in Workers, Dispose(w) PROVE msg' \in [Msgs -> MsgState]
  BY <1>0, <1>5, <1>6, MaxReceiveType DEF Dispose, Unsent, MsgState
<1>7. CASE UNCHANGED msg
  BY <1>0, <1>7
<1>8. ASSUME NEW w \in Workers, WorkerStep(w) PROVE msg' \in [Msgs -> MsgState]
  BY <1>5, <1>6, <1>7, <1>8
     DEF WorkerStep, Look, TakeOver, Ocr, Fails, Commit, CommitFails
<1> QED
  BY <1>1, <1>2, <1>3, <1>4, <1>5, <1>7, <1>8
     DEF Next, vars, Request, ApiDies, Remove, ReleaseStuck, HeartbeatLost, Dies

WorkState ==
    [pc : {"idle", "look", "claim", "dispose"} \cup RunPCs,
     msg : Msgs \cup {None}, kind : Kinds \cup {None}, doc : Docs \cup {None},
     ocr : BOOLEAN, beating : BOOLEAN]

WorkType == work \in [Workers -> WorkState]

LEMMA WorkTypeStep == IndInv /\ [Next]_vars => WorkType'
<1> SUFFICES ASSUME IndInv, [Next]_vars PROVE WorkType'
  OBVIOUS
<1>0. WorkType /\ DocType /\ msg \in [Msgs -> MsgState] /\ KindTellsDoc
  BY DEF IndInv, TypeOK, WorkType, WorkState, DocType, MsgState
<1>1. ASSUME NEW w \in Workers, Over(w) PROVE WorkType'
  BY <1>0, <1>1 DEF Over, WorkType, WorkState
<1>2. ASSUME NEW w \in Workers, work' = [work EXCEPT ![w] = NoWork] PROVE WorkType'
  BY <1>0, <1>2 DEF NoWork, WorkType, WorkState
<1>3. ASSUME NEW w \in Workers, WorkerStep(w) PROVE WorkType'
  <2>1. CASE Look(w)
    <3>1. CASE work' = [work EXCEPT ![w].pc = "claim"]
      BY <1>0, <3>1 DEF WorkType, WorkState
    <3> QED
      BY <1>1, <1>2, <2>1, <3>1 DEF Look, LetGo
  <2>2. CASE TakeOver(w)
    <3>1. CASE work' = [work EXCEPT ![w].pc = "ocr", ![w].ocr = doc[work[w].doc].ocr]
      <4>1. work[w].kind = "ok" /\ work[w].doc \in Docs
        BY <1>0, <2>2 DEF TakeOver, At, KindTellsDoc
      <4>2. doc[work[w].doc].ocr \in BOOLEAN
        BY <1>0, <4>1 DEF DocType
      <4> DEFINE read == doc[work[w].doc].ocr
      <4> HIDE DEF read
      <4>3. work' = [work EXCEPT ![w].pc = "ocr", ![w].ocr = read]
        BY <3>1 DEF read
      <4>4. read \in BOOLEAN
        BY <4>2 DEF read
      <4>5. work[w] \in WorkState
        BY <1>0 DEF WorkType
      <4> DEFINE next == [work[w] EXCEPT !.pc = "ocr", !.ocr = read]
      <4>6. next \in WorkState
        BY <4>4, <4>5 DEF WorkState, RunPCs
      <4>7. work' = [work EXCEPT ![w] = next]
        BY <1>0, <4>3 DEF WorkType
      <4> HIDE DEF next
      <4> QED
        BY <1>0, <4>6, <4>7 DEF WorkType
    <3> QED
      BY <1>1, <2>2, <3>1 DEF TakeOver
  <2>3. CASE Ocr(w)
    <3>1. work' = [work EXCEPT ![w].pc = "extract"]
      BY <2>3 DEF Ocr
    <3> QED
      BY <1>0, <3>1 DEF WorkType, WorkState, RunPCs
  <2>4. CASE Fails(w) \/ Commit(w) \/ CommitFails(w)
    BY <1>1, <2>4 DEF Fails, Commit, CommitFails
  <2>5. CASE Dispose(w)
    BY <1>2, <2>5 DEF Dispose, LetGo
  <2> QED
    BY <1>3, <2>1, <2>2, <2>3, <2>4, <2>5 DEF WorkerStep
<1>4. ASSUME NEW w \in Workers, NEW m \in Msgs, Receive(w, m) PROVE WorkType'
  BY <1>0, <1>4 DEF Receive, NoWork, WorkType, WorkState, MsgState
<1>5. ASSUME NEW w \in Workers, HeartbeatLost(w) \/ Dies(w) PROVE WorkType'
  <2>1. CASE HeartbeatLost(w)
    BY <1>0, <2>1 DEF HeartbeatLost, WorkType, WorkState
  <2> QED
    BY <1>2, <1>5, <2>1 DEF Dies, LetGo
<1>6. CASE UNCHANGED work
  BY <1>0, <1>6 DEF WorkType
<1> QED
  BY <1>3, <1>4, <1>5, <1>6
     DEF Next, vars, ProducerStep, Request, Claim, Send, SendFails, Release, ApiDies, Probe,
         Remove, ReleaseStuck, Expire, Redrive

ProdState ==
    [pc : {"idle", "claim", "send", "release"},
     doc : Docs \cup {None}, prior : Claimable \cup {None}]

ProdType == prod \in [Producers -> ProdState]

LEMMA ProdTypeStep == IndInv /\ [Next]_vars => ProdType' /\ stranded' \subseteq Docs \X Holes
<1> SUFFICES ASSUME IndInv, [Next]_vars
             PROVE  ProdType' /\ stranded' \subseteq Docs \X Holes
  OBVIOUS
<1>0. ProdType /\ stranded \subseteq Docs \X Holes /\ RequestHasDoc /\ KindTellsDoc
  BY DEF IndInv, TypeOK, ProdType, ProdState
<1>1. ASSUME NEW p \in Producers, prod' = [prod EXCEPT ![p] = Resting] PROVE ProdType'
  BY <1>0, <1>1 DEF Resting, ProdType, ProdState
<1>2. ASSUME NEW p \in Producers, ProducerStep(p)
      PROVE  ProdType' /\ stranded' \subseteq Docs \X Holes
  <2>1. CASE Claim(p)
    <3>1. ASSUME prod' = [prod EXCEPT ![p].pc = "send"] PROVE ProdType'
      BY <1>0, <3>1 DEF ProdType, ProdState
    <3>2. ProdType'
      BY <1>1, <2>1, <3>1 DEF Claim
    <3>3. stranded' = StrandedBut(prod[p].doc) \/ stranded' = stranded
      BY <2>1 DEF Claim
    <3>4. StrandedBut(prod[p].doc) \subseteq stranded
      BY DEF StrandedBut
    <3> QED
      BY <1>0, <3>2, <3>3, <3>4
  <2>2. CASE Send(p)
    BY <1>0, <1>1, <2>2 DEF Send
  <2>3. CASE SendFails(p)
    BY <1>0, <2>3 DEF SendFails, ProdType, ProdState
  <2>4. CASE Release(p)
    BY <1>0, <1>1, <2>4 DEF Release
  <2> QED
    BY <1>2, <2>1, <2>2, <2>3, <2>4 DEF ProducerStep
<1>3. ASSUME NEW p \in Producers, NEW d \in Docs, Request(p, d)
      PROVE  ProdType' /\ stranded' \subseteq Docs \X Holes
  BY <1>0, <1>3 DEF Request, ProdType, ProdState
<1>4. CASE ApiDies
  <2>1. ProdType'
    BY <1>4 DEF ApiDies, Resting, ProdType, ProdState
  <2>2. \A p \in Producers : prod[p].pc \in {"send", "release"} => prod[p].doc \in Docs
    BY <1>0 DEF RequestHasDoc
  <2> QED
    BY <1>0, <1>4, <2>1, <2>2 DEF ApiDies, Holes
<1>5. CASE ReleaseStuck
  BY <1>0, <1>5 DEF ReleaseStuck, ProdType
<1>6. ASSUME NEW w \in Workers, CommitFails(w)
      PROVE  ProdType' /\ stranded' \subseteq Docs \X Holes
  <2>1. work[w].doc \in Docs
    BY <1>0, <1>6 DEF CommitFails, At, RunPCs, KindTellsDoc
  <2> QED
    BY <1>0, <1>6, <2>1 DEF CommitFails, Holes, ProdType
<1>7. CASE UNCHANGED <<prod, stranded>>
  BY <1>0, <1>7 DEF ProdType
<1> QED
  BY <1>2, <1>3, <1>4, <1>5, <1>6, <1>7
     DEF Next, vars, WorkerStep, Look, TakeOver, Ocr, Fails, Commit, Dispose,
         Probe, Remove, Expire, Redrive, Receive, HeartbeatLost, Dies

LEMMA TypeStep == IndInv /\ [Next]_vars => TypeOK'
<1> SUFFICES ASSUME IndInv, [Next]_vars PROVE TypeOK'
  OBVIOUS
<1>1. DocType' /\ msg' \in [Msgs -> MsgState] /\ WorkType' /\ ProdType'
  BY DocTypeStep, MsgTypeStep, WorkTypeStep, ProdTypeStep
<1>2. stranded' \subseteq Docs \X Holes
  BY ProdTypeStep
<1> QED
  BY <1>1, <1>2 DEF TypeOK, DocType, MsgState, WorkType, WorkState, ProdType, ProdState

-----------------------------------------------------------------------------
LEMMA RequestHasDocStep == IndInv /\ [Next]_vars => RequestHasDoc'
<1> SUFFICES ASSUME IndInv, [Next]_vars PROVE RequestHasDoc'
  OBVIOUS
<1>0. RequestHasDoc /\ ProdType
  BY DEF IndInv, TypeOK, ProdType, ProdState
<1>1. ASSUME NEW p \in Producers, prod' = [prod EXCEPT ![p] = Resting] PROVE RequestHasDoc'
  BY <1>0, <1>1 DEF Resting, ProdType, ProdState, RequestHasDoc
<1>2. ASSUME NEW p \in Producers, NEW pc, prod[p].pc # "idle",
             prod' = [prod EXCEPT ![p].pc = pc]
      PROVE  RequestHasDoc'
  BY <1>0, <1>2 DEF ProdType, ProdState, RequestHasDoc
<1>3. ASSUME NEW p \in Producers, ProducerStep(p) PROVE RequestHasDoc'
  BY <1>1, <1>2, <1>3 DEF ProducerStep, Claim, Send, SendFails, Release
<1>4. ASSUME NEW p \in Producers, NEW d \in Docs, Request(p, d) PROVE RequestHasDoc'
  BY <1>0, <1>4 DEF Request, ProdType, ProdState, RequestHasDoc
<1>5. CASE ApiDies
  BY <1>5 DEF ApiDies, Resting, RequestHasDoc
<1>6. CASE UNCHANGED prod
  BY <1>0, <1>6 DEF RequestHasDoc
<1> QED
  BY <1>3, <1>4, <1>5, <1>6
     DEF Next, vars, WorkerStep, Look, TakeOver, Ocr, Fails, Commit, CommitFails, Dispose,
         Probe, Remove, ReleaseStuck, Expire, Redrive, Receive, HeartbeatLost, Dies

\* KindTellsDoc, of the messages and of the workers.
MsgKinds ==
    \A m \in Msgs :
        /\ msg[m].kind = "malformed" => msg[m].doc = None
        /\ msg[m].kind \in {"ok", "unsupported"} <=> msg[m].doc \in Docs

WorkKinds ==
    \A w \in Workers :
        /\ work[w].kind = "malformed" => work[w].doc = None
        /\ work[w].kind \in {"ok", "unsupported"} <=> work[w].doc \in Docs
        /\ work[w].pc \in {"claim"} \cup RunPCs => work[w].kind = "ok"

LEMMA KindTellsDocStep == IndInv /\ [Next]_vars => KindTellsDoc'
<1> SUFFICES ASSUME IndInv, [Next]_vars PROVE KindTellsDoc'
  OBVIOUS
<1>0. /\ MsgKinds /\ WorkKinds /\ RequestHasDoc
      /\ msg \in [Msgs -> MsgState] /\ WorkType
  BY DEF IndInv, TypeOK, KindTellsDoc, MsgKinds, WorkKinds, MsgState, WorkType, WorkState
<1>1. ASSUME NEW d \in Docs, NEW kind \in Kinds, kind # "malformed", OnQueue(d, kind)
      PROVE  MsgKinds'
  <2>1. \E m \in Msgs : /\ msg'[m].doc = d /\ msg'[m].kind = kind
                        /\ \A n \in Msgs : n # m => msg'[n] = msg[n]
    BY <1>0, <1>1, OnQueueIs
  <2> QED
    BY <1>0, <1>1, <2>1, KindsType DEF MsgKinds, AllKinds
<1>2. ASSUME "malformed" \in Kinds, OnQueue(None, "malformed") PROVE MsgKinds'
  <2>1. \E m \in Msgs : /\ msg'[m].doc = None /\ msg'[m].kind = "malformed"
                        /\ \A n \in Msgs : n # m => msg'[n] = msg[n]
    BY <1>0, <1>2, OnQueueIs
  <2> QED
    BY <1>0, <2>1, NoneFresh DEF MsgKinds
<1>3. ASSUME UNCHANGED msg PROVE MsgKinds'
  BY <1>0, <1>3 DEF MsgKinds
<1>4. ASSUME NEW w \in Workers, LetGo(w) PROVE MsgKinds' /\ WorkKinds'
  <2>1. MsgKinds'
    BY <1>0, <1>4 DEF LetGo, MsgState, MsgKinds
  <2>2. WorkKinds'
    BY <1>0, <1>4, NoneFresh DEF LetGo, NoWork, WorkType, WorkState, WorkKinds, RunPCs, AllKinds
  <2> QED
    BY <2>1, <2>2
<1>5. ASSUME NEW w \in Workers, Over(w) PROVE WorkKinds'
  BY <1>0, <1>5, NoneFresh DEF Over, WorkType, WorkState, WorkKinds, RunPCs, AllKinds
<1>6. ASSUME UNCHANGED work PROVE WorkKinds'
  BY <1>0, <1>6 DEF WorkKinds
<1>7. ASSUME NEW w \in Workers, NEW pc, work[w].kind = "ok",
             \/ work' = [work EXCEPT ![w].pc = pc]
             \/ \E ocr : work' = [work EXCEPT ![w].pc = pc, ![w].ocr = ocr]
      PROVE  WorkKinds'
  BY <1>0, <1>7 DEF WorkType, WorkState, WorkKinds
<1>8. ASSUME NEW p \in Producers, ProducerStep(p) PROVE MsgKinds' /\ WorkKinds'
  <2>1. CASE Send(p)
    <3>1. prod[p].doc \in Docs
      BY <1>0, <2>1 DEF Send, RequestHasDoc
    <3>2. PICK kind \in Kinds \ {"malformed"} : OnQueue(prod[p].doc, kind)
      BY <2>1 DEF Send
    <3> QED
      BY <1>1, <1>6, <2>1, <3>1, <3>2 DEF Send
  <2>2. CASE SendFails(p)
    <3>1. prod[p].doc \in Docs
      BY <1>0, <2>2 DEF SendFails, RequestHasDoc
    <3>2. MsgKinds'
      BY <1>1, <1>3, <2>2, <3>1, KindsType DEF SendFails
    <3> QED
      BY <1>6, <2>2, <3>2 DEF SendFails
  <2>3. CASE Claim(p) \/ Release(p)
    BY <1>3, <1>6, <2>3 DEF Claim, Release
  <2> QED
    BY <1>8, <2>1, <2>2, <2>3 DEF ProducerStep
<1>9. ASSUME Probe PROVE MsgKinds' /\ WorkKinds'
  BY <1>2, <1>6, <1>9 DEF Probe
<1>10. ASSUME NEW m \in Msgs, Expire(m) \/ Redrive(m) PROVE MsgKinds' /\ WorkKinds'
  <2>1. MsgKinds'
    BY <1>0, <1>10 DEF Expire, Redrive, MsgState, MsgKinds
  <2> QED
    BY <1>6, <1>10, <2>1 DEF Expire, Redrive
<1>11. ASSUME NEW w \in Workers, NEW m \in Msgs, Receive(w, m) PROVE MsgKinds' /\ WorkKinds'
  <2>1. MsgKinds'
    BY <1>0, <1>11 DEF Receive, MsgState, MsgKinds
  <2>2. WorkKinds'
    BY <1>0, <1>11 DEF Receive, NoWork, WorkType, WorkState, MsgKinds, WorkKinds, RunPCs
  <2> QED
    BY <2>1, <2>2
<1>12. ASSUME NEW w \in Workers, WorkerStep(w) PROVE MsgKinds' /\ WorkKinds'
  <2>1. CASE Look(w)
    BY <1>3, <1>4, <1>5, <1>7, <2>1 DEF Look
  <2>2. CASE TakeOver(w)
    <3>1. work[w].kind = "ok"
      BY <1>0, <2>2 DEF TakeOver, At, WorkKinds
    <3> QED
      BY <1>3, <1>5, <1>7, <2>2, <3>1 DEF TakeOver
  <2>3. CASE Ocr(w)
    <3>1. work[w].kind = "ok"
      BY <1>0, <2>3 DEF Ocr, At, RunPCs, WorkKinds
    <3> QED
      BY <1>3, <1>7, <2>3, <3>1 DEF Ocr
  <2>4. CASE Fails(w) \/ Commit(w) \/ CommitFails(w)
    BY <1>3, <1>5, <2>4 DEF Fails, Commit, CommitFails
  <2>5. CASE Dispose(w)
    <3>1. CASE LetGo(w)
      BY <1>4, <3>1
    <3>2. CASE /\ msg' = [msg EXCEPT ![work[w].msg] = [Unsent EXCEPT !.at = "deleted"]]
               /\ work' = [work EXCEPT ![w] = NoWork]
      <4>1. MsgKinds'
        BY <1>0, <3>2, NoneFresh DEF Unsent, MsgState, MsgKinds, AllKinds
      <4>2. WorkKinds'
        BY <1>0, <3>2, NoneFresh DEF NoWork, WorkType, WorkState, WorkKinds, RunPCs, AllKinds
      <4> QED
        BY <4>1, <4>2
    <3> QED
      BY <2>5, <3>1, <3>2 DEF Dispose
  <2> QED
    BY <1>12, <2>1, <2>2, <2>3, <2>4, <2>5 DEF WorkerStep
<1>13. ASSUME NEW w \in Workers, HeartbeatLost(w) PROVE MsgKinds' /\ WorkKinds'
  <2>1. WorkKinds'
    BY <1>0, <1>13 DEF HeartbeatLost, WorkType, WorkState, WorkKinds
  <2> QED
    BY <1>3, <1>13, <2>1 DEF HeartbeatLost
<1>14. MsgKinds' /\ WorkKinds'
  BY <1>3, <1>4, <1>6, <1>8, <1>9, <1>10, <1>11, <1>12, <1>13
     DEF Next, vars, Request, ApiDies, Remove, ReleaseStuck, Dies
<1> QED
  BY <1>14 DEF KindTellsDoc, MsgKinds, WorkKinds

-----------------------------------------------------------------------------
(***************************************************************************)
(* What a step may do to the messages: nothing, once it is sent, but       *)
(* deliver, hide, show, dead-letter or delete it.                          *)
(***************************************************************************)
\* A step that creates no message and deletes none.
Kept == \A m \in Msgs : /\ msg'[m].doc = msg[m].doc
                        /\ (msg'[m].at = "unsent") = (msg[m].at = "unsent")
                        /\ (msg'[m].at = "deleted") = (msg[m].at = "deleted")

LEMMA UnchangedKeeps == ASSUME UNCHANGED msg PROVE Kept
  BY DEF Kept

LEMMA SqsKeeps ==
    ASSUME IndInv, NEW m \in Msgs, NEW w,
           Expire(m) \/ Redrive(m) \/ Receive(w, m)
    PROVE  Kept
<1>1. msg \in [Msgs -> MsgState]
  BY DEF IndInv, TypeOK, MsgState
<1> QED
  BY <1>1 DEF Expire, Redrive, Receive, Kept, MsgState

LEMMA LetGoKeeps ==
    ASSUME IndInv, NEW w \in Workers, LetGo(w)
    PROVE  Kept
<1>1. msg \in [Msgs -> MsgState]
  BY DEF IndInv, TypeOK, MsgState
<1> QED
  BY <1>1 DEF LetGo, Kept, MsgState

\* A step that keeps the messages and leaves a worker idle, where it was, or
\* further along with the same message and document.
LEMMA WorkMatchesKept ==
    ASSUME IndInv, Kept,
           \A w \in Workers :
              \/ work'[w].pc = "idle"
              \/ /\ work[w].pc # "idle"
                 /\ work'[w].msg = work[w].msg
                 /\ \/ work'[w].pc = "dispose"
                    \/ work[w].pc # "dispose" /\ work'[w].doc = work[w].doc
    PROVE  WorkMatchesMessage'
  BY DEF IndInv, Kept, WorkMatchesMessage

LEMMA WorkMatchesMessageStep == IndInv /\ [Next]_vars => WorkMatchesMessage'
<1> SUFFICES ASSUME IndInv, [Next]_vars PROVE WorkMatchesMessage'
  OBVIOUS
<1>0. /\ WorkMatchesMessage /\ RequestHasDoc
      /\ msg \in [Msgs -> MsgState] /\ WorkType
  BY DEF IndInv, TypeOK, MsgState, WorkType, WorkState
<1>1. ASSUME NEW d \in Docs \cup {None}, NEW kind \in Kinds, OnQueue(d, kind), UNCHANGED work
      PROVE  WorkMatchesMessage'
  <2>1. PICK m \in Msgs : /\ msg[m].at = "unsent"
                          /\ msg'[m].at = "visible"
                          /\ \A n \in Msgs : n # m => msg'[n] = msg[n]
    BY <1>0, <1>1, OnQueueIs
  <2> QED
    BY <1>0, <1>1, <2>1 DEF WorkMatchesMessage
<1>2. ASSUME Kept, UNCHANGED work PROVE WorkMatchesMessage'
  BY <1>0, <1>2 DEF Kept, WorkMatchesMessage
<1>3. ASSUME NEW w \in Workers, Over(w), Kept, work[w].pc # "idle" PROVE WorkMatchesMessage'
  BY <1>0, <1>3, WorkMatchesKept DEF Over, WorkType, WorkState
<1>4. ASSUME NEW w \in Workers, work' = [work EXCEPT ![w] = NoWork], Kept
      PROVE  WorkMatchesMessage'
  BY <1>0, <1>4 DEF Kept, WorkMatchesMessage, NoWork, WorkType
<1>5. ASSUME NEW w \in Workers, NEW pc, Kept, work[w].pc \notin {"idle", "dispose"},
             \/ work' = [work EXCEPT ![w].pc = pc]
             \/ \E ocr : work' = [work EXCEPT ![w].pc = pc, ![w].ocr = ocr]
      PROVE  WorkMatchesMessage'
  BY <1>0, <1>5 DEF Kept, WorkMatchesMessage, WorkType, WorkState
<1>6. ASSUME NEW p \in Producers, ProducerStep(p) PROVE WorkMatchesMessage'
  <2>1. CASE Send(p)
    <3>1. prod[p].doc \in Docs
      BY <1>0, <2>1 DEF Send, RequestHasDoc
    <3> QED
      BY <1>1, <2>1, <3>1 DEF Send
  <2>2. CASE SendFails(p)
    <3>1. prod[p].doc \in Docs
      BY <1>0, <2>2 DEF SendFails, RequestHasDoc
    <3> QED
      BY <1>1, <1>2, <2>2, <3>1, KindsType, UnchangedKeeps DEF SendFails
  <2>3. CASE Claim(p) \/ Release(p)
    BY <1>2, <2>3, UnchangedKeeps DEF Claim, Release
  <2> QED
    BY <1>6, <2>1, <2>2, <2>3 DEF ProducerStep
<1>7. CASE Probe
  BY <1>1, <1>7 DEF Probe
<1>8. ASSUME NEW m \in Msgs, Expire(m) \/ Redrive(m) PROVE WorkMatchesMessage'
  BY <1>2, <1>8, SqsKeeps DEF Expire, Redrive
<1>9. ASSUME NEW w \in Workers, NEW m \in Msgs, Receive(w, m) PROVE WorkMatchesMessage'
  <2>1. Kept
    BY <1>9, SqsKeeps
  <2>2. /\ work'[w].msg = m /\ work'[w].doc = msg[m].doc
        /\ msg[m].at = "visible"
        /\ \A v \in Workers : v # w => work'[v] = work[v]
    BY <1>0, <1>9 DEF Receive, NoWork, WorkType
  <2> QED
    BY <1>0, <2>1, <2>2 DEF Kept, WorkMatchesMessage
<1>10. ASSUME NEW w \in Workers, WorkerStep(w) PROVE WorkMatchesMessage'
  <2>1. CASE Look(w)
    <3>1. CASE LetGo(w)
      BY <1>4, <3>1, LetGoKeeps DEF LetGo
    <3> QED
      BY <1>3, <1>5, <2>1, <3>1, UnchangedKeeps DEF Look, At
  <2>2. CASE TakeOver(w)
    BY <1>3, <1>5, <2>2, UnchangedKeeps DEF TakeOver, At
  <2>3. CASE Ocr(w)
    BY <1>5, <2>3, UnchangedKeeps DEF Ocr, At
  <2>4. CASE Fails(w) \/ Commit(w) \/ CommitFails(w)
    BY <1>3, <2>4, UnchangedKeeps DEF Fails, Commit, CommitFails, At, RunPCs
  <2>5. CASE Dispose(w)
    <3>1. CASE LetGo(w)
      BY <1>4, <3>1, LetGoKeeps DEF LetGo
    <3>2. CASE /\ msg' = [msg EXCEPT ![work[w].msg] = [Unsent EXCEPT !.at = "deleted"]]
               /\ work' = [work EXCEPT ![w] = NoWork]
      <4>1. \A m \in Msgs : \/ msg'[m] = msg[m]
                            \/ msg'[m].at = "deleted"
        BY <1>0, <3>2 DEF Unsent
      <4>2. \A v \in Workers : work'[v] = work[v] \/ work'[v].pc = "idle"
        BY <1>0, <3>2 DEF NoWork, WorkType
      <4> QED
        BY <1>0, <4>1, <4>2 DEF WorkMatchesMessage
    <3> QED
      BY <2>5, <3>1, <3>2 DEF Dispose
  <2> QED
    BY <1>10, <2>1, <2>2, <2>3, <2>4, <2>5 DEF WorkerStep
<1>11. ASSUME NEW w \in Workers, HeartbeatLost(w) PROVE WorkMatchesMessage'
  BY <1>0, <1>11, WorkMatchesKept, UnchangedKeeps DEF HeartbeatLost, WorkType, WorkState
<1>12. ASSUME NEW w \in Workers, Dies(w) PROVE WorkMatchesMessage'
  BY <1>4, <1>12, LetGoKeeps DEF Dies, LetGo
<1>13. CASE UNCHANGED <<msg, work>>
  BY <1>2, <1>13, UnchangedKeeps
<1> QED
  BY <1>6, <1>7, <1>8, <1>9, <1>10, <1>11, <1>12, <1>13
     DEF Next, vars, Request, ApiDies, Remove, ReleaseStuck

-----------------------------------------------------------------------------
(***************************************************************************)
(* The claims.                                                             *)
(***************************************************************************)
Taken(d) == doc[d].status = "EXTRACTING"

\* No document is claimed anew, no claim loses its request, no mark is lost.
ClaimsKept ==
    \A d \in Docs :
        /\ Taken(d)' => Taken(d)
        /\ HeldByRequest(d) /\ Taken(d)' => HeldByRequest(d)' \/ Stranded(d)'
        /\ Stranded(d) /\ Taken(d)' => Stranded(d)'

\* No worker starts to delete a message.
NoneDoomed ==
    \A w \in Workers :
        work'[w].pc = "dispose" => work[w].pc = "dispose" /\ work[w].msg = work'[w].msg

LEMMA PendingKept ==
    ASSUME Kept, msg' \in [Msgs -> MsgState], NEW d \in Docs, NEW m \in Pending(d)
    PROVE  m \in Pending(d)'
  BY DEF Kept, Pending, MsgState

LEMMA BearerKept ==
    ASSUME BearerIsSafe, ClaimsKept, NoneDoomed, Kept, msg' \in [Msgs -> MsgState]
    PROVE  BearerIsSafe'
<1> SUFFICES ASSUME NEW d \in Docs, Taken(d)'
             PROVE  \/ HeldByRequest(d)'
                    \/ \E m \in Pending(d)' : ~Doomed(m)'
                    \/ Stranded(d)'
  BY DEF BearerIsSafe, Taken
<1>1. HeldByRequest(d) \/ (\E m \in Pending(d) : ~Doomed(m)) \/ Stranded(d)
  BY DEF BearerIsSafe, ClaimsKept, Taken
<1>2. ASSUME NEW m \in Pending(d), ~Doomed(m) PROVE m \in Pending(d)' /\ ~Doomed(m)'
  BY <1>2, PendingKept DEF Doomed, NoneDoomed
<1> QED
  BY <1>1, <1>2 DEF ClaimsKept

\* A worker may start to delete its message when its document is no longer
\* EXTRACTING, or the claim is marked as lost.
LEMMA OverIsSafe ==
    ASSUME IndInv, NEW w \in Workers, Over(w), work[w].pc \notin {"idle", "dispose"},
           UNCHANGED msg, ClaimsKept,
           \A d \in Docs : work[w].doc = d /\ Taken(d)' => Stranded(d)'
    PROVE  BearerIsSafe'
<1>0. BearerIsSafe /\ WorkMatchesMessage /\ WorkType
  BY DEF IndInv, TypeOK, WorkType, WorkState
<1> SUFFICES ASSUME NEW d \in Docs, Taken(d)', ~Stranded(d)', ~HeldByRequest(d)'
             PROVE  \E m \in Pending(d)' : ~Doomed(m)'
  BY DEF BearerIsSafe, Taken
<1>1. PICK m \in Pending(d) : ~Doomed(m)
  BY <1>0 DEF BearerIsSafe, ClaimsKept, Taken
<1>2. work[w].doc # d
  OBVIOUS
<1>3. work[w].msg # m
  BY <1>0, <1>2 DEF WorkMatchesMessage, Pending
<1>4. m \in Pending(d)'
  BY DEF Pending
<1>5. \A v \in Workers : work'[v].pc = "dispose" => v = w \/ work'[v] = work[v]
  BY <1>0 DEF Over, WorkType
<1>6. work'[w].msg = work[w].msg
  BY <1>0 DEF Over, WorkType, WorkState
<1>7. ~Doomed(m)'
  BY <1>1, <1>3, <1>5, <1>6 DEF Doomed
<1> QED
  BY <1>4, <1>7

\* A send leaves every other message alone, and nobody holds the new one.
LEMMA SendIsSafe ==
    ASSUME IndInv, NEW d \in Docs \cup {None}, NEW kind \in Kinds, OnQueue(d, kind),
           UNCHANGED <<doc, work, stranded>>,
           \A e \in Docs : HeldByRequest(e) => HeldByRequest(e)' \/ e = d
    PROVE  BearerIsSafe'
<1>0. BearerIsSafe /\ WorkMatchesMessage /\ msg \in [Msgs -> MsgState]
  BY DEF IndInv, TypeOK, MsgState
<1>1. PICK m \in Msgs : /\ msg[m].at = "unsent"
                        /\ msg'[m].at = "visible" /\ msg'[m].doc = d
                        /\ \A n \in Msgs : n # m => msg'[n] = msg[n]
  BY <1>0, OnQueueIs
<1> SUFFICES ASSUME NEW e \in Docs, Taken(e)', ~Stranded(e)', ~HeldByRequest(e)'
             PROVE  \E n \in Pending(e)' : ~Doomed(n)'
  BY DEF BearerIsSafe, Taken
<1>2. \A n : Doomed(n)' = Doomed(n)
  BY DEF Doomed
<1>3. CASE e = d
  <2>1. ~Doomed(m)
    BY <1>0, <1>1 DEF Doomed, WorkMatchesMessage
  <2>2. m \in Pending(e)'
    BY <1>1, <1>3 DEF Pending
  <2> QED
    BY <1>2, <2>1, <2>2
<1>4. CASE e # d
  <2>1. PICK n \in Pending(e) : ~Doomed(n)
    BY <1>0, <1>4 DEF BearerIsSafe, Taken, Stranded
  <2>2. n \in Pending(e)'
    BY <1>1 DEF Pending
  <2> QED
    BY <1>2, <2>1, <2>2
<1> QED
  BY <1>3, <1>4

LEMMA BearerIsSafeStep == IndInv /\ [Next]_vars => BearerIsSafe'
<1> SUFFICES ASSUME IndInv, [Next]_vars PROVE BearerIsSafe'
  OBVIOUS
<1>0. /\ BearerIsSafe /\ RequestHasDoc /\ KindTellsDoc
      /\ msg \in [Msgs -> MsgState] /\ WorkType /\ DocType /\ ProdType
  BY DEF IndInv, TypeOK, MsgState, WorkType, WorkState, DocType, ProdType, ProdState
<1>a. msg' \in [Msgs -> MsgState]
  BY MsgTypeStep
<1>b. ASSUME ClaimsKept, NoneDoomed, Kept PROVE BearerIsSafe'
  BY <1>0, <1>a, <1>b, BearerKept
<1>c. ASSUME UNCHANGED <<doc, prod, stranded>> PROVE ClaimsKept
  BY <1>c DEF ClaimsKept, Taken, HeldByRequest, Stranded
<1>d. ASSUME UNCHANGED work PROVE NoneDoomed
  BY <1>d DEF NoneDoomed
<1>e. ASSUME NEW w \in Workers, NEW d, NEW s \in {"FAILED", "EXTRACTED"},
             doc' = Written(d, s), UNCHANGED <<prod, stranded>>
      PROVE  ClaimsKept /\ (d \in Docs => ~Taken(d)')
  BY <1>0, <1>e DEF ClaimsKept, Taken, HeldByRequest, Stranded, Written, DocType
<1>f. ASSUME NEW w \in Workers, work' = [work EXCEPT ![w] = NoWork] PROVE NoneDoomed
  BY <1>0, <1>f DEF NoneDoomed, NoWork, WorkType
<1>g. ASSUME NEW w \in Workers, NEW pc \in {"claim", "ocr", "extract"},
             \/ work' = [work EXCEPT ![w].pc = pc]
             \/ \E ocr : work' = [work EXCEPT ![w].pc = pc, ![w].ocr = ocr]
      PROVE  NoneDoomed
  BY <1>0, <1>g DEF NoneDoomed, WorkType, WorkState
<1>h. ASSUME NEW w \in Workers, LetGo(w), UNCHANGED <<doc, prod, stranded>>
      PROVE  BearerIsSafe'
  BY <1>b, <1>c, <1>f, <1>h, LetGoKeeps DEF LetGo
<1>1. ASSUME NEW p \in Producers, ProducerStep(p) PROVE BearerIsSafe'
  <2>1. CASE Claim(p)
    <3>1. CASE doc[prod[p].doc].status \in Claimable
      <4>1. PICK c \in Docs :
            /\ prod[p].doc = c /\ prod[p].pc = "claim"
            /\ doc' = [doc EXCEPT ![c].status = "EXTRACTING"]
            /\ prod' = [prod EXCEPT ![p].pc = "send"]
            /\ stranded' = StrandedBut(c)
            /\ UNCHANGED <<msg, work>>
        BY <1>0, <2>1, <3>1 DEF Claim, SetStatus, RequestHasDoc
      <4>2. HeldByRequest(c)'
        <5>1. prod'[p].doc = c /\ prod'[p].pc = "send"
          BY <1>0, <4>1 DEF ProdType, ProdState
        <5> QED
          BY <5>1 DEF HeldByRequest
      <4>3. ASSUME NEW d \in Docs, d # c, Taken(d)'
            PROVE  \/ HeldByRequest(d)'
                   \/ \E m \in Pending(d)' : ~Doomed(m)'
                   \/ Stranded(d)'
        <5>1. Taken(d)
          BY <1>0, <4>1, <4>3 DEF Taken, DocType
        <5>2. HeldByRequest(d) => HeldByRequest(d)'
          BY <1>0, <4>1 DEF HeldByRequest, ProdType, ProdState
        <5>3. Stranded(d) => Stranded(d)'
          BY <4>1, <4>3 DEF Stranded, StrandedBut
        <5>4. \A m : /\ m \in Pending(d) => m \in Pending(d)'
                     /\ Doomed(m)' = Doomed(m)
          BY <4>1 DEF Pending, Doomed
        <5> QED
          BY <1>0, <5>1, <5>2, <5>3, <5>4 DEF BearerIsSafe, Taken
      <4> QED
        BY <4>2, <4>3 DEF BearerIsSafe, Taken
    <3>2. CASE doc[prod[p].doc].status \notin Claimable
      <4>1. prod' = [prod EXCEPT ![p] = Resting] /\ UNCHANGED <<doc, msg, work, stranded>>
        BY <2>1, <3>2 DEF Claim
      <4>2. prod[p].pc = "claim"
        BY <2>1 DEF Claim
      <4>3. ClaimsKept
        BY <1>0, <4>1, <4>2 DEF ClaimsKept, Taken, HeldByRequest, Stranded, ProdType
      <4> QED
        BY <1>b, <1>d, <4>1, <4>3, UnchangedKeeps
    <3> QED
      BY <3>1, <3>2
  <2>2. CASE Send(p)
    <3>1. PICK kind \in Kinds \ {"malformed"} : OnQueue(prod[p].doc, kind)
      BY <2>2 DEF Send
    <3>2. prod[p].doc \in Docs
      BY <1>0, <2>2 DEF Send, RequestHasDoc
    <3>3. \A e \in Docs : HeldByRequest(e) => HeldByRequest(e)' \/ e = prod[p].doc
      BY <1>0, <2>2 DEF Send, HeldByRequest, ProdType
    <3> QED
      BY <2>2, <3>1, <3>2, <3>3, SendIsSafe DEF Send
  <2>3. CASE SendFails(p)
    <3>1. prod[p].doc \in Docs
      BY <1>0, <2>3 DEF SendFails, RequestHasDoc
    <3>2. \A e \in Docs : HeldByRequest(e) => HeldByRequest(e)'
      BY <1>0, <2>3 DEF SendFails, HeldByRequest, ProdType, ProdState
    <3>3. CASE UNCHANGED msg
      <4>1. ClaimsKept
        BY <2>3, <3>2 DEF SendFails, ClaimsKept, Taken, Stranded
      <4> QED
        BY <1>b, <1>d, <2>3, <3>3, <4>1, UnchangedKeeps DEF SendFails
    <3>4. CASE OnQueue(prod[p].doc, "ok")
      BY <2>3, <3>1, <3>2, <3>4, SendIsSafe, KindsType DEF SendFails
    <3> QED
      BY <2>3, <3>3, <3>4 DEF SendFails
  <2>4. CASE Release(p)
    <3>1. prod[p].doc \in Docs /\ prod[p].prior # "EXTRACTING"
      BY <1>0, <2>4 DEF Release, RequestHasDoc, Claimable
    <3>2. \A d \in Docs : Taken(d)' => Taken(d) /\ d # prod[p].doc
      BY <1>0, <2>4, <3>1 DEF Release, Written, Taken, DocType
    <3>3. \A d \in Docs : HeldByRequest(d) => HeldByRequest(d)' \/ d = prod[p].doc
      BY <1>0, <2>4 DEF Release, HeldByRequest, ProdType
    <3>4. ClaimsKept
      BY <2>4, <3>2, <3>3 DEF ClaimsKept, Release, Stranded
    <3> QED
      BY <1>b, <1>d, <2>4, <3>4, UnchangedKeeps DEF Release
  <2> QED
    BY <1>1, <2>1, <2>2, <2>3, <2>4 DEF ProducerStep
<1>2. ASSUME NEW p \in Producers, NEW d \in Docs, Request(p, d) PROVE BearerIsSafe'
  <2>1. \A e \in Docs : HeldByRequest(e) => HeldByRequest(e)'
    BY <1>0, <1>2 DEF Request, HeldByRequest, ProdType
  <2>2. ClaimsKept
    BY <1>2, <2>1 DEF ClaimsKept, Request, Taken, Stranded
  <2> QED
    BY <1>b, <1>d, <1>2, <2>2, UnchangedKeeps DEF Request
<1>3. CASE ApiDies
  <2>1. \A d \in Docs : HeldByRequest(d) => Stranded(d)'
    BY <1>3 DEF ApiDies, HeldByRequest, Stranded, Holes
  <2>2. \A d \in Docs : Stranded(d) => Stranded(d)'
    BY <1>3 DEF ApiDies, Stranded
  <2>3. ClaimsKept
    BY <1>3, <2>1, <2>2 DEF ClaimsKept, ApiDies, Taken
  <2> QED
    BY <1>b, <1>d, <1>3, <2>3, UnchangedKeeps DEF ApiDies
<1>4. CASE Probe
  <2>1. \A e \in Docs : HeldByRequest(e) => HeldByRequest(e)'
    BY <1>4 DEF Probe, HeldByRequest
  <2> QED
    BY <1>4, <2>1, SendIsSafe DEF Probe
<1>5. ASSUME NEW d \in Docs, Remove(d) PROVE BearerIsSafe'
  <2>1. ClaimsKept
    BY <1>0, <1>5 DEF ClaimsKept, Remove, SetStatus, Taken, HeldByRequest, Stranded, DocType
  <2> QED
    BY <1>b, <1>d, <1>5, <2>1, UnchangedKeeps DEF Remove
<1>6. CASE ReleaseStuck
  <2>1. \A d \in Docs : ~Taken(d)'
    BY <1>0, <1>6 DEF ReleaseStuck, Taken, DocType
  <2> QED
    BY <2>1 DEF BearerIsSafe, Taken
<1>7. ASSUME NEW m \in Msgs, Expire(m) \/ Redrive(m) PROVE BearerIsSafe'
  <2>1. Kept
    BY <1>7, SqsKeeps
  <2> QED
    BY <1>b, <1>c, <1>d, <1>7, <2>1 DEF Expire, Redrive
<1>8. ASSUME NEW w \in Workers, NEW m \in Msgs, Receive(w, m) PROVE BearerIsSafe'
  <2>1. Kept
    BY <1>8, SqsKeeps
  <2>2. NoneDoomed
    BY <1>0, <1>8 DEF Receive, NoneDoomed, NoWork, WorkType
  <2> QED
    BY <1>b, <1>c, <1>8, <2>1, <2>2 DEF Receive
<1>9. ASSUME NEW w \in Workers, WorkerStep(w) PROVE BearerIsSafe'
  <2>1. CASE Look(w)
    <3>1. CASE /\ work[w].kind # "unsupported"
               /\ ~ (work[w].kind = "ok" /\ doc[work[w].doc].status = "EXTRACTING")
               /\ Over(w) /\ UNCHANGED msg
      <4>1. \A d \in Docs : work[w].doc = d => ~Taken(d)
        BY <1>0, <3>1 DEF KindTellsDoc, Taken
      <4>2. \A d \in Docs : work[w].doc = d => ~Taken(d)'
        BY <2>1, <4>1 DEF Look, Taken
      <4> QED
        BY <1>c, <2>1, <3>1, <4>2, OverIsSafe DEF Look, At
    <3>2. CASE work' = [work EXCEPT ![w].pc = "claim"] /\ UNCHANGED msg
      BY <1>b, <1>c, <1>g, <2>1, <3>2, UnchangedKeeps DEF Look
    <3> QED
      BY <1>h, <2>1, <3>1, <3>2 DEF Look
  <2>2. CASE TakeOver(w)
    <3>1. CASE Over(w) /\ doc[work[w].doc].status # "EXTRACTING"
      <4>1. \A d \in Docs : work[w].doc = d => ~Taken(d)'
        BY <2>2, <3>1 DEF TakeOver, Taken
      <4> QED
        BY <1>c, <2>2, <3>1, <4>1, OverIsSafe DEF TakeOver, At
    <3>2. CASE work' = [work EXCEPT ![w].pc = "ocr", ![w].ocr = doc[work[w].doc].ocr]
      BY <1>b, <1>c, <1>g, <2>2, <3>2, UnchangedKeeps DEF TakeOver
    <3> QED
      BY <2>2, <3>1, <3>2 DEF TakeOver
  <2>3. CASE Ocr(w)
    <3>1. ClaimsKept
      BY <1>0, <2>3 DEF ClaimsKept, Ocr, Taken, HeldByRequest, Stranded, DocType
    <3> QED
      BY <1>b, <1>g, <2>3, <3>1, UnchangedKeeps DEF Ocr
  <2>4. CASE Fails(w) \/ Commit(w)
    <3>1. PICK d \in Docs : work[w].doc = d
      BY <1>0, <2>4 DEF Fails, Commit, At, RunPCs, KindTellsDoc
    <3>2. ClaimsKept /\ ~Taken(d)'
      BY <1>e, <2>4, <3>1 DEF Fails, Commit
    <3> QED
      BY <2>4, <3>1, <3>2, OverIsSafe DEF Fails, Commit, At, RunPCs
  <2>5. CASE CommitFails(w)
    <3>1. \A d \in Docs : work[w].doc = d => Stranded(d)'
      BY <2>5 DEF CommitFails, Stranded, Holes
    <3>2. ClaimsKept
      BY <2>5 DEF CommitFails, ClaimsKept, Taken, HeldByRequest, Stranded
    <3> QED
      BY <2>5, <3>1, <3>2, OverIsSafe DEF CommitFails, At
  <2>6. CASE Dispose(w)
    <3>1. CASE LetGo(w)
      BY <1>h, <2>6, <3>1 DEF Dispose
    <3>2. CASE /\ msg' = [msg EXCEPT ![work[w].msg] = [Unsent EXCEPT !.at = "deleted"]]
               /\ work' = [work EXCEPT ![w] = NoWork]
      <4>1. Doomed(work[w].msg)
        BY <2>6 DEF Dispose, At, Doomed
      <4>2. \A d \in Docs : \A m \in Pending(d) : ~Doomed(m) => m \in Pending(d)' /\ ~Doomed(m)'
        BY <1>0, <1>f, <3>2, <4>1 DEF Pending, Doomed, NoneDoomed
      <4>3. \A d \in Docs : /\ Taken(d)' = Taken(d)
                            /\ HeldByRequest(d)' = HeldByRequest(d)
                            /\ Stranded(d)' = Stranded(d)
        BY <2>6 DEF Dispose, Taken, HeldByRequest, Stranded
      <4> QED
        BY <1>0, <4>2, <4>3 DEF BearerIsSafe, Taken
    <3> QED
      BY <2>6, <3>1, <3>2 DEF Dispose
  <2> QED
    BY <1>9, <2>1, <2>2, <2>3, <2>4, <2>5, <2>6 DEF WorkerStep
<1>10. ASSUME NEW w \in Workers, HeartbeatLost(w) PROVE BearerIsSafe'
  <2>1. NoneDoomed
    BY <1>0, <1>10 DEF HeartbeatLost, NoneDoomed, WorkType, WorkState
  <2> QED
    BY <1>b, <1>c, <1>10, <2>1, UnchangedKeeps DEF HeartbeatLost
<1>11. ASSUME NEW w \in Workers, Dies(w) PROVE BearerIsSafe'
  BY <1>h, <1>11 DEF Dies
<1>12. CASE UNCHANGED vars
  BY <1>b, <1>c, <1>d, <1>12, UnchangedKeeps DEF vars
<1> QED
  BY <1>1, <1>2, <1>3, <1>4, <1>5, <1>6, <1>7, <1>8, <1>9, <1>10, <1>11, <1>12 DEF Next

-----------------------------------------------------------------------------
LEMMA IndInvStep == IndInv /\ [Next]_vars => IndInv'
  BY TypeStep, RequestHasDocStep, KindTellsDocStep, WorkMatchesMessageStep, BearerIsSafeStep
     DEF IndInv

\* The inductive invariant: types, what a message's kind says, that a worker
\* holds a message for its document, and that every claim has a bearer which
\* no worker is about to delete.
THEOREM QueueInvariant == Spec => []IndInv
<1>1. Init => IndInv
  BY InitInv
<1>2. IndInv /\ [Next]_vars => IndInv'
  BY IndInvStep
<1> QED
  BY <1>1, <1>2, PTL DEF Spec

\* Every variable stays within its type: in particular no message is
\* delivered more often than the redrive policy allows.
THEOREM QueueTypes == Spec => []TypeOK
<1>1. IndInv => TypeOK
  BY DEF IndInv
<1> QED
  BY <1>1, QueueInvariant, PTL

\* process_message deletes a message only when the document needs it no more,
\* whichever of several workers, crashes, lost deletes and lost heartbeats
\* come first: a document that is EXTRACTING has a request or a message, or
\* its claim was lost through one of the two holes.
THEOREM ClaimsAreBorne == Spec => []ClaimHasBearer
<1>1. IndInv => ClaimHasBearer
  <2> SUFFICES ASSUME IndInv, NEW d \in Docs, doc[d].status = "EXTRACTING"
               PROVE  HeldByRequest(d) \/ Pending(d) # {} \/ Stranded(d)
    BY DEF ClaimHasBearer
  <2> QED
    BY DEF IndInv, BearerIsSafe
<1> QED
  BY <1>1, QueueInvariant, PTL
=============================================================================
