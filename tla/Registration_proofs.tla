------------------------ MODULE Registration_proofs -------------------------
(***************************************************************************)
(* Registration for any number of drafts, files and concurrent requests.   *)
(*                                                                         *)
(* A firm has one supplier record as long as no two approvals are about to *)
(* create it (ApprovingInv).  A verification rests on a file a reviewer    *)
(* has accepted because a request deciding on a certificate still looks at *)
(* the file it read, or at one that has overtaken it (DecidingInv).        *)
(***************************************************************************)
EXTENDS Registration, TLAPS

USE DEF history

Parties == [active : BOOLEAN, verified : [Kind -> Evidence \cup {NoEvidence}]]

\* A certificate under decision has not been removed.
Present == \A p \in Proc : At(p, "deciding") => document[Id(p)][request[p].kind] # NoDocument

TypeInv == TypeOK /\ Present

Read(d, k, f) == <<d, k, f>> \in reviewed \cup overtaken

\* Accepted certificates have been read by a reviewer, or overtook the reading, ...
AcceptedRead ==
  \A d \in Draft, k \in Kind :
    document[d][k].verdict = "ACCEPTED" => Read(d, k, document[d][k].file)

\* ... who is deciding on the file that is there, or on one overtaken.
DecidingInv ==
  \A p \in Proc : At(p, "deciding") =>
    LET f == document[Id(p)][request[p].kind].file
    IN request[p].file = f \/ <<Id(p), request[p].kind, f>> \in overtaken

\* An approval that found no supplier is right, and alone.
ApprovingInv ==
  ~raced => \A p \in Proc : FoundNone(p) => party = <<>> /\ \A q \in Proc : FoundNone(q) => q = p

EvidenceInv == AcceptedRead /\ DecidingInv /\ PassedMeansReviewed

SupplierInv == ApprovingInv /\ OneSupplier

-----------------------------------------------------------------------------
(* Types. *)

LEMMA RequestShape ==
  ASSUME TypeOK, NEW p \in Proc
  PROVE  /\ request[p] \in Requests
         /\ At(p, "loaded") \/ At(p, "checked") => Id(p) \in Draft /\ Row(p) \in Rows
         /\ At(p, "deciding") =>
              Id(p) \in Draft /\ request[p].kind \in Kind /\ request[p].file \in File
         /\ At(p, "approving") =>
              Id(p) \in Draft /\ request[p].party \in {NoParty} \cup DOMAIN party
<1>1. request[p] \in Requests
  BY DEF TypeOK
<1> QED BY <1>1 DEF Requests, Idle, At, Id, Row

LEMMA RequestsGrow ==
  ASSUME DOMAIN party \subseteq DOMAIN party'
  PROVE  Requests \subseteq Requests'
  BY DEF Requests

\* A request moves on and leaves the others where they are.
LEMMA Moves ==
  ASSUME TypeOK, NEW p \in Proc, NEW r \in Requests', request' = [request EXCEPT ![p] = r],
         DOMAIN party \subseteq DOMAIN party'
  PROVE  /\ request' \in [Proc -> Requests']
         /\ request'[p] = r
         /\ \A q \in Proc \ {p} : request'[q] = request[q]
  BY RequestsGrow DEF TypeOK

\* A request that is not deciding moves on, and the documents stay.
LEMMA MovesPresent ==
  ASSUME TypeInv, NEW p \in Proc, UNCHANGED document,
         request'[p].at # "deciding",
         \A q \in Proc \ {p} : request'[q] = request[q]
  PROVE  Present'
  BY DEF TypeInv, Present, At, Id

LEMMA IdleShape == Idle \in Requests' /\ Idle.at = "idle"
  BY DEF Requests, Idle

\* A request ends and its row of the drafts is replaced.
LEMMA DraftEnds ==
  ASSUME TypeInv, NEW p \in Proc, NEW d \in Draft, NEW row \in Rows,
         draft' = [draft EXCEPT ![d] = row], Done(p),
         UNCHANGED <<now, document, party, sweep, history>>
  PROVE  TypeInv'
<1>1. /\ request' \in [Proc -> Requests']
      /\ request'[p] = Idle
      /\ \A q \in Proc \ {p} : request'[q] = request[q]
  BY IdleShape, Moves DEF TypeInv, Done
<1>2. Present'
  BY <1>1, IdleShape, MovesPresent
<1>3. draft' \in [Draft -> Rows]
  BY DEF TypeInv, TypeOK
<1> QED BY <1>1, <1>2, <1>3 DEF TypeInv, TypeOK

LEMMA Verify ==
  ASSUME TypeOK, NEW d \in Draft
  PROVE  [draft[d] EXCEPT !.status = "VERIFYING"] \in Rows
         /\ [draft EXCEPT ![d].status = "VERIFYING"]
              = [draft EXCEPT ![d] = [draft[d] EXCEPT !.status = "VERIFYING"]]
<1>1. draft[d] \in Rows
  BY DEF TypeOK
<1> QED BY <1>1 DEF Rows

LEMMA LoadType ==
  ASSUME TypeInv, NEW p \in Proc, NEW d \in Draft, Load(p, d)
  PROVE  TypeInv'
<1> DEFINE r == [at |-> "loaded", draft |-> d, row |-> draft[d]]
<1>1. r \in Requests' /\ r.at # "deciding"
  BY DEF TypeInv, TypeOK, Requests
<1>2. request' = [request EXCEPT ![p] = r] /\ UNCHANGED <<now, draft, document, party, sweep, history>>
  BY DEF Load
<1> HIDE DEF r
<1>3. /\ request' \in [Proc -> Requests']
      /\ request'[p] = r
      /\ \A q \in Proc \ {p} : request'[q] = request[q]
  BY <1>1, <1>2, Moves DEF TypeInv
<1>4. Present'
  BY <1>1, <1>2, <1>3, MovesPresent
<1> QED BY <1>2, <1>3, <1>4 DEF TypeInv, TypeOK

LEMMA GiveUpType ==
  ASSUME TypeInv, NEW p \in Proc, GiveUp(p)
  PROVE  TypeInv'
<1>1. UNCHANGED <<now, draft, document, party, sweep, history>> /\ Done(p)
  BY DEF GiveUp
<1>2. /\ request' \in [Proc -> Requests']
      /\ request'[p] = Idle
      /\ \A q \in Proc \ {p} : request'[q] = request[q]
  BY <1>1, IdleShape, Moves DEF TypeInv, Done
<1>3. Present'
  BY <1>1, <1>2, IdleShape, MovesPresent
<1> QED BY <1>1, <1>2, <1>3 DEF TypeInv, TypeOK

\* SaveStep, Submit, StartVerification and Reject.
LEMMA RowType ==
  ASSUME TypeInv, NEW p \in Proc, SaveStep(p) \/ Submit(p) \/ StartVerification(p) \/ Reject(p)
  PROVE  TypeInv'
<1>1. At(p, "loaded")
  BY DEF SaveStep, Submit, StartVerification, Reject
<1>2. Id(p) \in Draft /\ Row(p) \in Rows /\ draft[Id(p)] \in Rows
  BY <1>1, RequestShape DEF TypeInv, TypeOK
<1>3. Done(p) /\ UNCHANGED <<now, document, party, sweep, history>>
  BY DEF SaveStep, Submit, StartVerification, Reject
<1>4. \E row \in Rows : draft' = [draft EXCEPT ![Id(p)] = row]
  <2>1. CASE SaveStep(p)
    BY <1>2, <2>1 DEF SaveStep, Reopened, Rows
  <2>2. CASE Submit(p)
    BY <1>2, <2>2 DEF Submit, Rows
  <2>3. CASE StartVerification(p)
    BY <1>2, <2>3, Verify DEF StartVerification, TypeInv
  <2>4. CASE Reject(p)
    BY <1>2, <2>4 DEF Reject, Rows
  <2> QED BY <2>1, <2>2, <2>3, <2>4
<1> QED BY <1>2, <1>3, <1>4, DraftEnds

LEMMA UploadEffect ==
  ASSUME TypeInv, NEW p \in Proc, NEW f \in File, Upload(p, f)
  PROVE  \E d \in Draft, k \in Kind :
           LET doc == [file |-> f, verdict |-> "PENDING"]
           IN /\ document' = [document EXCEPT ![d] = [document[d] EXCEPT ![k] = doc]]
              /\ doc \in Documents /\ doc # NoDocument
<1>1. Id(p) \in Draft /\ cert_kind[f] \in Kind
  BY RequestShape, FileAssumption DEF Upload, TypeInv
<1> QED BY <1>1 DEF Upload, Documents, NoDocument

LEMMA UploadType ==
  ASSUME TypeInv, NEW p \in Proc, NEW f \in File, Upload(p, f)
  PROVE  TypeInv'
<1> DEFINE doc == [file |-> f, verdict |-> "PENDING"]
<1>1. PICK d \in Draft, k \in Kind :
         /\ document' = [document EXCEPT ![d] = [document[d] EXCEPT ![k] = doc]]
         /\ doc \in Documents /\ doc # NoDocument
  BY UploadEffect
<1> HIDE DEF doc
<1>2. /\ document' \in [Draft -> [Kind -> Documents \cup {NoDocument}]]
      /\ document'[d][k] = doc
      /\ \A e \in Draft, j \in Kind : <<e, j>> # <<d, k>> => document'[e][j] = document[e][j]
  <2>1. document \in [Draft -> [Kind -> Documents \cup {NoDocument}]]
    BY DEF TypeInv, TypeOK
  <2> QED BY <1>1, <2>1
<1>3. /\ Done(p) /\ UNCHANGED <<now, draft, party, sweep, reviewed, raced>>
      /\ overtaken' \subseteq overtaken \cup {<<Id(p), cert_kind[f], f>>}
  BY DEF Upload
<1>4. /\ request' \in [Proc -> Requests']
      /\ request'[p] = Idle
      /\ \A q \in Proc \ {p} : request'[q] = request[q]
  BY <1>3, IdleShape, Moves DEF TypeInv, Done
<1>5. Present'
  <2> SUFFICES ASSUME NEW q \in Proc, request'[q].at = "deciding"
               PROVE  document'[request'[q].draft][request'[q].kind] # NoDocument
    BY DEF Present, At, Id
  <2>1. q # p /\ request'[q] = request[q]
    BY <1>4, IdleShape
  <2>2. request[q].draft \in Draft /\ request[q].kind \in Kind
    BY <2>1, RequestShape DEF At, Id, TypeInv
  <2>3. document[request[q].draft][request[q].kind] # NoDocument
    BY <2>1 DEF TypeInv, Present, At, Id
  <2> QED BY <1>1, <1>2, <2>1, <2>2, <2>3
<1>6. Id(p) \in Draft /\ cert_kind[f] \in Kind
  BY RequestShape, FileAssumption DEF Upload, TypeInv
<1>7. reviewed' \cup overtaken' \subseteq Draft \X Kind \X File
  BY <1>3, <1>6 DEF TypeInv, TypeOK
<1> QED BY <1>2, <1>3, <1>4, <1>5, <1>7 DEF TypeInv, TypeOK

LEMMA RemoveDocType ==
  ASSUME TypeInv, NEW p \in Proc, NEW k \in Kind, RemoveDoc(p, k)
  PROVE  TypeInv'
<1> DEFINE d == Id(p)
<1>1. d \in Draft
  BY RequestShape DEF RemoveDoc, TypeInv
<1>2. document' = [document EXCEPT ![d] = [document[d] EXCEPT ![k] = NoDocument]]
      /\ UNCHANGED <<now, draft, party, sweep, history>>
      /\ request' = [q \in Proc |-> IF q = p THEN Idle ELSE Deleted(d, k, request[q])]
  BY DEF RemoveDoc
<1> HIDE DEF d
<1>3. /\ document' \in [Draft -> [Kind -> Documents \cup {NoDocument}]]
      /\ \A e \in Draft, j \in Kind : <<e, j>> # <<d, k>> => document'[e][j] = document[e][j]
  <2>1. document \in [Draft -> [Kind -> Documents \cup {NoDocument}]]
    BY DEF TypeInv, TypeOK
  <2> QED BY <1>1, <1>2, <2>1
<1>4. ASSUME NEW q \in Proc
      PROVE  request'[q] = Idle
             \/ (request'[q] = request[q]
                 /\ ~(request[q].at = "deciding" /\ request[q].draft = d /\ request[q].kind = k))
  BY <1>2 DEF Deleted
<1>5. request' \in [Proc -> Requests']
  <2>1. Requests \subseteq Requests' /\ Idle \in Requests'
    BY <1>2, RequestsGrow, IdleShape
  <2>2. \A q \in Proc : request[q] \in Requests
    BY DEF TypeInv, TypeOK
  <2>3. \A q \in Proc : request'[q] \in Requests'
    BY <1>4, <2>1, <2>2
  <2> QED BY <1>2, <2>3
<1>6. Present'
  <2> SUFFICES ASSUME NEW q \in Proc, request'[q].at = "deciding"
               PROVE  document'[request'[q].draft][request'[q].kind] # NoDocument
    BY DEF Present, At, Id
  <2>1. /\ request'[q] = request[q]
        /\ ~(request[q].draft = d /\ request[q].kind = k)
    BY <1>4, IdleShape
  <2>2. request[q].draft \in Draft /\ request[q].kind \in Kind
    BY <2>1, RequestShape DEF At, Id, TypeInv
  <2>3. document[request[q].draft][request[q].kind] # NoDocument
    BY <2>1 DEF TypeInv, Present, At, Id
  <2> QED BY <1>3, <2>1, <2>2, <2>3
<1> QED BY <1>2, <1>3, <1>5, <1>6 DEF TypeInv, TypeOK

LEMMA ReadDocumentType ==
  ASSUME TypeInv, NEW p \in Proc, NEW k \in Kind, ReadDocument(p, k)
  PROVE  TypeInv'
<1> DEFINE r == [at |-> "deciding", draft |-> Id(p), kind |-> k, file |-> document[Id(p)][k].file]
<1>1. Id(p) \in Draft /\ document[Id(p)][k] \in Documents
  BY RequestShape DEF ReadDocument, TypeInv, TypeOK
<1>2. r \in Requests'
  BY <1>1 DEF Requests, Documents
<1>3. /\ request' \in [Proc -> Requests']
      /\ request'[p] = r
      /\ \A q \in Proc \ {p} : request'[q] = request[q]
  BY <1>2, Moves DEF ReadDocument, TypeInv
<1>4. draft' \in [Draft -> Rows]
  BY <1>1, Verify DEF ReadDocument, TypeInv, TypeOK
<1>5. Present'
  BY <1>3 DEF ReadDocument, Present, TypeInv, At, Id
<1> QED BY <1>3, <1>4, <1>5 DEF TypeInv, TypeOK, ReadDocument

LEMMA DecideEffect ==
  ASSUME TypeInv, NEW p \in Proc, NEW verdict \in {"ACCEPTED", "REJECTED"},
         DecideDocument(p, verdict)
  PROVE  LET d == Id(p)
             k == request[p].kind
             doc == [document[d][k] EXCEPT !.verdict = verdict]
         IN /\ document' = [document EXCEPT ![d] = [document[d] EXCEPT ![k] = doc]]
            /\ d \in Draft /\ k \in Kind /\ request[p].file \in File
            /\ doc \in Documents /\ doc # NoDocument
            /\ doc.verdict = verdict /\ doc.file = document[d][k].file
<1> DEFINE d == Id(p)
           k == request[p].kind
           doc == [document[d][k] EXCEPT !.verdict = verdict]
<1>1. d \in Draft /\ k \in Kind /\ request[p].file \in File
  BY RequestShape DEF DecideDocument, TypeInv
<1>2. document[d][k] \in Documents
  BY <1>1 DEF DecideDocument, TypeInv, TypeOK, Present
<1>3. doc \in Documents /\ doc # NoDocument /\ doc.verdict = verdict /\ doc.file = document[d][k].file
  BY <1>2 DEF Documents, NoDocument
<1>4. document' = [document EXCEPT ![d] = [document[d] EXCEPT ![k] = doc]]
  BY <1>1 DEF DecideDocument, TypeInv, TypeOK
<1> QED BY <1>1, <1>3, <1>4

LEMMA DecideDocumentType ==
  ASSUME TypeInv, NEW p \in Proc, NEW verdict \in {"ACCEPTED", "REJECTED"},
         DecideDocument(p, verdict)
  PROVE  TypeInv'
<1> DEFINE d == Id(p)
           k == request[p].kind
           doc == [document[d][k] EXCEPT !.verdict = verdict]
<1>1. /\ document' = [document EXCEPT ![d] = [document[d] EXCEPT ![k] = doc]]
      /\ d \in Draft /\ k \in Kind /\ request[p].file \in File
      /\ doc \in Documents /\ doc # NoDocument
  BY DecideEffect
<1>2. Done(p) /\ UNCHANGED <<now, draft, party, sweep, overtaken, raced>>
      /\ reviewed' \subseteq reviewed \cup {<<d, k, request[p].file>>}
  BY DEF DecideDocument
<1>3. /\ request' \in [Proc -> Requests']
      /\ request'[p] = Idle
      /\ \A q \in Proc \ {p} : request'[q] = request[q]
  BY <1>2, IdleShape, Moves DEF TypeInv, Done
<1> HIDE DEF d, k, doc
<1>4. /\ document' \in [Draft -> [Kind -> Documents \cup {NoDocument}]]
      /\ document'[d][k] = doc
      /\ \A e \in Draft, j \in Kind : <<e, j>> # <<d, k>> => document'[e][j] = document[e][j]
  <2>1. document \in [Draft -> [Kind -> Documents \cup {NoDocument}]]
    BY DEF TypeInv, TypeOK
  <2> QED BY <1>1, <2>1
<1>5. Present'
  <2> SUFFICES ASSUME NEW q \in Proc, request'[q].at = "deciding"
               PROVE  document'[request'[q].draft][request'[q].kind] # NoDocument
    BY DEF Present, At, Id
  <2>1. q # p /\ request'[q] = request[q]
    BY <1>3, IdleShape
  <2>2. request[q].draft \in Draft /\ request[q].kind \in Kind
    BY <2>1, RequestShape DEF At, Id, TypeInv
  <2>3. document[request[q].draft][request[q].kind] # NoDocument
    BY <2>1 DEF TypeInv, Present, At, Id
  <2> QED BY <1>1, <1>4, <2>1, <2>2, <2>3
<1>6. reviewed' \cup overtaken' \subseteq Draft \X Kind \X File
  BY <1>1, <1>2 DEF TypeInv, TypeOK
<1> QED BY <1>2, <1>3, <1>4, <1>5, <1>6 DEF TypeInv, TypeOK

LEMMA ApprovalMovesType ==
  ASSUME TypeInv, NEW p \in Proc, CheckApproval(p) \/ GetParty(p)
  PROVE  TypeInv'
<1>1. UNCHANGED <<now, draft, document, party, sweep, reviewed, overtaken>> /\ raced' \in BOOLEAN
  BY DEF CheckApproval, GetParty, TypeInv, TypeOK
<1>2. Id(p) \in Draft /\ Row(p) \in Rows
  BY RequestShape DEF CheckApproval, GetParty, TypeInv
<1>3. \E r \in Requests' : r.at # "deciding" /\ request' = [request EXCEPT ![p] = r]
  <2>1. CASE CheckApproval(p)
    <3> DEFINE r == [at |-> "checked", draft |-> Id(p), row |-> Row(p)]
    <3>1. r \in Requests'
      BY <1>2 DEF Requests
    <3>2. request[p] \in [at : {"loaded"}, draft : Draft, row : Rows]
      BY <2>1, RequestShape DEF CheckApproval, At, Requests, Idle, TypeInv
    <3>3. [request[p] EXCEPT !.at = "checked"] = r
      BY <3>2 DEF Id, Row
    <3>4. request' = [request EXCEPT ![p] = r]
      BY <2>1, <3>3 DEF CheckApproval, Goto
    <3> QED BY <3>1, <3>4
  <2>2. CASE GetParty(p)
    <3> DEFINE r == [at |-> "approving", draft |-> Id(p), row |-> Row(p), party |-> Found]
    <3>1. Found \in {NoParty} \cup DOMAIN party
      BY DEF Found, TypeInv, TypeOK
    <3>2. r \in Requests'
      BY <1>1, <1>2, <3>1 DEF Requests
    <3> QED BY <2>2, <3>2 DEF GetParty
  <2> QED BY <2>1, <2>2
<1>4. PICK r \in Requests' : r.at # "deciding" /\ request' = [request EXCEPT ![p] = r]
  BY <1>3
<1>5. /\ request' \in [Proc -> Requests']
      /\ request'[p] = r
      /\ \A q \in Proc \ {p} : request'[q] = request[q]
  BY <1>1, <1>4, Moves DEF TypeInv
<1>6. Present'
  BY <1>1, <1>4, <1>5, MovesPresent
<1> QED BY <1>1, <1>5, <1>6 DEF TypeInv, TypeOK

LEMMA VerifiedType ==
  ASSUME TypeOK, NEW d \in Draft, NEW old \in [Kind -> Evidence \cup {NoEvidence}]
  PROVE  Verified(old, d) \in [Kind -> Evidence \cup {NoEvidence}]
<1>1. \A k \in Kind : document[d][k].verdict = "ACCEPTED" => document[d][k].file \in File
  BY DEF TypeOK, Documents, NoDocument
<1> QED BY <1>1 DEF Verified, Mirrored, Evidence

\* What an approval does to the suppliers.
LEMMA ApproveEffect ==
  ASSUME TypeOK, NEW p \in Proc, Approve(p)
  PROVE  \E i \in Nat, old \in [Kind -> Evidence \cup {NoEvidence}] :
           LET d == Id(p)
               new == [active |-> TRUE, verified |-> Verified(old, d)]
           IN /\ d \in Draft /\ new \in Parties
              /\ draft' = [draft EXCEPT ![d] = [status |-> "APPROVED", submitted_party |-> i]]
              /\ \/ /\ request[p].party = NoParty /\ old = [k \in Kind |-> NoEvidence]
                    /\ party' = Append(party, new)
                 \/ /\ request[p].party # NoParty /\ i \in DOMAIN party /\ old = party[i].verified
                    /\ party' = [party EXCEPT ![i] = new]
<1> DEFINE d == Id(p)
<1>1. d \in Draft /\ request[p].party \in {NoParty} \cup DOMAIN party
  BY RequestShape DEF Approve
<1>2. party \in Seq(Parties)
  BY DEF TypeOK, Parties
<1>3. CASE request[p].party = NoParty
  <2> DEFINE i == Len(party) + 1
             old == [k \in Kind |-> NoEvidence]
             new == [active |-> TRUE, verified |-> Verified(old, d)]
  <2>1. i \in Nat /\ old \in [Kind -> Evidence \cup {NoEvidence}]
    BY <1>2
  <2>2. new \in Parties
    BY <1>1, <2>1, VerifiedType DEF Parties
  <2>3. /\ party' = Append(party, new)
        /\ draft' = [draft EXCEPT ![d] = [status |-> "APPROVED", submitted_party |-> i]]
    BY <1>3 DEF Approve
  <2> QED BY <1>1, <1>3, <2>1, <2>2, <2>3
<1>4. CASE request[p].party # NoParty
  <2> DEFINE i == request[p].party
             old == party[i].verified
             new == [active |-> TRUE, verified |-> Verified(old, d)]
  <2>1. i \in DOMAIN party /\ i \in Nat
    BY <1>1, <1>2, <1>4
  <2>2. old \in [Kind -> Evidence \cup {NoEvidence}]
    <3>1. party[i] \in Parties
      BY <1>2, <2>1
    <3> QED BY <3>1 DEF Parties
  <2>3. new \in Parties
    BY <1>1, <2>2, VerifiedType DEF Parties
  <2>4. /\ party' = [party EXCEPT ![i] = new]
        /\ draft' = [draft EXCEPT ![d] = [status |-> "APPROVED", submitted_party |-> i]]
    BY <1>4, <2>1 DEF Approve
  <2> QED BY <1>1, <1>4, <2>1, <2>2, <2>3, <2>4
<1> QED BY <1>3, <1>4

LEMMA ApproveType ==
  ASSUME TypeInv, NEW p \in Proc, Approve(p)
  PROVE  TypeInv'
<1> DEFINE d == Id(p)
<1>1. PICK i \in Nat, old \in [Kind -> Evidence \cup {NoEvidence}] :
         LET new == [active |-> TRUE, verified |-> Verified(old, d)]
         IN /\ d \in Draft /\ new \in Parties
            /\ draft' = [draft EXCEPT ![d] = [status |-> "APPROVED", submitted_party |-> i]]
            /\ \/ /\ request[p].party = NoParty /\ old = [k \in Kind |-> NoEvidence]
                  /\ party' = Append(party, new)
               \/ /\ request[p].party # NoParty /\ i \in DOMAIN party /\ old = party[i].verified
                  /\ party' = [party EXCEPT ![i] = new]
  BY ApproveEffect DEF TypeInv
<1>2. party \in Seq(Parties)
  BY DEF TypeInv, TypeOK, Parties
<1>3. party' \in Seq(Parties) /\ DOMAIN party \subseteq DOMAIN party'
  <2> DEFINE new == [active |-> TRUE, verified |-> Verified(old, d)]
  <2>1. new \in Parties /\ (party' = Append(party, new)
                            \/ (i \in DOMAIN party /\ party' = [party EXCEPT ![i] = new]))
    BY <1>1
  <2> HIDE DEF new
  <2> QED BY <1>2, <2>1
<1>4. Done(p) /\ UNCHANGED <<now, document, sweep, history>>
  BY DEF Approve
<1>5. /\ request' \in [Proc -> Requests']
      /\ request'[p] = Idle
      /\ \A q \in Proc \ {p} : request'[q] = request[q]
  BY <1>3, <1>4, IdleShape, Moves DEF TypeInv, Done
<1>6. Present'
  BY <1>4, <1>5, IdleShape, MovesPresent
<1>7. draft' \in [Draft -> Rows]
  BY <1>1 DEF TypeInv, TypeOK, Rows
<1>8. sweep' \subseteq DOMAIN party'
  BY <1>3, <1>4 DEF TypeInv, TypeOK
<1> QED BY <1>3, <1>4, <1>5, <1>6, <1>7, <1>8 DEF TypeInv, TypeOK, Parties

LEMMA SuspendEffect ==
  ASSUME TypeOK, NEW i \in DOMAIN party, Suspend(i)
  PROVE  LET new == [active |-> FALSE, verified |-> party[i].verified]
         IN new \in Parties /\ party' = [party EXCEPT ![i] = new]
<1>1. party \in Seq(Parties)
  BY DEF TypeOK, Parties
<1>2. party[i] \in Parties
  BY <1>1
<1>3. [active |-> FALSE, verified |-> party[i].verified] \in Parties
  BY <1>2 DEF Parties
<1> QED BY <1>3 DEF Suspend

LEMMA NightlyType ==
  ASSUME TypeInv, Nightly
  PROVE  TypeInv'
<1>1. UNCHANGED <<now, draft, document, request, history>>
  BY DEF Nightly, ReadLapsed, Suspend
<1>2. Present'
  BY <1>1 DEF TypeInv, Present, At, Id
<1>3. party \in Seq(Parties)
  BY DEF TypeInv, TypeOK, Parties
<1>4. CASE ReadLapsed
  BY <1>1, <1>2, <1>4 DEF ReadLapsed, TypeInv, TypeOK, Active, Requests
<1>5. ASSUME NEW i \in DOMAIN party, Suspend(i)
      PROVE  TypeInv'
  <2> DEFINE new == [active |-> FALSE, verified |-> party[i].verified]
  <2>1. new \in Parties /\ party' = [party EXCEPT ![i] = new]
    BY <1>5, SuspendEffect DEF TypeInv
  <2> HIDE DEF new
  <2>2. party' \in Seq(Parties) /\ DOMAIN party' = DOMAIN party
    BY <1>3, <2>1
  <2>3. request' \in [Proc -> Requests']
    BY <1>1, <2>2, RequestsGrow DEF TypeInv, TypeOK
  <2>4. sweep' \subseteq DOMAIN party'
    BY <1>5, <2>2 DEF Suspend, TypeInv, TypeOK
  <2> QED BY <1>1, <1>2, <2>2, <2>3, <2>4 DEF TypeInv, TypeOK, Parties
<1> QED BY <1>4, <1>5 DEF Nightly

LEMMA TypeStep ==
  ASSUME TypeInv, [Next]_vars
  PROVE  TypeInv'
<1>1. CASE Tick
  BY <1>1 DEF Tick, TypeInv, TypeOK, Requests, Present, At, Id
<1>2. CASE UNCHANGED vars
  BY <1>2 DEF vars, TypeInv, TypeOK, Requests, Present, At, Id
<1>3. ASSUME NEW p \in Proc, register_form_post(p) PROVE TypeInv'
  BY <1>3, RowType, RemoveDocType, UploadType DEF register_form_post
<1>4. ASSUME NEW p \in Proc, register_review_decide(p) PROVE TypeInv'
  BY <1>4, RowType, ApprovalMovesType, ApproveType, ReadDocumentType, DecideDocumentType
  DEF register_review_decide
<1> QED BY <1>1, <1>2, <1>3, <1>4, LoadType, GiveUpType, NightlyType DEF Next

LEMMA InitType ==
  ASSUME Init
  PROVE  TypeInv
<1>1. party \in Seq([active : BOOLEAN, verified : [Kind -> Evidence \cup {NoEvidence}]])
  BY DEF Init
<1>2. request \in [Proc -> Requests]
  BY DEF Init, Requests
<1>3. Present
  BY DEF Init, Present, At, Idle
<1> QED BY <1>1, <1>2, <1>3 DEF Init, TypeInv, TypeOK, Rows, NewDraft, NoParty

\* However many requests work on stale drafts, drafts, certificates, suppliers and
\* requests keep their shape (apps/workflow/services.py).
THEOREM RegistrationType == Spec => []TypeOK
<1>1. TypeInv => TypeOK
  BY DEF TypeInv
<1> QED BY <1>1, InitType, TypeStep, PTL DEF Spec

------------------------------------------------------------

-----------------------------------------------------------------------------
(* One supplier. *)

\* No request but one that looks a supplier up comes to find none.
LEMMA NoneFound ==
  ASSUME TypeInv, NEW p \in Proc, ~GetParty(p),
         \/ register_form_post(p) \/ register_review_decide(p) \/ GiveUp(p)
         \/ \E d \in Draft : Load(p, d)
  PROVE  \A q \in Proc : FoundNone(q)' => FoundNone(q) /\ q # p
<1>1. CASE Done(p)
  BY <1>1 DEF Done, Idle, FoundNone, At, TypeInv, TypeOK
<1>2. ASSUME NEW k \in Kind, RemoveDoc(p, k) PROVE \A q \in Proc : FoundNone(q)' => FoundNone(q) /\ q # p
  BY <1>2 DEF RemoveDoc, Deleted, Idle, FoundNone, At
<1>3. ASSUME NEW d \in Draft, Load(p, d) PROVE \A q \in Proc : FoundNone(q)' => FoundNone(q) /\ q # p
  BY <1>3 DEF Load, FoundNone, At, TypeInv, TypeOK
<1>4. ASSUME NEW k \in Kind, ReadDocument(p, k) PROVE \A q \in Proc : FoundNone(q)' => FoundNone(q) /\ q # p
  BY <1>4 DEF ReadDocument, FoundNone, At, TypeInv, TypeOK
<1>5. CASE CheckApproval(p)
  <2>1. request[p] \in [at : {"loaded"}, draft : Draft, row : Rows]
    BY <1>5, RequestShape DEF CheckApproval, At, Requests, Idle, TypeInv
  <2>2. /\ request'[p].at = "checked"
        /\ \A q \in Proc \ {p} : request'[q] = request[q]
    BY <1>5, <2>1 DEF CheckApproval, Goto, TypeInv, TypeOK
  <2> QED BY <2>2 DEF FoundNone, At
<1> QED BY <1>1, <1>2, <1>3, <1>4, <1>5
    DEF register_form_post, register_review_decide, GiveUp, SaveStep, Submit, Upload,
        StartVerification, DecideDocument, Approve, Reject

\* A request that neither looks a supplier up nor approves leaves the suppliers alone.
LEMMA PartyStays ==
  ASSUME NEW p \in Proc, ~GetParty(p), ~Approve(p),
         \/ register_form_post(p) \/ register_review_decide(p) \/ GiveUp(p)
         \/ \E d \in Draft : Load(p, d)
  PROVE  UNCHANGED <<party, raced>>
  BY DEF register_form_post, register_review_decide, GiveUp, Load, SaveStep, Submit, RemoveDoc,
         Upload, StartVerification, CheckApproval, Reject, ReadDocument, DecideDocument

LEMMA SupplierStays ==
  ASSUME SupplierInv, UNCHANGED <<party, raced>>, \A q \in Proc : FoundNone(q)' => FoundNone(q)
  PROVE  SupplierInv'
  BY DEF SupplierInv, ApprovingInv, OneSupplier

LEMMA GetPartySupplier ==
  ASSUME TypeInv, SupplierInv, NEW p \in Proc, GetParty(p)
  PROVE  SupplierInv'
<1> DEFINE r == [at |-> "approving", draft |-> Id(p), row |-> Row(p), party |-> Found]
<1>1. /\ request' = [request EXCEPT ![p] = r] /\ UNCHANGED party
      /\ raced' = (raced \/ (Found = NoParty /\ \E q \in Proc : FoundNone(q)))
      /\ At(p, "checked") /\ r.at = "approving" /\ r.party = Found
  BY DEF GetParty
<1> HIDE DEF r
<1>2. request'[p] = r /\ \A q \in Proc \ {p} : request'[q] = request[q]
  BY <1>1 DEF TypeInv, TypeOK
<1>3. /\ FoundNone(p)' <=> Found = NoParty
      /\ \A q \in Proc \ {p} : FoundNone(q)' <=> FoundNone(q)
  BY <1>1, <1>2 DEF FoundNone, At
<1>4. Found = NoParty => party = <<>>
  BY DEF Found, NoParty
<1>5. ApprovingInv'
  BY <1>1, <1>3, <1>4 DEF SupplierInv, ApprovingInv
<1> QED BY <1>1, <1>5 DEF SupplierInv, OneSupplier

LEMMA ApproveSupplier ==
  ASSUME TypeInv, SupplierInv, NEW p \in Proc, Approve(p)
  PROVE  SupplierInv'
<1>1. /\ \A q \in Proc : FoundNone(q)' => FoundNone(q) /\ q # p
      /\ UNCHANGED raced
  <2>1. ~GetParty(p) /\ register_review_decide(p) /\ UNCHANGED raced
    BY DEF GetParty, Approve, At, register_review_decide
  <2> QED BY <2>1, NoneFound
<1>2. PICK i \in Nat, old \in [Kind -> Evidence \cup {NoEvidence}] :
         LET d == Id(p)
             new == [active |-> TRUE, verified |-> Verified(old, d)]
         IN /\ d \in Draft /\ new \in Parties
            /\ draft' = [draft EXCEPT ![d] = [status |-> "APPROVED", submitted_party |-> i]]
            /\ \/ /\ request[p].party = NoParty /\ old = [k \in Kind |-> NoEvidence]
                  /\ party' = Append(party, new)
               \/ /\ request[p].party # NoParty /\ i \in DOMAIN party /\ old = party[i].verified
                  /\ party' = [party EXCEPT ![i] = new]
  BY ApproveEffect DEF TypeInv
<1> DEFINE new == [active |-> TRUE, verified |-> Verified(old, Id(p))]
<1>3. \/ request[p].party = NoParty /\ new \in Parties /\ party' = Append(party, new)
      \/ request[p].party # NoParty /\ i \in DOMAIN party /\ party' = [party EXCEPT ![i] = new]
  BY <1>2
<1> HIDE DEF new
<1>4. party \in Seq(Parties)
  BY DEF TypeInv, TypeOK, Parties
<1>5. CASE request[p].party = NoParty /\ new \in Parties /\ party' = Append(party, new)
  <2>1. FoundNone(p)
    BY <1>5 DEF FoundNone, Approve
  <2>2. ~raced => party = <<>> /\ \A q \in Proc : ~FoundNone(q)'
    BY <1>1, <2>1 DEF SupplierInv, ApprovingInv
  <2>3. party = <<>> => Len(party') <= 1
    BY <1>5
  <2>4. OneSupplier'
    BY <1>1, <2>2, <2>3 DEF OneSupplier
  <2>5. ApprovingInv'
    BY <1>1, <2>2 DEF ApprovingInv
  <2> QED BY <2>4, <2>5 DEF SupplierInv
<1>6. CASE i \in DOMAIN party /\ party' = [party EXCEPT ![i] = new]
  <2>1. Len(party') = Len(party) /\ party # <<>>
    BY <1>4, <1>6
  <2> QED BY <1>1, <2>1 DEF SupplierInv, ApprovingInv, OneSupplier
<1> QED BY <1>3, <1>5, <1>6

LEMMA SupplierStep ==
  ASSUME TypeInv, SupplierInv, [Next]_vars
  PROVE  SupplierInv'
<1>1. ASSUME NEW p \in Proc,
             \/ register_form_post(p) \/ register_review_decide(p) \/ GiveUp(p)
             \/ \E d \in Draft : Load(p, d)
      PROVE  SupplierInv'
  <2>1. CASE ~GetParty(p) /\ ~Approve(p)
    BY <1>1, <2>1, NoneFound, PartyStays, SupplierStays
  <2> QED BY <2>1, GetPartySupplier, ApproveSupplier
<1>2. CASE ReadLapsed \/ Tick \/ UNCHANGED vars
  <2>1. UNCHANGED <<party, request, raced>>
    BY <1>2 DEF ReadLapsed, Tick, vars
  <2> QED BY <2>1, SupplierStays DEF FoundNone, At
<1>3. ASSUME NEW i \in DOMAIN party, Suspend(i)
      PROVE  SupplierInv'
  <2> DEFINE new == [active |-> FALSE, verified |-> party[i].verified]
  <2>1. party' = [party EXCEPT ![i] = new] /\ UNCHANGED <<request, raced>>
    BY <1>3, SuspendEffect DEF TypeInv, Suspend
  <2>2. party \in Seq(Parties)
    BY DEF TypeInv, TypeOK, Parties
  <2> HIDE DEF new
  <2>3. Len(party') = Len(party) /\ party # <<>>
    BY <2>1, <2>2
  <2> QED BY <2>1, <2>3 DEF SupplierInv, ApprovingInv, OneSupplier, FoundNone, At
<1> QED BY <1>1, <1>2, <1>3 DEF Next, Nightly

\* Whatever stale drafts any number of concurrent requests save, no firm gets a second
\* supplier record, unless two approvals have both looked it up and found none
\* (approve_draft's get_or_create).
THEOREM OneSupplierPerFirm == Spec => []OneSupplier
<1>1. Init => SupplierInv
  BY DEF Init, SupplierInv, ApprovingInv, OneSupplier, FoundNone, At, Idle
<1>2. TypeInv /\ SupplierInv /\ [Next]_vars => SupplierInv'
  BY SupplierStep
<1>3. SupplierInv => OneSupplier
  BY DEF SupplierInv
<1> QED BY <1>1, <1>2, <1>3, InitType, TypeStep, PTL DEF Spec

-----------------------------------------------------------------------------
(* Verifications rest on reviewed files. *)

\* Certificates, reviews and suppliers stay, and no request comes to decide.
LEMMA EvidenceStays ==
  ASSUME EvidenceInv, UNCHANGED <<document, party, reviewed, overtaken>>,
         \A q \in Proc : request'[q].at = "deciding" => request'[q] = request[q]
  PROVE  EvidenceInv'
<1>1. AcceptedRead' /\ PassedMeansReviewed'
  BY DEF EvidenceInv, AcceptedRead, PassedMeansReviewed, Read
<1>2. DecidingInv'
  BY DEF EvidenceInv, DecidingInv, At, Id
<1> QED BY <1>1, <1>2 DEF EvidenceInv

\* A request ends or moves where it does not decide.
LEMMA MovesEvidence ==
  ASSUME EvidenceInv, UNCHANGED <<document, party, reviewed, overtaken>>, NEW p \in Proc,
         request'[p].at # "deciding", \A q \in Proc \ {p} : request'[q] = request[q]
  PROVE  EvidenceInv'
<1>1. \A q \in Proc : request'[q].at = "deciding" => request'[q] = request[q]
  OBVIOUS
<1> QED BY <1>1, EvidenceStays

\* A certificate is replaced by one nobody has accepted; who is deciding on the old one
\* is overtaken.
LEMMA ReplaceStep ==
  ASSUME TypeInv, EvidenceInv, NEW d \in Draft, NEW k \in Kind,
         NEW doc \in Documents \cup {NoDocument}, doc.verdict # "ACCEPTED",
         document' = [document EXCEPT ![d] = [document[d] EXCEPT ![k] = doc]],
         UNCHANGED <<party, reviewed>>, overtaken \subseteq overtaken',
         \A q \in Proc : request'[q].at = "deciding" =>
           /\ request'[q] = request[q]
           /\ request[q].draft = d /\ request[q].kind = k => <<d, k, doc.file>> \in overtaken'
  PROVE  EvidenceInv'
<1>1. /\ document'[d][k] = doc
      /\ \A e \in Draft, j \in Kind : <<e, j>> # <<d, k>> => document'[e][j] = document[e][j]
  <2>1. document \in [Draft -> [Kind -> Documents \cup {NoDocument}]]
    BY DEF TypeInv, TypeOK
  <2> QED BY <2>1
<1>2. AcceptedRead'
  BY <1>1 DEF EvidenceInv, AcceptedRead, Read
<1>3. PassedMeansReviewed'
  BY DEF EvidenceInv, PassedMeansReviewed
<1>4. DecidingInv'
  <2> SUFFICES ASSUME NEW q \in Proc, request'[q].at = "deciding"
               PROVE  LET f == document'[request'[q].draft][request'[q].kind].file
                      IN \/ request'[q].file = f
                         \/ <<request'[q].draft, request'[q].kind, f>> \in overtaken'
    BY DEF DecidingInv, At, Id
  <2>1. request'[q] = request[q] /\ At(q, "deciding")
    BY DEF At
  <2>2. request[q].draft \in Draft /\ request[q].kind \in Kind
    BY <2>1, RequestShape DEF TypeInv, Id
  <2>3. LET f == document[request[q].draft][request[q].kind].file
        IN request[q].file = f \/ <<request[q].draft, request[q].kind, f>> \in overtaken
    BY <2>1 DEF EvidenceInv, DecidingInv, Id
  <2>4. CASE request[q].draft = d /\ request[q].kind = k
    BY <1>1, <2>1, <2>4
  <2>5. CASE ~(request[q].draft = d /\ request[q].kind = k)
    BY <1>1, <2>1, <2>2, <2>3, <2>5
  <2> QED BY <2>4, <2>5
<1> QED BY <1>2, <1>3, <1>4 DEF EvidenceInv

LEMMA UploadEvidence ==
  ASSUME TypeInv, EvidenceInv, NEW p \in Proc, NEW f \in File, Upload(p, f)
  PROVE  EvidenceInv'
<1> DEFINE doc == [file |-> f, verdict |-> "PENDING"]
           d == Id(p)
           k == cert_kind[f]
<1>1. d \in Draft /\ k \in Kind
  BY RequestShape, FileAssumption DEF Upload, TypeInv
<1>2. /\ doc \in Documents /\ doc.verdict # "ACCEPTED" /\ doc.file = f
      /\ document' = [document EXCEPT ![d] = [document[d] EXCEPT ![k] = doc]]
  BY <1>1 DEF Upload, Documents
<1>3. UNCHANGED <<party, reviewed>> /\ overtaken \subseteq overtaken'
  BY DEF Upload
<1>4. /\ request'[p].at = "idle"
      /\ \A q \in Proc \ {p} : request'[q] = request[q]
  BY DEF Upload, Done, Idle, TypeInv, TypeOK
<1>5. ASSUME NEW q \in Proc, request'[q].at = "deciding"
      PROVE  /\ request'[q] = request[q]
             /\ request[q].draft = d /\ request[q].kind = k => <<d, k, f>> \in overtaken'
  <2>1. request'[q] = request[q] /\ At(q, "deciding")
    BY <1>4, <1>5 DEF At
  <2>2. ASSUME Id(q) = d, request[q].kind = k PROVE <<d, k, f>> \in overtaken'
    BY <2>1, <2>2 DEF Upload
  <2> QED BY <2>1, <2>2 DEF Id
<1> HIDE DEF doc, d, k
<1>6. \A q \in Proc : request'[q].at = "deciding" =>
        /\ request'[q] = request[q]
        /\ request[q].draft = d /\ request[q].kind = k => <<d, k, doc.file>> \in overtaken'
  BY <1>2, <1>5
<1> QED BY <1>1, <1>2, <1>3, <1>6, ReplaceStep

LEMMA RemoveDocEvidence ==
  ASSUME TypeInv, EvidenceInv, NEW p \in Proc, NEW k \in Kind, RemoveDoc(p, k)
  PROVE  EvidenceInv'
<1> DEFINE d == Id(p)
<1>1. d \in Draft
  BY RequestShape DEF RemoveDoc, TypeInv
<1>2. /\ document' = [document EXCEPT ![d] = [document[d] EXCEPT ![k] = NoDocument]]
      /\ UNCHANGED <<party, reviewed, overtaken>>
      /\ request' = [q \in Proc |-> IF q = p THEN Idle ELSE Deleted(d, k, request[q])]
  BY DEF RemoveDoc
<1>3. NoDocument.verdict # "ACCEPTED"
  BY DEF NoDocument
<1> HIDE DEF d
<1>4. ASSUME NEW q \in Proc, request'[q].at = "deciding"
      PROVE  /\ request'[q] = request[q]
             /\ request[q].draft = d /\ request[q].kind = k => <<d, k, NoDocument.file>> \in overtaken'
  BY <1>2, <1>4 DEF Deleted, Idle
<1> QED BY <1>1, <1>2, <1>3, <1>4, ReplaceStep

LEMMA ReadDocumentEvidence ==
  ASSUME TypeInv, EvidenceInv, NEW p \in Proc, NEW k \in Kind, ReadDocument(p, k)
  PROVE  EvidenceInv'
<1> DEFINE r == [at |-> "deciding", draft |-> Id(p), kind |-> k, file |-> document[Id(p)][k].file]
<1>1. /\ request' = [request EXCEPT ![p] = r]
      /\ UNCHANGED <<document, party, reviewed, overtaken>>
      /\ r.draft = Id(p) /\ r.kind = k /\ r.file = document[Id(p)][k].file
  BY DEF ReadDocument
<1> HIDE DEF r
<1>2. request'[p] = r /\ \A q \in Proc \ {p} : request'[q] = request[q]
  BY <1>1 DEF TypeInv, TypeOK
<1>3. DecidingInv'
  BY <1>1, <1>2 DEF EvidenceInv, DecidingInv, At, Id
<1>4. AcceptedRead' /\ PassedMeansReviewed'
  BY <1>1 DEF EvidenceInv, AcceptedRead, PassedMeansReviewed, Read
<1> QED BY <1>3, <1>4 DEF EvidenceInv

LEMMA DecideDocumentEvidence ==
  ASSUME TypeInv, EvidenceInv, NEW p \in Proc,
         NEW verdict \in {"ACCEPTED", "REJECTED"}, DecideDocument(p, verdict)
  PROVE  EvidenceInv'
<1> DEFINE d == Id(p)
           k == request[p].kind
           doc == [document[d][k] EXCEPT !.verdict = verdict]
<1>1. /\ document' = [document EXCEPT ![d] = [document[d] EXCEPT ![k] = doc]]
      /\ d \in Draft /\ k \in Kind
      /\ doc.verdict = verdict /\ doc.file = document[d][k].file
  BY DecideEffect
<1>2. request[p].file = document[d][k].file \/ <<d, k, document[d][k].file>> \in overtaken
  BY DEF DecideDocument, EvidenceInv, DecidingInv
<1>3. /\ reviewed \subseteq reviewed' /\ UNCHANGED overtaken
      /\ (verdict = "ACCEPTED" => <<d, k, request[p].file>> \in reviewed')
  BY DEF DecideDocument
<1>4. /\ request'[p].at = "idle" /\ party' = party
      /\ \A q \in Proc \ {p} : request'[q] = request[q]
  BY DEF DecideDocument, Done, Idle, TypeInv, TypeOK
<1> HIDE DEF d, k, doc
<1>5. /\ document'[d][k] = doc
      /\ \A e \in Draft, j \in Kind : <<e, j>> # <<d, k>> => document'[e][j] = document[e][j]
  <2>1. document \in [Draft -> [Kind -> Documents \cup {NoDocument}]]
    BY DEF TypeInv, TypeOK
  <2> QED BY <1>1, <2>1
<1>6. AcceptedRead'
  <2> SUFFICES ASSUME NEW e \in Draft, NEW j \in Kind, document'[e][j].verdict = "ACCEPTED"
               PROVE  <<e, j, document'[e][j].file>> \in reviewed' \cup overtaken'
    BY DEF AcceptedRead, Read
  <2>1. CASE <<e, j>> = <<d, k>>
    BY <1>1, <1>2, <1>3, <1>5, <2>1
  <2>2. CASE <<e, j>> # <<d, k>>
    BY <1>3, <1>5, <2>2 DEF EvidenceInv, AcceptedRead, Read
  <2> QED BY <2>1, <2>2
<1>7. PassedMeansReviewed'
  BY <1>3, <1>4 DEF EvidenceInv, PassedMeansReviewed
<1>8. DecidingInv'
  <2> SUFFICES ASSUME NEW q \in Proc, request'[q].at = "deciding"
               PROVE  LET f == document'[request'[q].draft][request'[q].kind].file
                      IN \/ request'[q].file = f
                         \/ <<request'[q].draft, request'[q].kind, f>> \in overtaken'
    BY DEF DecidingInv, At, Id
  <2>1. request'[q] = request[q] /\ At(q, "deciding")
    BY <1>4 DEF At
  <2>2. request[q].draft \in Draft /\ request[q].kind \in Kind
    BY <2>1, RequestShape DEF TypeInv, Id
  <2>3. document'[request[q].draft][request[q].kind].file
          = document[request[q].draft][request[q].kind].file
    BY <1>1, <1>5, <2>2
  <2>4. LET f == document[request[q].draft][request[q].kind].file
        IN request[q].file = f \/ <<request[q].draft, request[q].kind, f>> \in overtaken
    BY <2>1 DEF EvidenceInv, DecidingInv, Id
  <2> QED BY <1>3, <2>1, <2>3, <2>4
<1> QED BY <1>6, <1>7, <1>8 DEF EvidenceInv

\* Accepted certificates become verifications, and the others stay.
LEMMA VerifiedRead ==
  ASSUME TypeOK, AcceptedRead, NEW d \in Draft, NEW old, NEW k \in Kind,
         Verified(old, d)[k] # NoEvidence
  PROVE  LET v == Verified(old, d)[k]
         IN v = old[k] \/ Read(v.draft, k, v.file)
<1>1. CASE k \in Mirrored(d)
  BY <1>1 DEF AcceptedRead, Verified, Mirrored
<1>2. CASE k \notin Mirrored(d)
  BY <1>2 DEF Verified
<1> QED BY <1>1, <1>2

LEMMA ApproveEvidence ==
  ASSUME TypeInv, EvidenceInv, NEW p \in Proc, Approve(p)
  PROVE  EvidenceInv'
<1> DEFINE d == Id(p)
<1>1. PICK i \in Nat, old \in [Kind -> Evidence \cup {NoEvidence}] :
         LET new == [active |-> TRUE, verified |-> Verified(old, d)]
         IN /\ d \in Draft /\ new \in Parties
            /\ draft' = [draft EXCEPT ![d] = [status |-> "APPROVED", submitted_party |-> i]]
            /\ \/ /\ request[p].party = NoParty /\ old = [k \in Kind |-> NoEvidence]
                  /\ party' = Append(party, new)
               \/ /\ request[p].party # NoParty /\ i \in DOMAIN party /\ old = party[i].verified
                  /\ party' = [party EXCEPT ![i] = new]
  BY ApproveEffect DEF TypeInv
<1> DEFINE new == [active |-> TRUE, verified |-> Verified(old, d)]
<1>2. /\ d \in Draft /\ new \in Parties /\ new.verified = Verified(old, d)
      /\ \/ old = [k \in Kind |-> NoEvidence] /\ party' = Append(party, new)
         \/ /\ i \in DOMAIN party /\ old = party[i].verified
            /\ party' = [party EXCEPT ![i] = new]
  BY <1>1
<1>3. /\ request'[p].at = "idle" /\ \A q \in Proc \ {p} : request'[q] = request[q]
      /\ UNCHANGED <<document, reviewed, overtaken>>
  BY DEF Approve, Done, Idle, TypeInv, TypeOK
<1>4. party \in Seq(Parties)
  BY DEF TypeInv, TypeOK, Parties
<1> HIDE DEF d, new
<1>5. ASSUME NEW k \in Kind, new.verified[k] # NoEvidence
      PROVE  new.verified[k] = old[k] \/ Read(new.verified[k].draft, k, new.verified[k].file)
  BY <1>2, <1>5, VerifiedRead DEF TypeInv, EvidenceInv
<1>6. ASSUME NEW j \in DOMAIN party, NEW k \in Kind, party[j].verified[k] # NoEvidence
      PROVE  Read(party[j].verified[k].draft, k, party[j].verified[k].file)
  BY <1>6 DEF EvidenceInv, PassedMeansReviewed, Read
<1>7. ASSUME NEW j \in DOMAIN party', NEW k \in Kind, party'[j].verified[k] # NoEvidence
      PROVE  Read(party'[j].verified[k].draft, k, party'[j].verified[k].file)
  <2>1. CASE old = [l \in Kind |-> NoEvidence] /\ party' = Append(party, new)
    <3>1. \/ party'[j] = new
          \/ j \in DOMAIN party /\ party'[j] = party[j]
      BY <1>2, <1>4, <2>1
    <3>2. party'[j] = new => new.verified[k] # old[k]
      BY <1>7, <2>1
    <3> QED BY <1>5, <1>6, <1>7, <3>1, <3>2
  <2>2. CASE i \in DOMAIN party /\ old = party[i].verified /\ party' = [party EXCEPT ![i] = new]
    <3>1. \/ j = i /\ party'[j] = new
          \/ j \in DOMAIN party /\ party'[j] = party[j]
      BY <1>2, <1>4, <2>2
    <3> QED BY <1>5, <1>6, <1>7, <2>2, <3>1
  <2> QED BY <1>2, <2>1, <2>2
<1>8. PassedMeansReviewed'
  BY <1>3, <1>7 DEF PassedMeansReviewed, Read
<1>9. AcceptedRead' /\ DecidingInv'
  <2>1. AcceptedRead'
    BY <1>3 DEF EvidenceInv, AcceptedRead, Read
  <2>2. DecidingInv'
    BY <1>3 DEF EvidenceInv, DecidingInv, At, Id
  <2> QED BY <2>1, <2>2
<1> QED BY <1>8, <1>9 DEF EvidenceInv

LEMMA SuspendEvidence ==
  ASSUME TypeInv, EvidenceInv, NEW i \in DOMAIN party, Suspend(i)
  PROVE  EvidenceInv'
<1> DEFINE new == [active |-> FALSE, verified |-> party[i].verified]
<1>1. /\ new \in Parties /\ party' = [party EXCEPT ![i] = new]
      /\ new.verified = party[i].verified
  BY SuspendEffect DEF TypeInv
<1>2. UNCHANGED <<document, request, reviewed, overtaken>>
  BY DEF Suspend
<1>3. party \in Seq(Parties)
  BY DEF TypeInv, TypeOK, Parties
<1> HIDE DEF new
<1>4. DOMAIN party' = DOMAIN party /\ \A j \in DOMAIN party : party'[j].verified = party[j].verified
  BY <1>1, <1>3
<1>5. PassedMeansReviewed'
  BY <1>2, <1>4 DEF EvidenceInv, PassedMeansReviewed
<1>6. AcceptedRead' /\ DecidingInv'
  BY <1>2 DEF EvidenceInv, AcceptedRead, DecidingInv, Read, At, Id
<1> QED BY <1>5, <1>6 DEF EvidenceInv

LEMMA EvidenceStep ==
  ASSUME TypeInv, EvidenceInv, [Next]_vars
  PROVE  EvidenceInv'
<1>1. ASSUME NEW p \in Proc, UNCHANGED <<document, party, reviewed, overtaken>>,
             Done(p) \/ (\E d \in Draft : Load(p, d)) \/ CheckApproval(p) \/ GetParty(p)
      PROVE  EvidenceInv'
  <2>1. \A q \in Proc \ {p} : request'[q] = request[q]
    BY <1>1 DEF Done, Load, CheckApproval, Goto, GetParty, TypeInv, TypeOK
  <2>2. request'[p].at # "deciding"
    <3>1. CASE CheckApproval(p)
      <4>1. request[p] \in [at : {"loaded"}, draft : Draft, row : Rows]
        BY <3>1, RequestShape DEF CheckApproval, At, Requests, Idle, TypeInv
      <4> QED BY <3>1, <4>1 DEF CheckApproval, Goto, TypeInv, TypeOK
    <3> QED BY <1>1, <3>1 DEF Done, Idle, Load, GetParty, TypeInv, TypeOK
  <2> QED BY <1>1, <2>1, <2>2, MovesEvidence
<1>2. ASSUME NEW p \in Proc, register_form_post(p)
      PROVE  EvidenceInv'
  BY <1>1, <1>2, UploadEvidence, RemoveDocEvidence DEF register_form_post, SaveStep, Submit
<1>3. ASSUME NEW p \in Proc, register_review_decide(p)
      PROVE  EvidenceInv'
  <2>1. CASE StartVerification(p) \/ CheckApproval(p) \/ GetParty(p) \/ Reject(p)
    BY <1>1, <2>1 DEF StartVerification, CheckApproval, GetParty, Reject
  <2> QED BY <1>3, <2>1, ApproveEvidence, ReadDocumentEvidence, DecideDocumentEvidence
      DEF register_review_decide
<1>4. ASSUME NEW p \in Proc, GiveUp(p) \/ \E d \in Draft : Load(p, d)
      PROVE  EvidenceInv'
  BY <1>1, <1>4 DEF GiveUp, Load
<1>5. CASE ReadLapsed \/ Tick \/ UNCHANGED vars
  BY <1>5, EvidenceStays DEF ReadLapsed, Tick, vars
<1> QED BY <1>2, <1>3, <1>4, <1>5, SuspendEvidence DEF Next, Nightly

\* For any number of concurrent requests, a verification rests on a file a reviewer read
\* and accepted, or on one the vendor put in its place between the reading and the
\* saving of the verdict (services.py:91, decide_document, approve_draft).
THEOREM VerificationsReviewed == Spec => []PassedMeansReviewed
<1>1. Init => EvidenceInv
  BY DEF Init, EvidenceInv, AcceptedRead, DecidingInv, PassedMeansReviewed, At, Idle, NoDocument
<1>2. TypeInv /\ EvidenceInv /\ [Next]_vars => EvidenceInv'
  BY EvidenceStep
<1>3. EvidenceInv => PassedMeansReviewed
  BY DEF EvidenceInv
<1> QED BY <1>1, <1>2, <1>3, InitType, TypeStep, PTL DEF Spec
=============================================================================
