---------------------------- MODULE Registration ----------------------------
(***************************************************************************)
(* The registrations of one firm (apps/workflow/services.py, views.py):    *)
(* drafts, their certificates, the Bureau's review, the supplier record an *)
(* approval makes, and the nightly suspension of lapsed suppliers.         *)
(*                                                                         *)
(* Every draft carries the firm's RC number and complete company details   *)
(* and owners.  The kinds of certificate modelled are CAC, for CAC and     *)
(* TIN, which every firm needs, and PENCOM, which a firm of fewer than     *)
(* three does not.  A file is known by its content (sha256).               *)
(***************************************************************************)
EXTENDS Integers, Sequences, FiniteSets

CONSTANTS
  Proc,         \* concurrent requests
  Draft,        \* registration drafts, all of the same firm
  Small,        \* the drafts of a firm with fewer than three employees
  File,         \* certificate files
  cert_kind,    \* what each file is a scan of
  expiry_date,  \* and the day it expires
  Contended,    \* bound: requests overlap on these drafts, while the others are new,
  Rival,        \* bound: and these requests work on nothing else
  MaxDay        \* bound on the clock

Kind == {"CAC", "PENCOM"}

ASSUME DraftAssumption == Small \subseteq Draft /\ Contended \subseteq Draft /\ Rival \subseteq Proc
ASSUME FileAssumption ==
  cert_kind \in [File -> Kind] /\ expiry_date \in [File -> Nat] /\ MaxDay \in Nat

VARIABLES
  now,
  draft,     \* rows of vendor_draft
  document,  \* rows of vendor_draft_document
  party,     \* rows of party_supplier with the firm's RC number, by primary key
  request,   \* what each request has loaded and where it is
  sweep,     \* suppliers the nightly job is about to suspend
  reviewed,  \* history: the files a reviewer has accepted, by draft and kind
  overtaken, \* history: those uploaded while a reviewer was deciding on their kind
  raced      \* history: whether two approvals have both found no supplier

history == <<reviewed, overtaken, raced>>
vars == <<now, draft, document, party, request, sweep, history>>

NoParty == 0
Rows == [status : {"DRAFT", "SUBMITTED", "VERIFYING", "APPROVED", "REJECTED"},
         submitted_party : Nat]
NewDraft == [status |-> "DRAFT", submitted_party |-> NoParty]

Documents == [file : File, verdict : {"PENDING", "ACCEPTED", "REJECTED"}]
NoDocument == [file |-> "none", verdict |-> "none"]

\* The PASSED verifications of a supplier name the draft and the file they rest on.
Evidence == [draft : Draft, file : File]
NoEvidence == [draft |-> "none", file |-> "none"]

Idle == [at |-> "idle"]

Init ==
  /\ now = 0
  /\ draft = [d \in Draft |-> NewDraft]
  /\ document = [d \in Draft |-> [k \in Kind |-> NoDocument]]
  /\ party = <<>>
  /\ request = [p \in Proc |-> Idle]
  /\ sweep = {}
  /\ reviewed = {} /\ overtaken = {} /\ raced = FALSE

-----------------------------------------------------------------------------
required_document_kinds(d) == IF d \in Small THEN {"CAC"} ELSE Kind

Active == {i \in DOMAIN party : party[i].active}

\* duplicate_party finds no supplier but the draft's own.
NoDuplicate(row) == Active = {} \/ row.submitted_party \in Active

At(p, place) == request[p].at = place
Row(p) == request[p].row
Id(p) == request[p].draft

Goto(p, place) == request' = [request EXCEPT ![p].at = place]
Done(p) == request' = [request EXCEPT ![p] = Idle]

Overlaps(d) == d \in Contended /\ \A e \in Draft \ Contended : draft[e] = NewDraft

\* A request loads a draft: register_form_post or register_review_decide.
Load(p, d) ==
  /\ At(p, "idle")
  /\ Overlaps(d) \/ (p \notin Rival /\ \A q \in Proc : At(q, "idle"))
  /\ request' = [request EXCEPT ![p] = [at |-> "loaded", draft |-> d, row |-> draft[d]]]
  /\ UNCHANGED <<now, draft, document, party, sweep, history>>

\* A request ends without going on: refused, failed, or nothing to do.
GiveUp(p) ==
  /\ ~At(p, "idle")
  /\ Done(p)
  /\ UNCHANGED <<now, draft, document, party, sweep, history>>

\* _assert_editable
Editable(row) == row.status = "DRAFT"

\* "a rejected firm may correct and resubmit" (services.py:120): _assert_editable has
\* refused a rejected draft two lines above, so it stays as it is.
Reopened(row) == IF row.status = "REJECTED" THEN [row EXCEPT !.status = "DRAFT"] ELSE row

\* save_draft_step saves every column of the draft as it was loaded.
SaveStep(p) ==
  /\ At(p, "loaded")
  /\ Editable(Row(p))
  /\ draft' = [draft EXCEPT ![Id(p)] = Reopened(Row(p))]
  /\ Done(p)
  /\ UNCHANGED <<now, document, party, sweep, history>>

\* upload_draft_document: the row of this kind, if there is one, is replaced.
Upload(p, f) ==
  /\ At(p, "loaded")
  /\ Editable(Row(p))
  /\ document' = [document EXCEPT ![Id(p)][cert_kind[f]] = [file |-> f, verdict |-> "PENDING"]]
  /\ overtaken' =
       IF \E q \in Proc : At(q, "deciding") /\ Id(q) = Id(p) /\ request[q].kind = cert_kind[f]
       THEN overtaken \cup {<<Id(p), cert_kind[f], f>>} ELSE overtaken
  /\ Done(p)
  /\ UNCHANGED <<now, draft, party, sweep, reviewed, raced>>

\* A decision that has read this row finds it gone.
Deleted(d, k, r) ==
  IF r.at = "deciding" /\ r.draft = d /\ r.kind = k THEN Idle ELSE r

\* remove_doc, whatever the status of the draft.
RemoveDoc(p, k) ==
  /\ At(p, "loaded")
  /\ document' = [document EXCEPT ![Id(p)][k] = NoDocument]
  /\ request' = [q \in Proc |-> IF q = p THEN Idle ELSE Deleted(Id(p), k, request[q])]
  /\ UNCHANGED <<now, draft, party, sweep, history>>

\* submit_draft; a rejected draft may be submitted again as it is.
Submit(p) ==
  /\ At(p, "loaded")
  /\ Row(p).status \in {"DRAFT", "REJECTED"}
  /\ \A k \in required_document_kinds(Id(p)) : document[Id(p)][k] # NoDocument
  /\ NoDuplicate(Row(p))
  /\ draft' = [draft EXCEPT ![Id(p)] = [Row(p) EXCEPT !.status = "SUBMITTED"]]
  /\ Done(p)
  /\ UNCHANGED <<now, document, party, sweep, history>>

UnderReview(row) == row.status \in {"SUBMITTED", "VERIFYING"}

StartVerification(p) ==
  /\ At(p, "loaded")
  /\ Row(p).status = "SUBMITTED"
  /\ draft' = [draft EXCEPT ![Id(p)].status = "VERIFYING"]
  /\ Done(p)
  /\ UNCHANGED <<now, document, party, sweep, history>>

\* decide_document reads the certificate and takes the draft off the queue ...
ReadDocument(p, k) ==
  /\ At(p, "loaded")
  /\ UnderReview(Row(p))
  /\ document[Id(p)][k] # NoDocument
  /\ draft' = IF Row(p).status = "SUBMITTED"
              THEN [draft EXCEPT ![Id(p)].status = "VERIFYING"] ELSE draft
  /\ request' = [request EXCEPT ![p] = [at |-> "deciding", draft |-> Id(p), kind |-> k,
                                        file |-> document[Id(p)][k].file]]
  /\ UNCHANGED <<now, document, party, sweep, history>>

\* ... and saves the verdict on that row, whatever file it holds by now.
DecideDocument(p, verdict) ==
  /\ At(p, "deciding")
  /\ document' = [document EXCEPT ![Id(p)][request[p].kind].verdict = verdict]
  /\ reviewed' = IF verdict = "ACCEPTED"
                 THEN reviewed \cup {<<Id(p), request[p].kind, request[p].file>>} ELSE reviewed
  /\ Done(p)
  /\ UNCHANGED <<now, draft, party, sweep, overtaken, raced>>

-----------------------------------------------------------------------------
\* The required certificates that are there and not accepted.
unapproved_required_docs(d) ==
  {k \in required_document_kinds(d) :
     document[d][k] # NoDocument /\ document[d][k].verdict # "ACCEPTED"}

\* approve_draft checks the draft as loaded, ...
CheckApproval(p) ==
  /\ At(p, "loaded")
  /\ UnderReview(Row(p))
  /\ unapproved_required_docs(Id(p)) = {}
  /\ NoDuplicate(Row(p))
  /\ Goto(p, "checked")
  /\ UNCHANGED <<now, draft, document, party, sweep, history>>

\* Fault: create() in place of get_or_create().
Found_Never == NoParty
\* The supplier get_or_create(rc_number) finds.
Found == IF party = <<>> THEN NoParty ELSE 1

\* An approval is about to create the supplier.
FoundNone(p) == At(p, "approving") /\ request[p].party = NoParty

\* ... looks the supplier up, failing if there are several, ...
GetParty(p) ==
  /\ At(p, "checked")
  /\ Len(party) <= 1
  /\ request' = [request EXCEPT ![p] = [at |-> "approving", draft |-> Id(p), row |-> Row(p),
                                        party |-> Found]]
  /\ raced' = (raced \/ (Found = NoParty /\ \E q \in Proc : FoundNone(q)))
  /\ UNCHANGED <<now, draft, document, party, sweep, reviewed, overtaken>>

\* Faults: all required certificates become verifications, even those removed;
\* so do all that are there, accepted or not.
Mirrored_Required(d) == required_document_kinds(d)
Mirrored_All(d) == {k \in Kind : document[d][k] # NoDocument}
\* The certificates that become PASSED verifications.
Mirrored(d) == {k \in Kind : document[d][k].verdict = "ACCEPTED"}

Verified(old, d) ==
  [k \in Kind |-> IF k \in Mirrored(d) THEN [draft |-> d, file |-> document[d][k].file]
                  ELSE old[k]]

\* ... and creates or renews it, with the accepted certificates as evidence.
Approve(p) ==
  LET d == Id(p)
      i == IF request[p].party = NoParty THEN Len(party) + 1 ELSE request[p].party
  IN /\ At(p, "approving")
     /\ party' = IF request[p].party = NoParty
                 THEN Append(party, [active |-> TRUE,
                                     verified |-> Verified([k \in Kind |-> NoEvidence], d)])
                 ELSE [party EXCEPT ![i] = [active |-> TRUE,
                                            verified |-> Verified(@.verified, d)]]
     /\ draft' = [draft EXCEPT ![d] = [status |-> "APPROVED", submitted_party |-> i]]
     /\ Done(p)
     /\ UNCHANGED <<now, document, sweep, history>>

Reject(p) ==
  /\ At(p, "loaded")
  /\ UnderReview(Row(p))
  /\ draft' = [draft EXCEPT ![Id(p)] = [Row(p) EXCEPT !.status = "REJECTED"]]
  /\ Done(p)
  /\ UNCHANGED <<now, document, party, sweep, history>>

-----------------------------------------------------------------------------
\* Fault: only the pension certificate is looked at.
lapsed_kinds_PensionOnly == {"PENCOM"}
\* CAC, TIN and pension: every kind modelled.
lapsed_kinds == Kind

LapsedOf(i, kinds) ==
  \E k \in kinds : LET v == party[i].verified[k]
                   IN v # NoEvidence /\ expiry_date[v.file] < now

\* suspend_expired_suppliers reads the list of lapsed suppliers ...
ReadLapsed ==
  /\ sweep = {}
  /\ \E i \in Active : LapsedOf(i, lapsed_kinds)
  /\ sweep' = {i \in Active : LapsedOf(i, lapsed_kinds)}
  /\ UNCHANGED <<now, draft, document, party, request, history>>

\* ... and suspends one after the other.
Suspend(i) ==
  /\ i \in sweep
  /\ party' = [party EXCEPT ![i] = [active |-> FALSE, verified |-> @.verified]]
  /\ sweep' = sweep \ {i}
  /\ UNCHANGED <<now, draft, document, request, history>>

Tick ==
  /\ now < MaxDay
  /\ now' = now + 1
  /\ UNCHANGED <<draft, document, party, request, sweep, history>>

Nightly == ReadLapsed \/ \E i \in DOMAIN party : Suspend(i)

\* Which of them is the form's hidden field.
register_form_post(p) ==
  \/ SaveStep(p) \/ Submit(p)
  \/ \E k \in Kind : RemoveDoc(p, k)
  \/ \E f \in File : Upload(p, f)

register_review_decide(p) ==
  \/ StartVerification(p) \/ CheckApproval(p) \/ GetParty(p) \/ Approve(p) \/ Reject(p)
  \/ \E k \in Kind : ReadDocument(p, k)
  \/ \E v \in {"ACCEPTED", "REJECTED"} : DecideDocument(p, v)

Next ==
  \/ \E p \in Proc : register_form_post(p) \/ register_review_decide(p) \/ GiveUp(p) \/ \E d \in Draft : Load(p, d)
  \/ Nightly
  \/ Tick

Spec == Init /\ [][Next]_vars

\* The suspension runs every night and is not interrupted for ever.
FairSpec == Spec /\ WF_vars(Nightly)

-----------------------------------------------------------------------------
Requests ==
  {Idle}
  \cup [at : {"loaded", "checked"}, draft : Draft, row : Rows]
  \cup [at : {"deciding"}, draft : Draft, kind : Kind, file : File]
  \cup [at : {"approving"}, draft : Draft, row : Rows, party : {NoParty} \cup DOMAIN party]

TypeOK ==
  /\ now \in Nat
  /\ draft \in [Draft -> Rows]
  /\ document \in [Draft -> [Kind -> Documents \cup {NoDocument}]]
  /\ party \in Seq([active : BOOLEAN, verified : [Kind -> Evidence \cup {NoEvidence}]])
  /\ request \in [Proc -> Requests]
  /\ sweep \subseteq DOMAIN party
  /\ reviewed \cup overtaken \subseteq Draft \X Kind \X File
  /\ raced \in BOOLEAN

\* Whatever stale drafts concurrent requests save, no sequence of registrations,
\* rejections, suspensions and renewals makes a second supplier of the same RC number,
\* unless two approvals have both looked it up and found none: get_or_create() has no
\* constraint of the database behind it (approve_draft).
OneSupplier == ~raced => Len(party) <= 1

\* services.py:91, "a named reviewer who accepted a specific document": the file a
\* verification rests on is one a reviewer read and accepted, unless the vendor, on a
\* draft loaded before its submission, replaced it between the reading and the saving
\* of the verdict (decide_document, upload_draft_document, approve_draft).
PassedMeansReviewed ==
  \A i \in DOMAIN party : \A k \in Kind :
    LET v == party[i].verified[k]
    IN v # NoEvidence => <<v.draft, k, v.file>> \in reviewed \cup overtaken

\* services.py:89, nobody is "approved once, trusted forever": a supplier does
\* not stay active on a certificate that has lapsed, renewals and all.
LapsedGetSuspended ==
  \A i \in 1 .. Cardinality(Draft) :
    LET Overdue == i \in Active /\ LapsedOf(i, Kind)
    IN Overdue ~> ~Overdue

\* services.py:308, "Required documents nobody accepted block approval".
ApprovedWithRequired ==
  \A d \in Draft : draft[d].status = "APPROVED" =>
    \A k \in required_document_kinds(d) :
      party[draft[d].submitted_party].verified[k] # NoEvidence
=============================================================================
