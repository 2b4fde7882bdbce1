-------------------------- MODULE Evaluation_proofs --------------------------
(***************************************************************************)
(* Sealed bids and their evaluation for any number of bids, criteria,      *)
(* users and marks.                                                        *)
(*                                                                         *)
(* What a report counts and a recommendation rests on is only ever added   *)
(* to (Grows): no step seals a bid again, hides a price, removes a score,  *)
(* a dissent or a member.  Bids open together because every unsealing goes *)
(* through all of them, and a bid that joins opened ones is beside them    *)
(* (Together).                                                             *)
(***************************************************************************)
EXTENDS Evaluation, FiniteSetTheorems, TLAPS

\* What a bid's row says of its opening.
BidInv ==
  \A b \in Made :
    /\ bid[b].commitment <= identity[bid[b].supplier]
    /\ bid[b].unsealed <=> bid[b].status # "RECEIVED"
    /\ bid[b].shown => bid[b].unsealed
    /\ bid[b].status \in Opened => bid[b].shown
    /\ bid[b].unsealed => key = "released"

Together == \A b, c \in Made : bid[b].unsealed => bid[c].unsealed \/ c \in beside

SealInv == BidInv /\ Together /\ RejectedMeansCorrected

CeremonyInv == ceremony => key = "released"

RecommendedInv == \A b \in recommended : bid[b].shown /\ Scored(b) = Criterion

\* The rows of a report count what there is.
Backed(rows) ==
  \A b \in DOMAIN rows :
    /\ b \in Made /\ bid[b].unsealed
    /\ rows[b].count \in Nat /\ rows[b].count <= Cardinality(Scored(b))

TotalsInv == totals.made => Backed(totals.rows)

ReportInv ==
  report.made =>
    /\ report.signed_by_count \in Nat /\ report.signed_by_count <= Cardinality(committee)
    /\ report.dissents_count \in Nat /\ report.dissents_count <= dissent
    /\ Backed(report.rows)

IInv == TypeOK /\ SealInv /\ CeremonyInv /\ RecommendedInv /\ TotalsInv /\ ReportInv

\* What a step never takes away.
BidsGrow ==
  \A b \in Made :
    /\ b \in Made'
    /\ bid[b].unsealed => bid'[b].unsealed
    /\ bid[b].shown => bid'[b].shown

ScoresGrow ==
  \A b \in Bid, c \in Criterion :
    score[b][c] # NoScore => score'[b][c] # NoScore /\ score'[b][c].by = score[b][c].by

Grows ==
  BidsGrow /\ ScoresGrow /\ committee \subseteq committee' /\ dissent <= dissent'

-----------------------------------------------------------------------------
(* Types. *)

LEMMA MadeRow ==
  ASSUME TypeOK, NEW b \in Made
  PROVE  b \in Bid /\ bid[b] \in Bids
  BY DEF TypeOK, SealTypeOK, Made

LEMMA RowMade ==
  ASSUME NEW b \in Bid, bid[b] \in Bids
  PROVE  b \in Made
  BY DEF Made, Bids, NoBid, BidStatus, Opened

LEMMA UnsealedRow ==
  ASSUME TypeOK, NEW b \in Made
  PROVE  /\ Unsealed(b) \in Bids
         /\ Unsealed(b).supplier = bid[b].supplier
         /\ Unsealed(b).commitment = bid[b].commitment
         /\ Unsealed(b).unsealed
         /\ bid[b].shown => Unsealed(b).shown
         /\ IF verify_at_open(b) THEN Unsealed(b).status = "UNSEALED" /\ Unsealed(b).shown
            ELSE Unsealed(b).status = "REJECTED" /\ Unsealed(b).shown = bid[b].shown
<1>1. bid[b] \in Bids
  BY MadeRow
<1>2. CASE verify_at_open(b)
  BY <1>1, <1>2 DEF Unsealed, Bids, BidStatus, Opened
<1>3. CASE ~verify_at_open(b)
  BY <1>1, <1>3 DEF Unsealed, Bids, BidStatus, Opened
<1> QED BY <1>2, <1>3

\* The bids after a successful decryption.
LEMMA Decrypted ==
  ASSUME TypeOK, DecryptAll
  PROVE  /\ bid' \in [Bid -> Bids \cup {NoBid}]
         /\ Made' = Made
         /\ \A b \in Made : bid'[b] = Unsealed(b)
<1>1. \A b \in Made : b \in Bid /\ Unsealed(b) \in Bids
  BY MadeRow, UnsealedRow
<1>2. \A b \in Made : bid'[b] = Unsealed(b)
  BY <1>1 DEF DecryptAll
<1>3. \A b \in Bid \ Made : bid'[b] = NoBid
  BY DEF DecryptAll
<1>4. bid' \in [Bid -> Bids \cup {NoBid}]
  BY <1>1 DEF DecryptAll
<1>5. NoBid \notin Bids
  BY DEF NoBid, Bids, BidStatus, Opened
<1> QED BY <1>1, <1>2, <1>3, <1>4, <1>5 DEF Made

\* A bid's row is replaced by another.
LEMMA Replaced ==
  ASSUME TypeOK, NEW b \in Bid, NEW row \in Bids, bid' = [bid EXCEPT ![b] = row]
  PROVE  /\ bid' \in [Bid -> Bids \cup {NoBid}]
         /\ Made' = Made \cup {b}
         /\ bid'[b] = row
         /\ \A c \in Made \ {b} : bid'[c] = bid[c]
<1>1. bid \in [Bid -> Bids \cup {NoBid}]
  BY DEF TypeOK, SealTypeOK
<1>2. row # NoBid
  BY DEF NoBid, Bids, BidStatus, Opened
<1> QED BY <1>1, <1>2 DEF Made

\* The three handlers that write one row.
LEMMA SubmittedRow ==
  ASSUME TypeOK, NEW b \in Bid, NEW s \in Supplier, SubmitBid(b, s)
  PROVE  \E row \in Bids :
           /\ bid' = [bid EXCEPT ![b] = row]
           /\ row.supplier = s /\ row.commitment = identity[s]
           /\ row.status = "RECEIVED" /\ ~row.shown /\ ~row.unsealed
<1> DEFINE row == [supplier |-> s, status |-> "RECEIVED", commitment |-> Commitment(s),
                   intact |-> TRUE, shown |-> FALSE, unsealed |-> FALSE]
<1>1. identity[s] \in 0..1
  BY DEF TypeOK, SealTypeOK
<1>2. row \in Bids
  BY <1>1 DEF Bids, BidStatus, Commitment
<1> QED BY <1>1, <1>2 DEF SubmitBid, Commitment

LEMMA DamagedRow ==
  ASSUME TypeOK, NEW b \in Bid, DamageEnvelope(b)
  PROVE  \E row \in Bids :
           /\ b \in Made
           /\ bid' = [bid EXCEPT ![b] = row]
           /\ row.supplier = bid[b].supplier /\ row.commitment = bid[b].commitment
           /\ row.status = bid[b].status /\ row.shown = bid[b].shown
           /\ row.unsealed = bid[b].unsealed
<1> DEFINE row == [bid[b] EXCEPT !.intact = FALSE]
<1>1. b \in Made /\ bid[b] \in Bids
  BY MadeRow DEF DamageEnvelope
<1>2. row \in Bids
  BY <1>1 DEF Bids
<1>3. bid' = [bid EXCEPT ![b] = row]
  BY <1>1 DEF DamageEnvelope
<1> QED BY <1>1, <1>2, <1>3 DEF Bids

LEMMA MarkedRow ==
  ASSUME TypeOK, NEW b \in Examined, NEW s \in Marks, MarkBid(b, s)
  PROVE  \E row \in Bids :
           /\ b \in Made
           /\ bid' = [bid EXCEPT ![b] = row]
           /\ row.supplier = bid[b].supplier /\ row.commitment = bid[b].commitment
           /\ bid[b].status \in Opened /\ row.status \in Opened
           /\ row.shown = bid[b].shown /\ row.unsealed = bid[b].unsealed
<1> DEFINE row == [bid[b] EXCEPT !.status = s]
<1>1. b \in Made /\ b \in Bid /\ bid[b] \in Bids
  BY MadeRow, BoundsAssumption DEF MarkBid
<1>2. s \in Opened
  BY BoundsAssumption
<1>3. row \in Bids
  BY <1>1, <1>2 DEF Bids, BidStatus
<1>4. bid' = [bid EXCEPT ![b] = row]
  BY <1>1 DEF MarkBid
<1> QED BY <1>1, <1>2, <1>3, <1>4 DEF Bids, MarkBid

-----------------------------------------------------------------------------
(* Opening bids. *)

LEMMA InitSeal ==
  ASSUME Init
  PROVE  SealTypeOK /\ SealInv
<1>1. Made = {} /\ beside = {}
  BY DEF Init, SealInit, Made
<1>2. SealTypeOK
  <2>1. tender \in Status /\ key \in {"none", "held", "released"} /\ ceremony \in BOOLEAN
    BY DEF Init, SealInit, Status
  <2>2. identity \in [Supplier -> 0..1]
    BY DEF Init, SealInit
  <2>3. bid \in [Bid -> Bids \cup {NoBid}]
    BY DEF Init, SealInit
  <2> QED BY <1>1, <2>1, <2>2, <2>3 DEF SealTypeOK
<1>3. SealInv
  BY <1>1 DEF SealInv, BidInv, Together, RejectedMeansCorrected
<1> QED BY <1>2, <1>3

\* The loop of unseal_bids, once the key is released.
LEMMA DecryptSeal ==
  ASSUME TypeOK, SealInv, DecryptAll, UNCHANGED identity, key' = "released"
  PROVE  SealInv'
<1> USE DEF SealInv
<1>1. /\ Made' = Made
      /\ \A b \in Made : bid'[b] = Unsealed(b)
  BY Decrypted
<1>2. \A b \in Made : bid'[b].unsealed
  BY <1>1, UnsealedRow
<1>3. \A b \in Made : verify_at_open(b) <=> bid[b].commitment = identity[bid[b].supplier]
  BY DEF verify_at_open
<1>4. ASSUME NEW b \in Made
      PROVE  /\ bid[b].commitment \in 0..1 /\ identity[bid[b].supplier] \in 0..1
             /\ bid'[b].commitment = bid[b].commitment
             /\ bid'[b].supplier = bid[b].supplier
  BY <1>1, UnsealedRow, MadeRow DEF TypeOK, SealTypeOK, Bids
<1>5. BidInv'
  <2> SUFFICES ASSUME NEW b \in Made'
               PROVE  /\ bid'[b].commitment <= identity'[bid'[b].supplier]
                      /\ bid'[b].unsealed <=> bid'[b].status # "RECEIVED"
                      /\ bid'[b].shown => bid'[b].unsealed
                      /\ bid'[b].status \in Opened => bid'[b].shown
                      /\ bid'[b].unsealed => key' = "released"
    BY DEF BidInv
  <2>1. b \in Made
    BY <1>1
  <2>2. bid'[b].status \in {"UNSEALED", "REJECTED"}
        /\ (bid'[b].status = "UNSEALED" => bid'[b].shown)
    BY <1>1, <2>1, UnsealedRow
  <2>3. bid'[b].commitment <= identity'[bid'[b].supplier]
    BY <1>4, <2>1 DEF BidInv
  <2> QED BY <1>2, <2>1, <2>2, <2>3 DEF Opened
<1>6. Together'
  BY <1>1, <1>2 DEF Together
<1>7. RejectedMeansCorrected'
  <2> SUFFICES ASSUME NEW b \in Made', bid'[b].status = "REJECTED"
               PROVE  bid'[b].commitment = 0 /\ identity'[bid'[b].supplier] = 1
    BY DEF RejectedMeansCorrected
  <2>1. b \in Made
    BY <1>1
  <2>2. ~verify_at_open(b)
    BY <1>1, <2>1, UnsealedRow
  <2>3. bid[b].commitment # identity[bid[b].supplier]
        /\ bid[b].commitment <= identity[bid[b].supplier]
    BY <1>3, <2>1, <2>2 DEF BidInv
  <2> QED BY <1>4, <2>1, <2>3
<1> QED BY <1>5, <1>6, <1>7

\* A row changes in nothing but what SealInv tells apart.
LEMMA RowSeal ==
  ASSUME TypeOK, SealInv, NEW b \in Made, NEW row \in Bids,
         bid' = [bid EXCEPT ![b] = row], UNCHANGED <<key, identity, beside>>,
         row.supplier = bid[b].supplier, row.commitment = bid[b].commitment,
         row.shown = bid[b].shown, row.unsealed = bid[b].unsealed,
         row.status = bid[b].status \/ {row.status, bid[b].status} \subseteq Opened
  PROVE  SealInv'
<1> USE DEF SealInv
<1>1. /\ Made' = Made
      /\ bid'[b] = row
      /\ \A c \in Made \ {b} : bid'[c] = bid[c]
  <2>1. b \in Bid
    BY MadeRow
  <2>2. /\ Made' = Made \cup {b}
        /\ bid'[b] = row
        /\ \A c \in Made \ {b} : bid'[c] = bid[c]
    BY <2>1, Replaced
  <2>3. b \in Made
    OBVIOUS
  <2> QED BY <2>2, <2>3
<1>2. row.status = bid[b].status \/ (row.status # "REJECTED" /\ row.status # "RECEIVED"
                                     /\ bid[b].status # "RECEIVED" /\ bid[b].status \in Opened)
  BY DEF Opened
<1>3. BidInv'
  BY <1>1, <1>2 DEF BidInv
<1>4. Together'
  BY <1>1 DEF Together
<1>5. RejectedMeansCorrected'
  BY <1>1, <1>2 DEF RejectedMeansCorrected
<1> QED BY <1>3, <1>4, <1>5

LEMMA SubmitSeal ==
  ASSUME TypeOK, SealInv, NEW b \in Bid, NEW s \in Supplier, SubmitBid(b, s)
  PROVE  SealInv'
<1> USE DEF SealInv
<1>1. PICK row \in Bids :
         /\ bid' = [bid EXCEPT ![b] = row]
         /\ row.supplier = s /\ row.commitment = identity[s]
         /\ row.status = "RECEIVED" /\ ~row.shown /\ ~row.unsealed
  BY SubmittedRow
<1>2. /\ Made' = Made \cup {b}
      /\ bid'[b] = row
      /\ \A c \in Made \ {b} : bid'[c] = bid[c]
  BY <1>1, Replaced
<1>3. UNCHANGED <<key, identity>> /\ b \notin Made
  BY DEF SubmitBid, Made
<1>4. beside \subseteq beside' /\ ((\E c \in Made : bid[c].unsealed) => b \in beside')
  BY DEF SubmitBid
<1>5. identity[s] \in 0..1
  BY DEF TypeOK, SealTypeOK
<1>6. BidInv'
  BY <1>1, <1>2, <1>3, <1>5 DEF BidInv, Opened
<1>7. Together'
  BY <1>1, <1>2, <1>3, <1>4 DEF Together
<1>8. RejectedMeansCorrected'
  BY <1>1, <1>2, <1>3 DEF RejectedMeansCorrected
<1> QED BY <1>6, <1>7, <1>8

\* No bid changes and the key is not taken back.
LEMMA StillSeal ==
  ASSUME SealInv, UNCHANGED <<bid, identity, beside>>,
         key' = key \/ key' = "released" \/ key = "none"
  PROVE  SealInv'
<1>1. Made' = Made
  BY DEF Made
<1> QED BY <1>1 DEF SealInv, BidInv, Together, RejectedMeansCorrected

LEMMA CorrectSeal ==
  ASSUME TypeOK, SealInv, NEW s \in Supplier, CorrectIdentity(s)
  PROVE  SealInv'
<1>1. Made' = Made /\ UNCHANGED <<bid, key, beside>>
  BY DEF CorrectIdentity, Made
<1>2. ASSUME NEW t \in Supplier
      PROVE  identity[t] \in 0..1 /\ identity'[t] \in 0..1 /\ identity[t] <= identity'[t]
  BY DEF CorrectIdentity, TypeOK, SealTypeOK
<1>3. ASSUME NEW b \in Made
      PROVE  bid[b].commitment \in 0..1 /\ bid[b].supplier \in Supplier
  BY MadeRow DEF Bids
<1>4. BidInv'
  BY <1>1, <1>2, <1>3 DEF SealInv, BidInv
<1>5. RejectedMeansCorrected'
  BY <1>1, <1>2, <1>3 DEF SealInv, RejectedMeansCorrected
<1>6. Together'
  BY <1>1 DEF SealInv, Together
<1> QED BY <1>4, <1>5, <1>6 DEF SealInv

LEMMA OpenSeal ==
  ASSUME TypeOK, SealInv, OpenTender
  PROVE  SealInv'
<1>1. CASE DecryptAll /\ key' = "released"
  BY <1>1, DecryptSeal DEF OpenTender
<1>2. CASE UNCHANGED bid /\ (key' = "released" \/ key' = key)
  BY <1>2, StillSeal DEF OpenTender
<1> QED BY <1>1, <1>2 DEF OpenTender

\* A step of the evaluation leaves the seals alone, but for a mark.
LEMMA EvalSeal ==
  ASSUME TypeOK, SealInv, EvalNext
  PROVE  SealInv'
<1>1. ASSUME NEW members \in SUBSET User, FormCommittee(members)
      PROVE  SealInv'
  BY <1>1, StillSeal DEF FormCommittee
<1>2. ASSUME NEW b \in Examined, NEW s \in Marks, MarkBid(b, s)
      PROVE  SealInv'
  <2>1. PICK row \in Bids :
           /\ b \in Made
           /\ bid' = [bid EXCEPT ![b] = row]
           /\ row.supplier = bid[b].supplier /\ row.commitment = bid[b].commitment
           /\ bid[b].status \in Opened /\ row.status \in Opened
           /\ row.shown = bid[b].shown /\ row.unsealed = bid[b].unsealed
    BY <1>2, MarkedRow
  <2>2. UNCHANGED <<key, identity, beside>>
    BY <1>2 DEF MarkBid
  <2>3. {row.status, bid[b].status} \subseteq Opened
    BY <2>1
  <2> QED BY <2>1, <2>2, <2>3, RowSeal
<1>3. CASE UNCHANGED sealVars
  BY <1>3, StillSeal DEF sealVars
<1> QED BY <1>1, <1>2, <1>3
     DEF EvalNext, EnterScore, ScoreBid, Written, RecordDissent, ComputeTotals, PublishReport,
         RecommendAward, SaveCriterion

LEMMA SealStep ==
  ASSUME TypeOK, SealInv, CeremonyInv, [Next]_vars
  PROVE  SealInv' /\ CeremonyInv'
<1>1. CASE SavePublished
  BY <1>1, StillSeal DEF SavePublished, CeremonyInv
<1>2. ASSUME NEW s \in Status, Transition(s) PROVE SealInv' /\ CeremonyInv'
  BY <1>2, StillSeal DEF Transition, CeremonyInv
<1>3. CASE ReleaseKey
  BY <1>3, StillSeal DEF ReleaseKey, CeremonyInv
<1>4. CASE Unseal
  <2>1. key' = "released" /\ ~ceremony'
    BY <1>4 DEF Unseal, CeremonyInv
  <2>2. SealInv'
    BY <1>4, <2>1, DecryptSeal DEF Unseal
  <2> QED BY <2>1, <2>2 DEF CeremonyInv
<1>5. CASE AbandonUnseal
  BY <1>5, StillSeal DEF AbandonUnseal, CeremonyInv
<1>6. CASE OpenTender
  <2>1. CeremonyInv'
    BY <1>6 DEF OpenTender, CeremonyInv
  <2> QED BY <1>6, <2>1, OpenSeal
<1>7. ASSUME NEW b \in Bid, DamageEnvelope(b)
      PROVE  SealInv' /\ CeremonyInv'
  <2>1. PICK row \in Bids :
           /\ b \in Made
           /\ bid' = [bid EXCEPT ![b] = row]
           /\ row.supplier = bid[b].supplier /\ row.commitment = bid[b].commitment
           /\ row.status = bid[b].status /\ row.shown = bid[b].shown
           /\ row.unsealed = bid[b].unsealed
    BY <1>7, DamagedRow
  <2>2. UNCHANGED <<key, identity, ceremony, beside>>
    BY <1>7 DEF DamageEnvelope
  <2>3. SealInv'
    BY <2>1, <2>2, RowSeal
  <2> QED BY <2>2, <2>3 DEF CeremonyInv
<1>8. ASSUME NEW b \in Bid, NEW s \in Supplier, SubmitBid(b, s)
      PROVE  SealInv' /\ CeremonyInv'
  <2>1. CeremonyInv'
    BY <1>8 DEF SubmitBid, CeremonyInv
  <2> QED BY <1>8, <2>1, SubmitSeal
<1>9. ASSUME NEW s \in Supplier, CorrectIdentity(s)
      PROVE  SealInv' /\ CeremonyInv'
  <2>1. CeremonyInv'
    BY <1>9 DEF CorrectIdentity, CeremonyInv
  <2> QED BY <1>9, <2>1, CorrectSeal
<1>10. CASE EvalNext
  <2>1. UNCHANGED <<key, ceremony>>
    BY <1>10
    DEF EvalNext, FormCommittee, EnterScore, ScoreBid, Written, RecordDissent, ComputeTotals,
        PublishReport, RecommendAward, MarkBid, SaveCriterion, sealVars
  <2> QED BY <1>10, <2>1, EvalSeal DEF CeremonyInv
<1>11. CASE UNCHANGED vars
  BY <1>11, StillSeal DEF vars, sealVars, CeremonyInv
<1> QED
  BY <1>1, <1>2, <1>3, <1>4, <1>5, <1>6, <1>7, <1>8, <1>9, <1>10, <1>11 DEF Next, SealNext

-----------------------------------------------------------------------------
(* Scores, reports and recommendations. *)

LEMMA WrittenScore ==
  ASSUME TypeOK, NEW u \in Evaluator, NEW b \in Bid, NEW c \in Criterion, NEW raw \in Raw,
         Written(u, b, c, raw), OwnRow(u, b, c)
  PROVE  score' \in [Bid -> [Criterion -> Scores \cup {NoScore}]] /\ ScoresGrow
<1> DEFINE new == [by |-> u, raw |-> raw]
<1>1. new \in Scores /\ new # NoScore /\ new.by = u
  BY UsersAssumption DEF Scores, NoScore, Evaluator
<1>2. score \in [Bid -> [Criterion -> Scores \cup {NoScore}]]
  BY DEF TypeOK
<1>3. score' = [score EXCEPT ![b] = [score[b] EXCEPT ![c] = new]]
  BY <1>2 DEF Written
<1> HIDE DEF new
<1>4. score' \in [Bid -> [Criterion -> Scores \cup {NoScore}]]
  BY <1>1, <1>2, <1>3
<1>5. /\ score'[b][c] = new
      /\ \A d \in Bid, e \in Criterion : <<d, e>> # <<b, c>> => score'[d][e] = score[d][e]
  BY <1>2, <1>3
<1>6. score[b][c] # NoScore => score[b][c].by = u
  BY DEF OwnRow
<1> QED BY <1>1, <1>4, <1>5, <1>6 DEF ScoresGrow

\* What a step of the bids' life does to the types and takes away from nobody.
LEMMA SealGrows ==
  ASSUME TypeOK, SealNext
  PROVE  SealTypeOK' /\ BidsGrow
<1> DEFINE Fine == bid' \in [Bid -> Bids \cup {NoBid}] /\ BidsGrow
<1>1. ASSUME UNCHANGED bid PROVE Fine
  BY <1>1 DEF TypeOK, SealTypeOK, BidsGrow, Made
<1>2. ASSUME DecryptAll PROVE Fine
  BY <1>2, Decrypted, UnsealedRow DEF BidsGrow
<1>3. ASSUME NEW b \in Bid, NEW row \in Bids, bid' = [bid EXCEPT ![b] = row],
             b \in Made => (bid[b].unsealed => row.unsealed) /\ (bid[b].shown => row.shown)
      PROVE  Fine
  BY <1>3, Replaced DEF BidsGrow
<1>4. Fine
  <2>1. ASSUME NEW b \in Bid, DamageEnvelope(b)
        PROVE  Fine
    <3>1. PICK row \in Bids : bid' = [bid EXCEPT ![b] = row] /\ row.shown = bid[b].shown
                              /\ row.unsealed = bid[b].unsealed
      BY <2>1, DamagedRow
    <3> HIDE DEF Fine
    <3> QED BY <3>1, <1>3
  <2>2. ASSUME NEW b \in Bid, NEW s \in Supplier, SubmitBid(b, s)
        PROVE  Fine
    <3>1. b \notin Made
      BY <2>2 DEF SubmitBid, Made
    <3>2. PICK row \in Bids : bid' = [bid EXCEPT ![b] = row]
      BY <2>2, SubmittedRow
    <3> HIDE DEF Fine
    <3> QED BY <3>1, <3>2, <1>3
  <2> HIDE DEF Fine
  <2>3. CASE UNCHANGED bid \/ DecryptAll
    BY <2>3, <1>1, <1>2
  <2> QED BY <2>1, <2>2, <2>3
      DEF SealNext, SavePublished, Transition, ReleaseKey, Unseal, AbandonUnseal, OpenTender,
          CorrectIdentity
<1>5. tender' \in Status
  BY DEF TypeOK, SealTypeOK, Status, SealNext, SavePublished, Transition, ReleaseKey, Unseal,
         AbandonUnseal, OpenTender, CorrectIdentity, SubmitBid, DamageEnvelope
<1>6. key' \in {"none", "held", "released"} /\ ceremony' \in BOOLEAN
  BY DEF TypeOK, SealTypeOK, SealNext, SavePublished, Transition, ReleaseKey, Unseal,
         AbandonUnseal, OpenTender, CorrectIdentity, SubmitBid, DamageEnvelope
<1>7. identity' \in [Supplier -> 0..1]
  BY DEF TypeOK, SealTypeOK, SealNext, SavePublished, Transition, ReleaseKey, Unseal,
         AbandonUnseal, OpenTender, CorrectIdentity, SubmitBid, DamageEnvelope
<1>8. beside' \subseteq Made'
  <2>1. beside \subseteq Made /\ Made \subseteq Made'
    BY <1>4 DEF TypeOK, SealTypeOK, BidsGrow
  <2>2. ASSUME NEW b \in Bid, NEW s \in Supplier, SubmitBid(b, s)
        PROVE  b \in Made' /\ beside' \subseteq beside \cup {b}
    <3>1. PICK row \in Bids : bid' = [bid EXCEPT ![b] = row]
      BY <2>2, SubmittedRow
    <3> QED BY <2>2, <3>1, Replaced DEF SubmitBid
  <2> QED BY <2>1, <2>2
      DEF SealNext, SavePublished, Transition, ReleaseKey, Unseal, AbandonUnseal, OpenTender,
          CorrectIdentity, DamageEnvelope
<1> QED BY <1>4, <1>5, <1>6, <1>7, <1>8 DEF SealTypeOK

\* A step that leaves the seals, or the scores and the committee, as they are.
LEMMA Untouched ==
  ASSUME TypeOK
  PROVE  /\ UNCHANGED sealVars => SealTypeOK' /\ BidsGrow
         /\ UNCHANGED score =>
              score' \in [Bid -> [Criterion -> Scores \cup {NoScore}]] /\ ScoresGrow
         /\ UNCHANGED dissent => dissent' \in 0..MaxDissent /\ dissent <= dissent'
<1>1. ASSUME UNCHANGED sealVars PROVE SealTypeOK' /\ BidsGrow
  BY <1>1 DEF TypeOK, SealTypeOK, sealVars, BidsGrow, Made
<1>2. ASSUME UNCHANGED score
      PROVE  score' \in [Bid -> [Criterion -> Scores \cup {NoScore}]] /\ ScoresGrow
  BY <1>2 DEF TypeOK, ScoresGrow
<1>3. ASSUME UNCHANGED dissent PROVE dissent' \in 0..MaxDissent /\ dissent <= dissent'
  BY <1>3, BoundsAssumption DEF TypeOK
<1> QED BY <1>1, <1>2, <1>3

LEMMA StepGrows ==
  ASSUME TypeOK, [Next]_vars
  PROVE  TypeOK' /\ Grows
<1> DEFINE Kept ==
      /\ weight' \in [Criterion -> Weight] /\ committee' \subseteq User
      /\ committee \subseteq committee' /\ recommended' \subseteq Made'
<1> SUFFICES /\ SealTypeOK' /\ BidsGrow
             /\ score' \in [Bid -> [Criterion -> Scores \cup {NoScore}]] /\ ScoresGrow
             /\ dissent' \in 0..MaxDissent /\ dissent <= dissent'
             /\ Kept
  BY DEF TypeOK, Grows
<1>1. ASSUME BidsGrow, UNCHANGED <<weight, committee, recommended>> PROVE Kept
  BY <1>1 DEF TypeOK, BidsGrow
<1>2. CASE SealNext /\ UNCHANGED evalVars
  <2> HIDE DEF Kept
  <2> QED BY <1>1, <1>2, SealGrows, Untouched DEF evalVars
<1>3. ASSUME NEW members \in SUBSET User, FormCommittee(members)
      PROVE  SealTypeOK' /\ BidsGrow /\ Kept /\ UNCHANGED <<score, dissent>>
  <2>1. SealTypeOK' /\ BidsGrow /\ Made' = Made
    BY <1>3 DEF FormCommittee, TypeOK, SealTypeOK, Status, BidsGrow, Made
  <2> QED BY <1>3, <2>1 DEF FormCommittee, Seated, TypeOK
<1>4. ASSUME NEW b \in Examined, NEW c \in Criterion, NEW u \in Evaluator, NEW raw \in Raw,
             EnterScore(u, b, c, raw) \/ ScoreBid(u, b, c, raw)
      PROVE  /\ score' \in [Bid -> [Criterion -> Scores \cup {NoScore}]] /\ ScoresGrow
             /\ UNCHANGED <<sealVars, weight, committee, recommended, dissent>>
  <2>1. b \in Bid
    BY BoundsAssumption
  <2>2. Written(u, b, c, raw) /\ OwnRow(u, b, c)
    BY <1>4 DEF EnterScore, ScoreBid, OwnRow
  <2> QED BY <2>1, <2>2, WrittenScore DEF Written
<1>5. ASSUME NEW b \in Examined, NEW c \in Criterion, RecordDissent(b, c)
      PROVE  /\ dissent' \in 0..MaxDissent /\ dissent <= dissent'
             /\ UNCHANGED <<sealVars, score, weight, committee, recommended>>
  BY <1>5, BoundsAssumption DEF RecordDissent, TypeOK
<1>6. CASE ComputeTotals \/ PublishReport
  <2> HIDE DEF Kept
  <2> QED BY <1>1, <1>6, Untouched DEF ComputeTotals, PublishReport
<1>7. ASSUME NEW b \in Examined, RecommendAward(b)
      PROVE  Kept /\ UNCHANGED <<sealVars, score, dissent>>
  BY <1>7 DEF RecommendAward, TypeOK, Made, sealVars
<1>8. ASSUME NEW b \in Examined, NEW s \in Marks, MarkBid(b, s)
      PROVE  SealTypeOK' /\ BidsGrow /\ UNCHANGED evalVars
  <2>1. PICK row \in Bids :
           /\ b \in Made
           /\ bid' = [bid EXCEPT ![b] = row]
           /\ row.shown = bid[b].shown /\ row.unsealed = bid[b].unsealed
    BY <1>8, MarkedRow
  <2>2. b \in Bid
    BY BoundsAssumption
  <2>3. bid' \in [Bid -> Bids \cup {NoBid}] /\ BidsGrow
    BY <2>1, <2>2, Replaced DEF BidsGrow
  <2> QED BY <1>8, <2>3 DEF MarkBid, TypeOK, SealTypeOK, BidsGrow
<1>9. ASSUME NEW c \in Criterion, NEW w \in Weight, SaveCriterion(c, w)
      PROVE  Kept /\ UNCHANGED <<sealVars, score, dissent>>
  BY <1>9 DEF SaveCriterion, TypeOK, Made, sealVars
<1>10. CASE UNCHANGED vars
  <2> HIDE DEF Kept
  <2> QED BY <1>1, <1>10, Untouched DEF vars, evalVars
<1>11. CASE EvalNext
  <2> HIDE DEF Kept
  <2> QED BY <1>1, <1>3, <1>4, <1>5, <1>6, <1>7, <1>8, <1>9, <1>11, Untouched
      DEF EvalNext, evalVars
<1> QED
  BY <1>2, <1>10, <1>11 DEF Next

LEMMA CountGrows ==
  ASSUME ScoresGrow, NEW b \in Bid
  PROVE  /\ Scored(b) \subseteq Scored(b)' /\ Scored(b)' \subseteq Criterion
         /\ Cardinality(Scored(b)) \in Nat /\ Cardinality(Scored(b))' \in Nat
         /\ Cardinality(Scored(b)) <= Cardinality(Scored(b))'
<1> DEFINE new == {c \in Criterion : score'[b][c] # NoScore}
<1>1. Scored(b) \subseteq new /\ new \subseteq Criterion
  BY DEF ScoresGrow, Scored
<1>2. IsFiniteSet(new) /\ IsFiniteSet(Scored(b))
  BY <1>1, UsersAssumption, FS_Subset
<1>3. Cardinality(Scored(b)) <= Cardinality(new)
  BY <1>1, <1>2, FS_Subset
<1>4. Cardinality(Scored(b)) \in Nat /\ Cardinality(new) \in Nat
  BY <1>2, FS_CardinalityType
<1>5. Scored(b)' = new
  BY DEF Scored
<1> HIDE DEF new
<1> QED BY <1>1, <1>3, <1>4, <1>5

LEMMA CommitteeGrows ==
  ASSUME TypeOK, TypeOK', committee \subseteq committee'
  PROVE  /\ Cardinality(committee) \in Nat /\ Cardinality(committee') \in Nat
         /\ Cardinality(committee) <= Cardinality(committee')
<1>1. IsFiniteSet(committee) /\ IsFiniteSet(committee')
  BY UsersAssumption, FS_Subset DEF TypeOK
<1> QED BY <1>1, FS_Subset, FS_CardinalityType

\* Rows that were backed stay so.
LEMMA StaysBacked ==
  ASSUME TypeOK, Grows, NEW rows, Backed(rows)
  PROVE  Backed(rows)'
<1> SUFFICES ASSUME NEW b \in DOMAIN rows
             PROVE  /\ b \in Made' /\ bid'[b].unsealed
                    /\ rows[b].count \in Nat /\ rows[b].count <= Cardinality(Scored(b))'
  BY DEF Backed
<1>1. /\ b \in Made /\ bid[b].unsealed
      /\ rows[b].count \in Nat /\ rows[b].count <= Cardinality(Scored(b))
  BY DEF Backed
<1>2. b \in Made' /\ bid'[b].unsealed
  BY <1>1 DEF Grows, BidsGrow
<1>3. /\ Cardinality(Scored(b)) \in Nat /\ Cardinality(Scored(b))' \in Nat
      /\ Cardinality(Scored(b)) <= Cardinality(Scored(b))'
  BY <1>1, MadeRow, CountGrows DEF Grows
<1> QED BY <1>1, <1>2, <1>3

\* compute_bid_totals counts the scores there are, of opened bids.
LEMMA TotalsBacked ==
  ASSUME TypeOK, SealInv
  PROVE  Backed(compute_bid_totals)
<1> DEFINE rows == compute_bid_totals
<1> SUFFICES ASSUME NEW b \in DOMAIN rows
             PROVE  /\ b \in Made /\ bid[b].unsealed
                    /\ rows[b].count \in Nat /\ rows[b].count <= Cardinality(Scored(b))
  BY DEF Backed
<1>1. /\ b \in Made /\ bid[b].status \in {"UNSEALED", "RESPONSIVE", "EVALUATED"}
      /\ rows[b].count = Cardinality(Scored(b))
  BY DEF compute_bid_totals
<1>2. bid[b].unsealed
  BY <1>1 DEF SealInv, BidInv
<1>3. IsFiniteSet(Scored(b))
  BY UsersAssumption, FS_Subset DEF Scored
<1>4. Cardinality(Scored(b)) \in Nat
  BY <1>3, FS_CardinalityType
<1> HIDE DEF rows
<1> QED BY <1>1, <1>2, <1>4

LEMMA TotalsStep ==
  ASSUME IInv, Grows, [Next]_vars
  PROVE  TotalsInv'
<1> USE DEF IInv
<1>1. CASE ComputeTotals
  <2>1. totals'.rows = compute_bid_totals
    BY <1>1 DEF ComputeTotals
  <2>2. PICK rows : rows = compute_bid_totals
    OBVIOUS
  <2>3. Backed(rows)'
    BY <2>2, TotalsBacked, StaysBacked
  <2> QED BY <2>1, <2>2, <2>3 DEF TotalsInv
<1>2. CASE totals' = Nothing
  BY <1>2 DEF TotalsInv, Nothing
<1>3. CASE totals' = totals
  <2>1. PICK rows : rows = totals.rows
    OBVIOUS
  <2>2. totals.made => Backed(rows)'
    BY <2>1, StaysBacked DEF TotalsInv
  <2> QED BY <1>3, <2>1, <2>2 DEF TotalsInv
<1>4. ComputeTotals \/ totals' = Nothing \/ totals' = totals
  BY DEF Next, EvalNext, FormCommittee, EnterScore, ScoreBid, Written, RecordDissent,
         PublishReport, RecommendAward, MarkBid, SaveCriterion, evalVars, vars
<1> QED BY <1>1, <1>2, <1>3, <1>4

LEMMA ReportStep ==
  ASSUME IInv, Grows, TypeOK', [Next]_vars
  PROVE  ReportInv'
<1> USE DEF IInv
<1>1. /\ Cardinality(committee) \in Nat /\ Cardinality(committee') \in Nat
      /\ Cardinality(committee) <= Cardinality(committee')
  BY CommitteeGrows DEF Grows
<1>2. dissent \in Nat /\ dissent' \in Nat /\ dissent <= dissent'
  BY BoundsAssumption DEF TypeOK, Grows
<1>3. CASE PublishReport
  <2>1. PICK rows : rows = totals.rows
    OBVIOUS
  <2>2. Backed(rows)'
    BY <1>3, <2>1, StaysBacked DEF PublishReport, TotalsInv
  <2>3. /\ report' = [made |-> TRUE, rows |-> rows, signed_by_count |-> Cardinality(committee),
                      dissents_count |-> dissent]
    BY <1>3, <2>1 DEF PublishReport
  <2> QED BY <1>1, <1>2, <2>2, <2>3 DEF ReportInv
<1>4. CASE report' = report
  <2>1. PICK rows : rows = report.rows
    OBVIOUS
  <2>2. report.made => Backed(rows)'
    BY <2>1, StaysBacked DEF ReportInv
  <2> QED BY <1>1, <1>2, <1>4, <2>1, <2>2 DEF ReportInv
<1>5. PublishReport \/ report' = report
  BY DEF Next, EvalNext, FormCommittee, EnterScore, ScoreBid, Written, RecordDissent,
         ComputeTotals, RecommendAward, MarkBid, SaveCriterion, evalVars, vars
<1> QED BY <1>3, <1>4, <1>5

LEMMA RecommendedStep ==
  ASSUME IInv, Grows, [Next]_vars
  PROVE  RecommendedInv'
<1> USE DEF IInv
<1>1. ASSUME NEW b \in Made, bid[b].shown, Scored(b) = Criterion
      PROVE  bid'[b].shown /\ Scored(b)' = Criterion
  <2>1. Scored(b) \subseteq Scored(b)' /\ Scored(b)' \subseteq Criterion
    BY MadeRow, CountGrows DEF Grows
  <2> QED BY <1>1, <2>1 DEF Grows, BidsGrow
<1>2. CASE recommended' = recommended
  BY <1>1, <1>2 DEF RecommendedInv, TypeOK
<1>3. ASSUME NEW b \in Examined, RecommendAward(b)
      PROVE  RecommendedInv'
  <2>1. b \in Made /\ bid[b].shown /\ Scored(b) = Criterion
    BY <1>3 DEF RecommendAward, FullyScored, SealInv, BidInv, Opened
  <2>2. recommended' = recommended \cup {b}
    BY <1>3 DEF RecommendAward
  <2> QED BY <1>1, <2>1, <2>2 DEF RecommendedInv, TypeOK
<1>4. recommended' = recommended \/ \E b \in Examined : RecommendAward(b)
  BY DEF Next, EvalNext, FormCommittee, EnterScore, ScoreBid, Written, RecordDissent,
         ComputeTotals, PublishReport, MarkBid, SaveCriterion, evalVars, vars
<1> QED BY <1>2, <1>3, <1>4

LEMMA IInvInductive ==
  ASSUME IInv, [Next]_vars
  PROVE  IInv'
<1>1. TypeOK' /\ Grows
  BY StepGrows DEF IInv
<1> QED BY <1>1, SealStep, TotalsStep, ReportStep, RecommendedStep DEF IInv

LEMMA InitIInv ==
  ASSUME Init
  PROVE  IInv
<1>1. SealTypeOK /\ SealInv
  BY InitSeal
<1>2. CeremonyInv
  BY DEF Init, SealInit, CeremonyInv
<1>3. TypeOK
  BY <1>1, BoundsAssumption DEF Init, TypeOK
<1>4. RecommendedInv /\ TotalsInv /\ ReportInv
  BY DEF Init, RecommendedInv, TotalsInv, ReportInv, Nothing
<1> QED BY <1>1, <1>2, <1>3, <1>4 DEF IInv

LEMMA AlwaysIInv == Spec => []IInv
  BY InitIInv, IInvInductive, PTL DEF Spec

-----------------------------------------------------------------------------
(* The theorems. *)

\* The tender's seals, scores and reports keep their shape, and only bids on record
\* are recommended (SealedBids, Evaluation).
THEOREM EvaluationType == Spec => []TypeOK
<1>1. IInv => TypeOK
  BY DEF IInv
<1> QED BY <1>1, AlwaysIInv, PTL

\* Whatever envelope is damaged, wherever a ceremony stops and whatever a freeze reopens,
\* bids open together, with the key released, but for those submitted beside opened ones,
\* and no price is shown before (unseal_bids, the receiver).
THEOREM BidsOpenTogether == Spec => []UnsealedTogether
<1>1. IInv => UnsealedTogether
  BY DEF IInv, SealInv, BidInv, Together, UnsealedTogether
<1> QED BY <1>1, AlwaysIInv, PTL

\* A bid is only rejected for an identity corrected after its submission (verify_at_open).
THEOREM RejectionsExplained == Spec => []RejectedMeansCorrected
<1>1. IInv => RejectedMeansCorrected
  BY DEF IInv, SealInv
<1> QED BY <1>1, AlwaysIInv, PTL

\* A recommended bid was opened in public and keeps a score on every criterion, which
\* the scorecard, when served, shows unless it was rejected since (recommend_award).
THEOREM RecommendationsBacked == Spec => []RecommendedFullyScored
<1>1. ASSUME IInv PROVE RecommendedFullyScored
  <2> SUFFICES ASSUME NEW b \in recommended
               PROVE  /\ bid[b].unsealed /\ bid[b].shown
                      /\ Scored(b) = Criterion
                      /\ served /\ bid[b].status # "REJECTED" =>
                           \A c \in Criterion : evaluation_workspace.scorecard[b][c] # NoScore
    BY DEF RecommendedFullyScored
  <2>1. b \in Made /\ bid[b].shown /\ Scored(b) = Criterion
    BY <1>1 DEF IInv, TypeOK, RecommendedInv
  <2>2. bid[b].unsealed /\ bid[b].status # "RECEIVED" /\ bid[b].status \in BidStatus
    BY <1>1, <2>1, MadeRow DEF IInv, SealInv, BidInv, Bids
  <2>3. bid[b].status # "REJECTED" => b \in Listed
    BY <2>1, <2>2 DEF Listed, BidStatus, Opened
  <2>4. b \in Listed => evaluation_workspace.scorecard[b] = score[b]
    BY DEF evaluation_workspace
  <2> QED BY <2>1, <2>2, <2>3, <2>4 DEF Scored
<1> QED BY <1>1, AlwaysIInv, PTL

\* A published report never claims more bids, scores, dissents or signatures than are on
\* record, however long ago its totals were computed (publish_evaluation_report).
THEOREM ReportsBacked == Spec => []ReportBacked
<1>1. ASSUME IInv PROVE ReportBacked
  <2>1. ASSUME report.made, NEW b \in DOMAIN report.rows
        PROVE  /\ bid[b].unsealed /\ report.rows[b].count <= Cardinality(Scored(b))
               /\ b \in evaluation_report_page.bids \/ bid[b].status = "REJECTED"
    <3>1. b \in Made /\ bid[b].unsealed /\ report.rows[b].count <= Cardinality(Scored(b))
      BY <1>1, <2>1 DEF IInv, ReportInv, Backed
    <3>2. bid[b].status # "RECEIVED" /\ bid[b].status \in BidStatus
      BY <1>1, <3>1, MadeRow DEF IInv, SealInv, BidInv, Bids
    <3> QED BY <3>1, <3>2 DEF evaluation_report_page, Listed, BidStatus, Opened
  <2>2. report.made =>
          /\ report.signed_by_count <= Cardinality(committee)
          /\ report.dissents_count <= dissent
    BY <1>1 DEF IInv, ReportInv
  <2> QED BY <2>1, <2>2 DEF ReportBacked, evaluation_report_page
<1> QED BY <1>1, AlwaysIInv, PTL

\* A score, once entered, stays and stays its evaluator's (enter_score, score_bid).
THEOREM ScoresAreKept == Spec => ScoresStand
<1>1. ASSUME IInv, [Next]_vars
      PROVE  [\A b \in Bid, c \in Criterion :
                score[b][c] # NoScore => score'[b][c].by = score[b][c].by]_vars
  BY <1>1, StepGrows DEF IInv, Grows, ScoresGrow
<1> QED BY <1>1, AlwaysIInv, PTL DEF Spec, ScoresStand
=============================================================================
