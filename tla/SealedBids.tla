----------------------------- MODULE SealedBids -----------------------------
(***************************************************************************)
(* The life of the sealed envelopes of one tender: the key made at its     *)
(* publication, the submissions and their commitments, the ceremony that   *)
(* releases the key and decrypts (apps/workflow/services.py, signals.py,   *)
(* apps/procurement/crypto.py).                                            *)
(*                                                                         *)
(* A commitment is a hash over the bidder's identity, the amount and the   *)
(* envelope.  The client encrypts the amount it commits to, so what may    *)
(* differ at the opening is the identity (the RC number, or the legal name *)
(* of a party without one), which staff may correct in the meantime; an    *)
(* identity is the number of its corrections.  An envelope is intact, or   *)
(* its ciphertext does not decrypt any more.                               *)
(*                                                                         *)
(* PUBLISHED stands for CLARIFYING too, in which bids are taken as well.   *)
(* A freeze may end with submissions reopened, also after the opening.     *)
(* The clock, the freeze's length, concurrent handlers of the tender, its  *)
(* award and its termination are Tender's and Award's subjects.            *)
(***************************************************************************)
EXTENDS Integers, FiniteSets

CONSTANTS
  Bid,       \* rows of proc_bid, each with its row of proc_submission
  Supplier,
  HasLot     \* whether the tender was divided into lots

ASSUME BidsAssumption == IsFiniteSet(Bid) /\ HasLot \in BOOLEAN

VARIABLES
  tender,    \* its status
  key,       \* the row of proc_tender_key
  ceremony,  \* a request between the release of the key and the decryption
  identity,  \* of each supplier
  bid,       \* the rows of proc_bid
  beside     \* history: bids submitted when another had been opened already

sealVars == <<tender, key, ceremony, identity, bid, beside>>

Status == {"DRAFT", "PUBLISHED", "CLOSED", "OPENED", "EVALUATING", "FROZEN"}
Opened == {"UNSEALED", "RESPONSIVE", "EVALUATED", "RECOMMENDED"}
BidStatus == Opened \cup {"RECEIVED", "REJECTED"}

NoBid == [status |-> "none"]
Bids == [supplier : Supplier, status : BidStatus, commitment : 0..1, intact : BOOLEAN,
         shown : BOOLEAN, unsealed : BOOLEAN]

SealInit ==
  /\ tender = "DRAFT"
  /\ key = "none"
  /\ ceremony = FALSE
  /\ identity = [s \in Supplier |-> 0]
  /\ bid = [b \in Bid |-> NoBid]
  /\ beside = {}

Made == {b \in Bid : bid[b] # NoBid}

-----------------------------------------------------------------------------
\* A save of a published tender, reopened ones included: the receiver makes the key unless
\* there is one; a failure is logged and the next save tries again.
SavePublished ==
  /\ tender \in {"DRAFT", "PUBLISHED", "FROZEN"}
  /\ tender' = "PUBLISHED"
  /\ key' \in IF key = "none" THEN {"none", "held"} ELSE {key}
  /\ UNCHANGED <<ceremony, identity, bid, beside>>

\* one_bid_per_bidder_per_lot: rows without a lot never collide.
Free(s) == HasLot => \A b \in Made : bid[b].supplier # s

\* Fault: the commitment is the one Bid.save() wrote before the envelope was there.
Commitment_First(s) == 1 - identity[s]
\* bid_commitment, which replaces what Bid.save() computed.
Commitment(s) == identity[s]

\* submit_bid, one transaction; nothing asks whether the key is still held.
SubmitBid(b, s) ==
  /\ tender = "PUBLISHED"
  /\ key # "none"
  /\ bid[b] = NoBid
  /\ Free(s)
  /\ bid' = [bid EXCEPT ![b] = [supplier |-> s, status |-> "RECEIVED", commitment |-> Commitment(s),
                                intact |-> TRUE, shown |-> FALSE, unsealed |-> FALSE]]
  /\ beside' = IF \E c \in Made : bid[c].unsealed THEN beside \cup {b} ELSE beside
  /\ UNCHANGED <<tender, key, ceremony, identity>>

\* Those between the statuses of this module.
ALLOWED_TRANSITIONS ==
  [s \in Status |->
     CASE s = "DRAFT" -> {"PUBLISHED"}
       [] s = "PUBLISHED" -> {"CLOSED", "FROZEN"}
       [] s = "CLOSED" -> {"OPENED", "FROZEN"}
       [] s = "OPENED" -> {"EVALUATING"}
       [] s = "EVALUATING" -> {"FROZEN"}
       [] s = "FROZEN" -> {"PUBLISHED", "EVALUATING"}]

\* Tender.transition; a save that receivers act on is SavePublished or OpenTender.
Transition(s) ==
  /\ s \in ALLOWED_TRANSITIONS[tender] \ {"PUBLISHED", "OPENED"}
  /\ tender' = s
  /\ UNCHANGED <<key, ceremony, identity, bid, beside>>

\* Staff correct a party's RC number or name.
CorrectIdentity(s) ==
  /\ identity[s] = 0
  /\ identity' = [identity EXCEPT ![s] = 1]
  /\ UNCHANGED <<tender, key, ceremony, bid, beside>>

\* A stored ciphertext is damaged.
DamageEnvelope(b) ==
  /\ b \in Made
  /\ bid[b].intact
  /\ bid' = [bid EXCEPT ![b].intact = FALSE]
  /\ UNCHANGED <<tender, key, ceremony, identity, beside>>

-----------------------------------------------------------------------------
verify_at_open(b) == bid[b].commitment = identity[bid[b].supplier]

\* What unseal_bids makes of a bid whose envelope decrypts, whatever it was before.
Unsealed(b) ==
  IF verify_at_open(b)
  THEN [bid[b] EXCEPT !.status = "UNSEALED", !.shown = TRUE, !.unsealed = TRUE]
  ELSE [bid[b] EXCEPT !.status = "REJECTED", !.unsealed = TRUE]

\* Fault: the loop commits bid by bid, and skips what does not decrypt.
DecryptAll_OneByOne ==
  bid' = [b \in Bid |-> IF b \in Made /\ bid[b].intact THEN Unsealed(b) ELSE bid[b]]
\* The loop of unseal_bids: one damaged envelope rolls every bid back.
DecryptAll ==
  /\ \A b \in Made : bid[b].intact
  /\ bid' = [b \in Bid |-> IF b \in Made THEN Unsealed(b) ELSE NoBid]

\* unseal_bids: the release of the key is committed first, ...
ReleaseKey ==
  /\ key # "none"
  /\ key' = "released"
  /\ ceremony' = TRUE
  /\ UNCHANGED <<tender, identity, bid, beside>>

\* ... then one transaction decrypts and opens the tender from any status; ...
Unseal ==
  /\ ceremony
  /\ DecryptAll
  /\ tender' = "OPENED"
  /\ ceremony' = FALSE
  /\ UNCHANGED <<key, identity, beside>>

\* ... or it fails, and the key stays released.
AbandonUnseal ==
  /\ ceremony
  /\ ceremony' = FALSE
  /\ UNCHANGED <<tender, key, identity, bid, beside>>

\* A handler saves the tender OPENED; the receiver unseals what is still sealed and
\* swallows the exception of a damaged envelope.
OpenTender ==
  /\ tender # "DRAFT"
  /\ tender' = "OPENED"
  /\ IF \E b \in Made : ~bid[b].unsealed
       THEN /\ key' = "released"
            /\ IF \A b \in Made : bid[b].intact THEN DecryptAll ELSE bid' = bid
       ELSE UNCHANGED <<key, bid>>
  /\ UNCHANGED <<ceremony, identity, beside>>

SealNext ==
  \/ SavePublished \/ (\E s \in Status : Transition(s))
  \/ ReleaseKey \/ Unseal \/ AbandonUnseal \/ OpenTender
  \/ \E b \in Bid : DamageEnvelope(b) \/ \E s \in Supplier : SubmitBid(b, s)
  \/ \E s \in Supplier : CorrectIdentity(s)

-----------------------------------------------------------------------------
SealTypeOK ==
  /\ tender \in Status
  /\ ceremony \in BOOLEAN
  /\ key \in {"none", "held", "released"}
  /\ identity \in [Supplier -> 0..1]
  /\ bid \in [Bid -> Bids \cup {NoBid}]
  /\ beside \subseteq Made

\* Whatever envelope is damaged, wherever a ceremony stops and whatever freezes reopen,
\* the bids of a tender are opened together or not at all, with the key released, and
\* no price is shown before; only a bid submitted to an opened tender that a freeze
\* reopened may still be sealed (unseal_bids, the auto-unseal receiver).
UnsealedTogether ==
  (\E b \in Made : bid[b].unsealed \/ bid[b].shown) =>
    key = "released" /\ \A b \in Made : bid[b].unsealed \/ b \in beside

\* The ceremony rejects a bid only when the bidder's identity was corrected after the
\* submission: the commitment that counts is the one of the final envelope
\* (submit_bid, verify_at_open).
RejectedMeansCorrected ==
  \A b \in Made : bid[b].status = "REJECTED" =>
    bid[b].commitment = 0 /\ identity[bid[b].supplier] = 1
=============================================================================
