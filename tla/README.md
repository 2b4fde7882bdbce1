# A verification of the Taraba procurement system

TLA+ modules that model the parts of this Django application that keep state and
make promises about it, and the pages that report on that state; TLC configurations
that check them on small instances; and theorems that TLAPS proves for every
instance.  Paths are relative to the repository's source directory
(`apps/ledger/services.py` is `src/apps/ledger/services.py` in PROJECT.json).

## 1. The system

A public procurement portal.  One PostgreSQL database at READ COMMITTED, any number
of web workers, a nightly cron.  A request handler loads rows into Django model
instances, checks its guards on those instances and saves the columns it names.
Nothing but `ledger.append` and `update_or_create` locks a row, and few handlers
hold a transaction around everything they do, so two questions come back in every
part: *what if the instance is stale by the time it is saved*, and *what if the
worker stops between two commits*.  A third comes from the public side: every page,
feed and export computes what it shows with conditions of its own, so *do the
surfaces agree*.

| part | state | operations | promises |
|---|---|---|---|
| Event ledger (`apps/ledger`) | `ledger_event`: seq, prev_hash, row_hash | `append`, `history`, `verify_chain` | gap-free numbering, unbroken hash chain, events agree with the rows they report |
| Tender lifecycle (`procurement/models.py`, `workflow/signals.py`) | `proc_tender`: status, dates, freeze, commitment root | `publish`, `transition`, `close`, `open_bids`, `freeze`, `answer_now`, the post_save receivers | advert period, questions that close before submissions, awards after the opening, no way back out of the public record |
| Sealed bids (`workflow/services.py`, `procurement/crypto.py`) | `TenderKey`, `Bid`, `BidEnvelope` | `publish_tender_key`, `submit_bid`, `unseal_bids` | no late bid, no price shown before the opening, bids open together, rejections explained |
| Evaluation (`workflow/services_phases.py`) | committee, scores, dissents, reports, recommendations | `form_evaluation_committee`, `enter_score`, `score_bid`, `record_dissent`, `publish_evaluation_report`, `recommend_award` | scores stay, a report claims no more than the record, recommendations rest on full scores |
| Award and objections | `Award`, `Objection`, panels, debriefs | `award_contract`, `Award.publish`, `file_objection`, `decide_objection` | no contract ahead of its published award, objections inside their window |
| Contract execution | `Contract`, `ContractEvent`, certificates, variations, milestones, guarantees, ratings | `certify_acceptance`, `certify_payment`, `propose_variation`, `approve_variation`, `close_contract`, `rate_supplier_performance`, milestones, guarantees | no payment without acceptance, published growth is what was approved, closed contracts get rated, pages stand on the ledger |
| Supplier registration | `vendor_draft` and its documents, `party_supplier`, `party_verification` | `save_draft_step`, `upload_draft_document`, `submit_draft`, `start_verification`, `decide_document`, `approve_draft`, `reject_draft`, `suspend_expired_suppliers` | verifications rest on a file somebody accepted, one supplier per RC number, lapsed firms are suspended |
| Approval routing, threshold rules | `ThresholdRule`, routings | `determine_body`, `approve_routing`, the page of the matrix | the body the value requires decides |
| Catalogue | purchase orders and quotes | `create_po`, `award_po` | the lowest price wins |
| Risk indicators (`procurement/risk.py`) | none | `evaluate_tender` | flags mean what their published definitions say |
| OCDS releases, feeds, API, public pages | none | reads | agree with the tables and with each other |
| Login codes | `MFASession`, TOTP secrets | `send_mfa_challenge`, `verify_mfa` | a code is used once |
| Notifications, watches, translations, whistleblower intake, auctions, defects, planning | single tables | single inserts and reads | |

How they interact: every part calls `ledger.append`, inside its transaction, after its
commit, or before it; saving a tender runs receivers that create the sealing key and
unseal bids, and the latter save the tender again; the award moves the tender, the
objection freezes it; a purchase order makes a tender, an award and a contract of its own;
an approved registration makes the supplier who bids; the nightly job takes suppliers
out again; an indicator that fails takes the tender's page down with it.

What is hard, and where it bites, is listed line by line under "hazards" in
PROJECT.json: stale instances saved over newer rows, appends that collide on the
sequence number, workers that die between two commits, answers and openings that
race deadlines, statuses that lead back, files replaced under a reviewer, envelopes
that no longer decrypt, surfaces that filter differently.

## 2. The modules

| module | models | lines of it to read first |
|---|---|---|
| `AppendOnlyLog` | what the ledger promises: a list that grows at its end by whole batches | `Extend` |
| `Ledger` | `append()` from concurrent sessions: tail lock, UNIQUE index, transactions, collisions, crashes | `ReadTail`, `AcquireTail`, `Insert` |
| `Tender` | one tender from draft to award with its key, bids and freeze, handled by requests on stale instances | `Save`, `Publish`, `AnswerLate` |
| `Register` | what the public reads of that tender: lists, pages, API, OCDS release, feeds, and what indicator T09 does to them | `public`, `releases`, `flags_computed` |
| `SealedBids` | envelopes, commitments, corrected identities and damage, the opening ceremony that may stop half-way | `DecryptAll`, `ReleaseKey`, `OpenTender` |
| `Evaluation` | extends `SealedBids` with committee, scores, dissents, report, recommendation and their pages | `ScoreBid`, `ComputeTotals`, `RecommendAward` |
| `Award` | `award_contract` commit by commit, interrupted, repeated and overlapping; objections | `PublishAward`, `AddUp`, `Interrupt` |
| `AwardRegister` | what ten public surfaces show of awards, contracts and sums | `RegistersAgree` |
| `Contract` | one signed contract: acceptance, payment, variations, close-out and rating by stale and interrupted requests | `CreatePayment`, `Close`, `FindEvent` |
| `Catalogue` | a purchase order from invitation to contract, commit by commit | `candidates`, `PickL1` |
| `Delivery` | extends `Catalogue` with milestones and inspections, guarantees and debriefs, and the pages and ledger that report them | `Saved`, `PublishInspection` |
| `Registration` | the registrations of one firm, their review, the supplier they make, the nightly suspension | `DecideDocument`, `CheckApproval`, `Approve` |
| `Rules` | the threshold matrix, the routing and the contents of a rating, as functions | `Highest`, `composite` |
| `Risk` | the red-flag indicators of a tender next to their published definitions, the routing and the page of the matrix | `t01`, `t03`, `rules_page` |
| `MC*` | constants and symmetry for TLC | |
| `*_proofs` | the theorems | `IInv` or its namesake in each |

`Register` extends `Tender`, `AwardRegister` extends `Award`, `Evaluation` extends
`SealedBids`, `Delivery` extends `Catalogue`, `Risk` extends `Rules`.  `Tender` and
`SealedBids` look at the same tender from two sides: `Tender` has the clock, stale
instances and every status, and honest envelopes; `SealedBids` has damaged envelopes,
corrected identities, the stops inside the ceremony, and of the statuses those between
which bids are taken, opened and scored, FROZEN included.  `Tender.AwardContract` and
`Award` overlap in the same way.

Where a property does not survive two requests on stale instances, a history variable
remembers what the code let happen, and the property says what holds until then, for any
number of requests. There are seven: `overtaken` in `Register` (dates set from dates that
had changed, a draft changed that was no draft any more, a bid filed on a tender that had
stopped taking them), `beside` in `SealedBids` (bids submitted next to opened ones),
`disturbed` in `Award`, `cut` in `Contract`, `interrupted` in `Delivery`, and `overtaken`
and `raced` in `Registration` (files put in place of one being decided on; two approvals
that have both found no supplier).

### Ledger

Three shapes of handler occur in the code, told apart by where their transaction
boundaries are: *atomic* (`submit_bid`, which logs two events in one transaction),
*split* (`Tender.publish`: the save commits, then `append` opens its own transaction)
and *log-first* (`Tender.freeze` appends, then saves).  A session goes through
`read`, perhaps `wait`, `insert` and `commit`; `save` stands before or after that as
the shape requires.  `Crash` may strike at any of them.

Two facts about PostgreSQL carry the module.  A session that waits for the tail's row
lock at READ COMMITTED re-reads *that row* when it gets the lock; since the row has
not changed, it is returned although a newer tail has been committed
(`AcquireTail` leaves `last` alone).  And an insert whose `seq` another open
transaction has inserted waits for that transaction (`Insert` is disabled), then
fails or goes on (`Collide`, `Insert`).  The hash is represented by what it covers, so
a digest equal to another means equal history.

### Tender and Register

A request is `Load` followed by one handler, with any steps of other requests and of
the clock between the two.  `submit_bid` takes two steps, because it looks at the clock twice:
`FindOpen` asks `is_open`, `SubmitBid` compares and stamps, and `submitting` holds the requests
in between.  `Save` is the row update with the CHECK constraints of
the table and the two receivers of `workflow/signals.py`.  `Publish` writes the whole
stale instance; the other handlers name their columns.  Days are integers; the 21 or
42 days of a threshold rule, the 3-day Q&A lead and the 7-day extension are constants.
Included as the code has them: `open_bids` and `unseal_bids` look at neither status nor
clock; `FROZEN` leads back to three statuses wherever the tender was frozen; nothing
reads `frozen_until`; `opening_at` does not move when the deadline does.
`MarkBid` is done by staff in the admin panel, and the module says what is assumed of them.

`Register` adds the column `immutable_from` and the history `overtaken`, and otherwise only
operators: each names the view, serializer or feed it stands for and evaluates that
surface's own condition on the state. `flags_computed` is where a surface computes the
indicators, and fails with them.

### SealedBids and Evaluation

A commitment covers the bidder's identity, so an identity is the number of its corrections
and a commitment the identity at submission. `ReleaseKey` is the first commit of
`unseal_bids`, `Unseal` the transaction that decrypts, `AbandonUnseal` its failure;
`OpenTender` is a save with the receiver, which swallows that failure. The ceremony can be
repeated at any time, over bids already scored, and `Transition` has the way from EVALUATING
through FROZEN to PUBLISHED, where an opened tender takes bids again. `EnterScore` is the
API's way and `ScoreBid` the service layer's; staff's marks on bids and edits of weights are
the admin panel's. `ComputeTotals` and `PublishReport` are two steps, since scores may come
in between.

### Award and AwardRegister

`award_contract` holds no transaction: `CreateAward`, `PublishAward`, `AddUp`,
`SaveTender` and `SignContract` are its commits and reads, and `Interrupt` may end a call
between any two.  `disturbed` remembers that calls overlapped or one stopped half-way.
`FileObjection` is one transaction with its freeze.

### Contract

Again one action per commit and `Interrupt` between any two: the worker dies, or
the append to the ledger raises (`apps/ledger/services.py:93`).  A request loads the
contract once (`Load`) and its guards look at that copy.  `certify_acceptance` and
`certify_payment` first create their certificate, then save the status
(`update_fields=["status"]`); `close_contract` saves the status, then rates unless there
is a rating; `approve_variation` saves the variation, looks for a `VARIATION` event of
its amount and creates one if there is none.  `event` counts the events per amount, since
nothing keeps two approvals from creating two.  UNIQUE columns are guards.  The contract
starts SIGNED, as `award_contract` leaves it, or ACTIVE, which only `seed_demo` and staff
write; DEFAULTED is written by nobody.  The history variable `cut` remembers that some
handler was interrupted.

### Catalogue and Delivery

`create_po` commits the order, then quote after quote from the lowest price; `award_po`
picks the lowest quote there is at that moment, whatever the order's status, and makes a
tender, an award and the contract. The catalogue's pages show a best price per SKU
(`best_price`); the order goes over the whole category, whatever the SKU (`candidates`). In
`Delivery` every handler saves a row and then appends an event; an inspection also writes a
public event in between; a debrief is checked for and then inserted.

### Registration

A request loads a draft and calls one service function.  `decide_document` takes two
steps (read the certificate; save the verdict on the row) and `approve_draft` three
(check; look the supplier up; write), because between them other requests can change
what was read.  The nightly job reads its list and then suspends one supplier after
the other.  `reviewed` holds the files a reviewer has read
and accepted.  `Contended` and `Rival` bound where requests overlap.
All drafts are complete and belong to one firm, so that the RC number is common to
them; CAC stands for CAC and TIN, which every firm needs, PENCOM for the certificate
that depends on the number of employees.

### Rules and Risk

Pure computations.  A behaviour of `Risk` is one input (a tender for its bids, a tender
for its value and matrix, or the record of a closed contract), and the invariants compare
what the code computes with a definition written from what the site publishes about it
(`INDICATORS`, the page of the matrix).  Where the code reads less than the definition
names, the definition stands in full in the comment and the operator says what is left out:
T03 compares floors of the rule's class only, T06 neither addresses nor bank accounts.
Of a matrix nothing is assumed but what the table enforces (`uniq_threshold_band`,
`threshold_non_negative`).

## 3. The runs

| run | question | bounds | outcome |
|---|---|---|---|
| `ledger` | Does the chain survive every interleaving, collision and crash? Do readers see a log that only grows? Does every request end? | 3 sessions; 2 atomic facts of 2 events, 1 split, 1 log-first | holds |
| `tender` | What survives two requests on stale instances, every order of handlers: advert period, Q&A window, late bids, sealed envelopes after opening, early prices, awards before the opening, records that vanish | 2 requests, 1 bidder, 3 days | holds |
| `open_lists` | Do the headline count and the lists agree on what is open? | 1 request, 3 days | no |
| `register_outage` | Is what is public shown? | criteria with one of T09's words, 2 bidders, 3 days | no |
| `evaluation` | Do bids open together and stay explained, scores stand, reports and recommendations rest on the record, through damage, corrections, freezes and repeated ceremonies? | 2 bids, one of them examined; 2 criteria; 1 member and the DG; one mark and weight | holds |
| `award` | Do contracts follow published awards and objections their window, and do the surfaces agree? | 2 calls, 2 bids, awards and references, 1 objection, 2 days | holds |
| `contract` | Certificates behind the status, no early rating, no lost rating, growth that agrees with the approvals | 3 requests, 2 certificate references, 3 variations | holds |
| `contract_growth` | Is every variation published? | the same, 1 request | no |
| `desk` | Does the best price win, and do pages, public events and ledger agree? | 2 staff, 4 items of 2 SKUs and 3 suppliers, 2 awards, one milestone, guarantee and debrief | holds |
| `registration` | One supplier, attributable verifications, suspensions that happen | 2 requests overlapping on the first draft, single requests on the second; 2 certificates, 2 days | holds |
| `registration_docs` | Is a firm only approved with every required certificate accepted? | 1 request, 2 drafts, 3 certificates | no |
| `indicators` | Do the flags mean what is published, name the right authority, and are grades earned? | 4 bids around the 0.5% limit of up to 4 suppliers; values around the floors of three-band matrices of two classes and years, and of the demo data's; all small records | holds |

Why the bounds are enough. Three sessions are the least with which one waits for a lock
while another waits for the index entry of the session that holds it; two events per
transaction are what the code's longest handler logs; one fact of each shape meets every
other, and the second atomic fact lets a retry meet a commit. In `tender` the three days
hold an advert period of one, a deadline that passes between the two looks at the clock, an
extension and the day after it; both requests run every handler on instances of any age, and
one bid is enough for each property to fail, since all are about single bids. Back-dated
drafts occur in `register_outage` only: such a draft, opened without being published, was
never checked for its advert period. In `evaluation` the second bid is there to be damaged,
rejected or filed beside the first while that is scored; no property looks at the height of
a mark or at a weight. In `award` two calls can hold two awards of equal amounts, so that
only their number tells a total that was added up too early. In `desk` one catalogue has its
cheapest item last and alone of its SKU, the other a supplier twice among the three lowest
prices. In `registration` both drafts are of a small firm, the old CAC certificate lapses
and the new one does not; requests overlap on the first draft while the second is untouched,
and both drafts go on with one request at a time, which is where a renewal meets the
supplier and the nightly job. In `registration_docs` the first draft is of a firm that needs
a PenCom certificate too. In `contract` three requests let one act on a copy two statuses
old while another is between two writes. `indicators` has an amount just inside, on and just
outside T01's limit, a supplier that bids twice, and matrices with overlaps, gaps, ties,
retired bands, two classes and two years. Except for liveness, the theorems of section 4
cover all other numbers.

Symmetry is declared only where the elements are interchangeable, and never in a run with a
liveness property.  `CHECK_DEADLOCK FALSE` is set where the clock's bound stops the
model, no request need ever come, or a behaviour is one input; in `Ledger`, where a
deadlock would mean sessions blocking one another, it is not set, and `Quiesce` marks the
states in which all work is done.

### What the negative runs show

* `open_lists`.  `TenderQuerySet.open()` (`models.py:50-60`) takes CLARIFYING for open, and the
  headline count uses it; the register and the API asked for open tenders
  (`procurement/views.py:139`, `api/views.py:87`) and the RSS feed filter for PUBLISHED.  The
  comment at `procurement/views.py:56` says they "can never disagree", and so do
  `workflow/views.py:790`, `api/views.py:279` and `tests/test_metrics_integrity.py:159`.
* `register_outage`.  T09, inside `evaluate_tender` (`procurement/risk.py:216-247`), filters
  scores on a field they do not have.  An opened tender with a bid and a criterion that holds a
  word like "model" then answers 500 on its page, in the API and in the release feed, against
  `models.py:47`, "Everything a member of the public is entitled to see, all the time".
* `registration_docs`.  `_unapproved_required_docs` filters the documents that exist, and
  `remove_doc` (`apps/workflow/views.py:197`) deletes them in every status.
* `contract_growth`.  Variations of +6 and +6 give one event of +6, and `variation_pct` sees
  half of the growth.  No interruption and no second request is needed.

### Seen while modelling, and not given a run

The lifecycle:

* The comment at `apps/ledger/services.py:75` claims more than the tail lock gives.  The
  chain is kept intact by the UNIQUE index (`ChainIntact` holds, and fails without the
  index); the price is a failed request, and a split handler's row without its event.
* A stale `publish` undoes every change made since it loaded the draft, and a stale answer can
  move the deadline back, after which a bid can be later than the deadline; a request that took
  the tender for a draft can still cancel it.  `NoLateBid` and `FoundEverywhere` leave exactly
  these out.  `submit_bid` goes on filing on a tender that another request has closed or
  opened since it looked, and the envelope stays sealed (`OpenedMeansUnsealed`).
* A late answer leaves a tender that `full_clean()` refuses, since `opening_at`
  (`models.py:226`) stays behind the new deadline (`models.py:464`); it can be neither
  closed nor transitioned until somebody edits `opening_at`.
* The ten days of `frozen_until` (`models.py:366`) are written and never read: opening,
  unsealing and award take a frozen tender on.
* The commitment root is computed once; EVALUATING, FROZEN, PUBLISHED reopens submissions
  behind it, on a tender that is opened already, and what is filed then is sealed with a key
  that is released (`UnsealedTogether` leaves those bids out).  PUBLISHED, FROZEN, EVALUATING
  is a legal path too: the committee can be formed at its end though no bid was opened
  (against README.md:11), and in FROZEN already `score_bid` and `enter_score` accept scores of
  sealed bids.
* A tender taken public by `transition()`, or without a deadline, has a release that fails
  validation; `TERMINATED` hides prices that the page and the release had shown; a tender
  frozen before its opening is captioned as if it had been opened.
* The key is released while the tender may still be PUBLISHED; bids that stayed sealed after
  a failed automatic opening can be scored. `score_bid` overwrites a mark
  (`services.py:534`) that `services_phases.py:69-70` calls immutable. Criteria can be
  reweighted at any time, though two templates say they are locked.

Awards and contracts:

* The contract may be signed inside the objection window; UPHELD has no effect on the award;
  `decide_objection` overwrites an earlier outcome; panels are created without members.
* After a stop between creation and publication of an award, the API, the dump and the
  release show an award the award page withholds (hence `Quiet` in `RegistersAgree`).
* `score_bid`, `recommend_award`, `award_contract`, `create_po`, `award_po` and
  `release_guarantee` are called by no handler of the API.
* Two acceptances at once, or a retry of an interrupted one, leave two certificates, and
  stale requests can certify a payment on each; a stale acceptance or payment sets a CLOSED
  contract back.
* After two concurrent approvals have created two events of one amount, every later
  approval of that amount is saved and then fails in `get()`; `approve_variation` approves
  whatever the variation's status was.
* The valid guarantee that the docstring of `PaymentCertification` asks for is not checked
  before a payment.  A closed contract whose rating was interrupted waits for somebody to
  run `contract_ops --rate-all`.
* An order that `create_po` refuses for want of three quotes stays, and `award_po` awards it
  on one, with the published reason "L1 of at least 3 comparable quotes"
  (`services.py:673`); the three items invited may be of three SKUs, and then the order of
  one thing is priced at another's best price. A repeated `award_po` publishes a second
  award and leaves the order AWARDED.
* Two inspections of one milestone may publish their verdicts in the opposite order of
  their saves; no handler lets a debrief become OVERDUE.

Registration, rules and figures:

* Two concurrent approvals create two suppliers of one RC number; an upload that loaded its
  draft while it was still DRAFT replaces the file on a row that `decide_document` is about to
  mark ACCEPTED.  `OneSupplier` and `PassedMeansReviewed` leave exactly these out.  A stale
  `save_draft_step` resets a submitted or decided draft to DRAFT, and the nightly job suspends
  a firm renewed since it read its list; nothing is claimed there.
* The re-verification notice tells active suppliers to re-register, which `submit_draft`
  refuses until they are suspended.  `save_draft_step` has a line that reopens a rejected
  draft (`services.py:119`), but `_assert_editable`, which it calls first, lets only DRAFT pass
  (`services.py:106`); a rejected draft can only be submitted again as it is.
* `determine_body` ignores year, method and class, and of bands with one floor takes whichever
  the database returns first; with an older year left active its body may not be the one the
  page of the year shows.  An approval of a tender with a rule of
  its own is published as correct whatever its value, and one without any rule always asks
  for the accounting officer.
* T11's own table of days knows no "SHOP" (it is spelled SHOPPING there); T06 names addresses
  and bank accounts and compares neither, and tells bidders apart by their names;
  T03 looks at the class of the tender's rule only;
  T05, T07, T08, T10 and T12 are published and never shown.
* Negative growth lifts a variation score above 100; nothing records what would lower
  timeliness.
* `suppliers.html` counts under "Awards" the awards of every tender bid on; `mda_detail`
  lists awards of any status and looks for a contract status that does not exist, so its
  completion is always 0.

### Properties worth a word

* `RowsAndEventsAgree` says what *each shape* of handler may leave behind: an atomic one
  both or neither, a split one never an event without its row, a log-first one never a
  row without its event.
* `LogOnlyGrows` is the refinement: `Ledger` implements `AppendOnlyLog` under the mapping
  that orders the rows by `seq`, so an event committed later is never read in front of
  one already seen.
* `AdvertPeriodKept` and `QuestionsCloseFirst` hold even with stale instances, because
  extensions are computed forwards from some deadline that was once clean.
* `PricesAfterOpening` and `FoundEverywhere` quantify over the surfaces: no order of
  freezing, reopening, opening and unsealing makes any one of them show a price early or
  drop a tender that went public.
* `UnsealedTogether` holds because one damaged envelope rolls back the whole decryption,
  and every opening goes over all the bids there are.
* `ReportBacked` allows what the code does (totals older than the report) and forbids what
  would be wrong (a report that claims more than there is).
* `RegistersAgree` compares four different selections of the award rows behind ten surfaces,
  and the sums each computes for itself.
* `StatusBacked` and `RatedAfterAcceptance` hold although each handler trusts a copy of
  any age, because certificates are never withdrawn; what does not hold, and is not
  claimed, is that the status only moves forwards.
* `OpenedMeansUnsealed` holds for two requests because every way of writing OPENED unseals in
  the same transaction or in the receiver, also when the other request's save came between.
* `L1Wins` holds even if `award_po` runs while `create_po` still adds quotes, because the
  cheapest item of the category is invited first, and it is the best of its SKU.
* `FlagNamesEscapedBody` relates three computations that do not share code: the indicator,
  the routing and the page of the matrix, over any matrix the table accepts.
* `LapsedGetSuspended` is liveness: active on a lapsed certificate does not last.

### Fairness

`Ledger`: weak fairness of each session's next step.  A running worker goes on, and
PostgreSQL wakes a waiter when the transaction it waits for ends.  Nothing makes a
request start, and a crash is never required nor excluded.  `Registration`: weak
fairness of the nightly job, which cron starts every day and which runs to the end of
its list.  No fairness is assumed of vendors or reviewers.  The other modules state no
liveness: their steps are somebody's decisions, and an interrupted handler is not resumed
by anything.

## 4. What is proved

All theorems hold for every value of the constants that meets the named assumptions of the
module they are about.

`Ledger_proofs` (`LedgerType`, `ChainStaysIntact`, `RowsAgreeWithEvents`, `LedgerIsALog`).
`ChainIntact` is not inductive: that an insert fits the committed rows depends on what
sessions hold uncommitted. `IInv` adds that rows plus any session's pending rows form a
chain (`Chain`), that at most one session has pending rows (`OneInserter`, the work of the
UNIQUE index), that what a session has read is a row it can see, and that a fact's events
belong to the session working on it. `ChainExtends` is the central lemma: a chain plus an
event numbered behind its tail is a chain. Assumed: the three kinds of fact are disjoint and
a transaction logs at least one event.

`LedgerIsALog` is the refinement of `AppendOnlyLog`: Init maps to the empty log, and every
step to a step or a stutter.  Only a commit changes what the mapping reads, the committed
rows in the order of `seq`.  A chain's numbers are 1..n for its n rows (`ChainCount`), so a
row's number is its place in the history (`HistoryRows`), the committed history is the
beginning of the new one (`CommitExtends`), and what is new is no longer than one
transaction's quota of events (`BatchInv`).

`Tender_proofs`, for any number of concurrent requests (`TenderType`,
`NoAwardBeforeOpening`, `AdvertisedLongEnough`, `QuestionsInTime`). `BidInv` relates the
status of bids to their prices, the key and the opening. For the dates a common bound is
needed because two rows exist, the stored one and each instance: `DateInv` says that there
is *one* deadline `c` all of them were clean with, or are extensions of (`DatesFit(c)`), and
that nothing but drafts exists before the key does (`Drafted`). The last two of these assume
`BackDates = {}`: drafts carry no publication date of their own, as the application's own
forms leave it (`seed_demo` does enter such dates). Without it, `open_bids` may act on a
draft whose dates were never checked.

A step of `Register` is a step of `Tender` (`RegisterRefinesTender`), so the same invariants
carry over to the surfaces: `PricesStaySealed`, because a surface that shows a price reads it
from an opened bid.

`NoneLeftSealed`, `EveryBidInTime` and `PublicStaysServed` are about any number of concurrent
requests as well, with invariants that hold until `overtaken` says that a stale instance has
done what the property leaves out.  `Changes` and `Quiet` sort the steps into those that save
a row and those that leave it.  `SealInv` says that no tender is OPENED over a sealed bid.
`LateInv` says that no request has loaded a later deadline than the tender's, and `NowInv` that
nothing is published in the future.  `PublicInv` says that a public tender has an estimate and
is not cancelled, and that the deadline lies behind the publication, in the row and in what
requests have loaded.  `EveryBidInTime` and
`PublicStaysServed` assume `BackDates = {}`, and the latter `~Branded`, the failure
that `register_outage` shows.

`Evaluation_proofs` (`EvaluationType`, `BidsOpenTogether`, `RejectionsExplained`,
`RecommendationsBacked`, `ReportsBacked`, `ScoresAreKept`). The argument is that nothing the
properties count is ever taken away: `Grows` says so of bids' openings and prices, scores,
dissents and members, and is shown of every step (`StepGrows`). `BidInv` says what the row
of a bid tells of its opening, and `Together` that one opened bid means all, but those
`beside` it. Assumed: users and criteria are finite, and the DG is not among the committee's
candidates.

`Award_proofs` (`AwardType`, `NoContractBeforeNotice`, `ObjectionsOnTime`,
`RegistersStayEqual`). `IInv` says that a call works on an award that no other call and no
contract has (`HeldAlone`), which it has published before it goes on (`CallPublished`), and
that no window is open for longer than `OBJECTION_DAYS` from today (`WindowsEnd`).

`RegistersStayEqual` needs what calls leave behind as long as none was interrupted or
overtaken: `CalmInv` says that every award is being made or is published and has its contract
(`Accounted`), and that the sum a call has added up is still that of the awards when it is
saved and afterwards (`SumKept`).  The surfaces then select the same rows, but they add up
different ones.  `MapThenSumSet` is defined by a recursion over a set, and the library's
induction theorems take a predicate as parameter; `SetOfNumbers` and `SetOfSubsets` state
induction for a *set* of numbers or of subsets instead, which the provers can use.  From them
follow that the recursion has one solution, in whatever order it takes the elements, that
sums one for one are equal (`TotalOneForOne`, contracts and awards), and that a sum is that of
its parts (`TotalByPart`, suppliers).  Assumed: the rows are finitely many.

`Contract_proofs` (`ContractType`, `CertificatesBackStatus`, `NoRatingBeforeAcceptance`,
`ClosingRates`, `VariationsArePublished`).  `StatusBacked` is not inductive, since a request
may save a status it decided on long ago.  `RequestBacked` says of each request that the
certificates its next write stands for exist, because it saw or made them, and certificates
are never removed; `KeepsBacking` is the step of that argument all handlers share.
`GrowthInv` adds that only approved variations are being published.

`Delivery_proofs` (`LowestPriceWins`, `PagesOnRecord`). The first quote of an order is the
cheapest item's and quotes stay (`QuotesInv`), so the lowest quote is the lowest price of
the category at any moment, and that is the best price shown for its SKU
(`CheapestIsShown`); `RecordInv` says what each handler has still to write.

`Registration_proofs` (`RegistrationType`, `OneSupplierPerFirm`, `VerificationsReviewed`), for
any number of concurrent requests on drafts of any age.  `ApprovingInv` says that, until two
approvals have both found none, an approval that has found no supplier is right and alone;
`DecidingInv` that the file a reviewer has read is the one that is there, or one `overtaken`
it; `AcceptedRead` that accepted certificates were read by a reviewer, or overtook the reading.

`Risk_proofs` (`AuthoritiesAgree`, `GradesAreEarned`, `FlagsMeanWhatIsPublished`).  The first
is about every matrix the database accepts: bands of any years, methods and classes that
overlap, tie or are empty (`RoutedAtFloor`, `CorrectApproval`); the second about every record
of a contract.

`FlagsMeanWhatIsPublished` is about every tender, however many bids, awards, bands and
shared details it has. Any three amounts close to one another enclose three neighbours in
the sorted sequence (`ClusterFound`), no floor within 1% of the value lies behind the next
one above it (`BoundaryFound`), and two bidders of different names with one detail make it a
detail that two names share (`SharedFound`). `Tallies` is the induction over the hits: after
`k` of them the findings name the codes of those hits, each once, with `k` occurrences in
total. The model states the sort as what `sorted()` returns, an order of the bids in which
amounts do not fall (`InOrder`), because the prover has no definition of `SortSeq`;
`SortExists` proves that there is one. Sums and merging are folds, which the inductions over
sets make usable (`FoldExists`: the recursion behind a fold has a solution). Assumed:
`WellFormed`, so amounts count kobo and none is negative. No line of the code refuses a
negative bid, and T01 divides by the lowest of a window, so that of three bids a negative
one would raise it whatever the others are.

Only model-checked: liveness (`EveryRequestEnds`, `LapsedGetSuspended`), which is out of the
prover's reach.

## 5. What is not modelled

* Login codes and TOTP decide who may call a handler; every handler is modelled as called by
  somebody entitled to.
* Owners, company fields and RC-number checks of a registration, lots, tender documents and
  clarifications other than the late answer: validation of single fields.
* Receipts of bids and the custodians' shares of a key, which the code does not use to open;
  amounts of payment certificates; panel members, which nothing fills.
* Planning, reverse auctions, defects and close-out records: no handler of the site writes
  their tables, and `models_planning.py` is imported by nothing.
* Notifications, watches, translations and whistleblower intake: single inserts that nothing
  reads back.
* Filters, paging, wording and layout of pages, identifiers and formatting in OCDS releases;
  PDF, storage and middleware, which are input and output without state of their own.
* T05, T08 and T12, computed by functions that nothing calls, and T07 and T10, computed by
  none.
* Free edits in the Django admin, which can set any column to anything, except the three
  that the process relies on: marking a bid, correcting an identity, editing a weight.

## 6. What could follow

`Award` started from the states `Tender` leaves, in one specification; login codes.
