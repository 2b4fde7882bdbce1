------------------------------ MODULE Register ------------------------------
(***************************************************************************)
(* What the public reads of the tender: the register and its exports, the  *)
(* tender's page, the API, the OCDS release and the feeds                  *)
(* (apps/procurement/views.py, api, ocds, feeds.py, apps/workflow/views).  *)
(*                                                                         *)
(* Nothing is stored for these readers: each computes what it shows from   *)
(* the rows at that moment, with conditions of its own.  Filters a reader  *)
(* may set, paging, sorting and wording are left out; what counts is       *)
(* whether the tender is served, as open or not, and with which prices.    *)
(* Awards have a value and reasons, as Award.clean() demands.              *)
(***************************************************************************)
EXTENDS Tender

CONSTANT
  Branded  \* the published criteria hold one of the words T09 looks for

ASSUME BrandedAssumption == Branded \in BOOLEAN

VARIABLES
  immutable_from,  \* whether the column is set in the row
  overtaken        \* history: how requests have acted on what had changed since they looked

registerVars == <<vars, immutable_from, overtaken>>

RegisterInit == Init /\ immutable_from = FALSE /\ overtaken = {}

Ends(p) == instance[p] # NoInstance /\ instance'[p] = NoInstance

Period(t) == <<t.published_at, t.submission_close_at>>

\* A request has set the tender's dates from dates that were not the tender's any more.
SetsDates(p) == Period(instance[p]) # Period(tender) /\ Period(tender') # Period(tender)

\* A request has changed the tender, which it took for a draft.
ActsOnDraft(p) == instance[p].status = "DRAFT" /\ tender.status # "DRAFT" /\ tender' # tender

\* A request has filed a bid on a tender that had stopped taking bids.
FilesBid == tender.status # "PUBLISHED" /\ \E s \in Supplier : bid[s] = NoBid /\ bid'[s] # NoBid

Overtaken ==
  \E p \in Proc : /\ Ends(p)
                 /\ overtaken' = overtaken \cup (IF SetsDates(p) THEN {"dates"} ELSE {})
                                            \cup (IF ActsOnDraft(p) THEN {"draft"} ELSE {})
                                            \cup (IF FilesBid THEN {"bid"} ELSE {})

\* Tender.save() sets the column on the instance; only publish(), which saves every
\* column, writes it.
RegisterNext ==
  /\ \/ (\E p \in Proc : Publish(p)) /\ immutable_from' = TRUE
     \/ Others /\ UNCHANGED immutable_from
  /\ \/ Overtaken
     \/ (\A p \in Proc : ~Ends(p)) /\ UNCHANGED overtaken

RegisterSpec == RegisterInit /\ [][RegisterNext]_registerVars

Bidders == {s \in Supplier : bid[s] # NoBid}

-----------------------------------------------------------------------------
(* Which tenders are shown, and which as open. *)

\* TenderQuerySet.public() and open().
public == tender.status \notin {"DRAFT", "CANCELLED"}
open == tender.status \in {"PUBLISHED", "CLARIFYING"} /\ tender.submission_close_at > now

\* What counts or lists with open(): the headline figures, the landing page, the
\* agent desk.
live_metrics == [open_tenders |-> public /\ open, published_all_time |-> public]
home_upcoming == open
agent_desk == public /\ open

\* What has a filter of its own: the register with open=1 (and its CSV file), the API
\* with open=1, the RSS feed, the page that takes bids.
show_open == public /\ tender.status = "PUBLISHED" /\ tender.submission_close_at > now
api_open == public /\ tender.status = "PUBLISHED" /\ tender.submission_close_at > now
TendersFeed == tender.status = "PUBLISHED" /\ tender.submission_close_at > now
bid_submit_page == public /\ is_open(tender)

-----------------------------------------------------------------------------
(* Which prices are shown. *)

\* The statuses that reveal amounts on the page and in the release.
reveal == tender.status \in {"OPENED", "EVALUATING", "AWARDED", "CONTRACTED", "FROZEN"}
Priced == {s \in Bidders : bid[s].priced}

page_prices == IF public /\ reveal THEN Priced ELSE {}
\* The API's record states `reveal` beside the amount, and shows the amount anyway.
api_prices == IF public THEN Priced ELSE {}
\* So do the ledger's bid.unsealed events, on the page and in the API.
event_prices == IF public THEN Priced ELSE {}

submissions == [s \in Bidders |-> [value |-> reveal /\ bid[s].priced,
                                   valid |-> reveal \/ bid[s].status # "RECEIVED"]]

-----------------------------------------------------------------------------
(* The release and its validation; a validation error is an answer of 500. *)

tender_stage ==
  [status |-> CASE tender.status = "TERMINATED" -> "cancelled"
                [] tender.status \in {"PUBLISHED", "CLARIFYING"} -> "active"
                [] OTHER -> "complete",
   value |-> tender.est_value,
   startDate |-> tender.published_at,
   endDate |-> tender.submission_close_at]

releases_for == [tender |-> tender_stage, parties |-> Bidders, submissions |-> submissions,
                 immutableFrom |-> immutable_from]

\* Both dates of the period are required.
structural_errors(r) == r.tender.startDate = NULL \/ r.tender.endDate = NULL
semantic_errors(r) ==
  ~r.tender.value \/ r.tender.endDate <= r.tender.startDate \/ ~r.immutableFrom
validates(r) == ~structural_errors(r) /\ ~semantic_errors(r)

\* Indicator T09 filters scores on a field they do not have as soon as a criterion
\* with one of its words meets a bid.
flags_computed ==
  Branded /\ tender.status \in {"OPENED", "EVALUATING", "AWARDED", "CONTRACTED"} => Bidders = {}

\* Where the tender is served.
tender_list == public
tender_export_csv == public
tender_detail == public /\ flags_computed
api_tender == public /\ flags_computed
api_flags == public /\ flags_computed
indicators_page == public => flags_computed
tender_ocds == public /\ flags_computed /\ validates(releases_for)
releases(validate) == public /\ flags_computed /\ (validate => validates(releases_for))
bulk == public /\ tender.published_at # NULL /\ flags_computed

-----------------------------------------------------------------------------
\* No reader sees the price of a bid before the public opening, on whichever surface
\* and in whatever order the tender is frozen, reopened, opened or unsealed; the API and
\* the ledger's events show amounts whatever the tender's status is.
PricesAfterOpening ==
  page_prices \cup api_prices \cup event_prices
    \cup {s \in DOMAIN submissions : submissions[s].value} # {} => opened /\ key = "released"

\* However requests interleave, no bid on the record is later than the deadline or earlier
\* than the publication, even after the deadline has moved, unless publish() or an answer
\* has set the tender's dates from dates that another request had changed meanwhile.
NoLateBid ==
  "dates" \notin overtaken =>
    \A s \in Bidders : /\ tender.published_at <= bid[s].submitted_at
                      /\ bid[s].submitted_at <= tender.submission_close_at

\* However requests interleave, no envelope is left sealed on an opened tender, by
\* whichever of the handlers it came to be opened, unless submit_bid went on filing a bid
\* on a tender that had stopped taking them.
OpenedMeansUnsealed ==
  "bid" \notin overtaken /\ tender.status = "OPENED" => \A s \in Supplier : ~Sealed(s)

\* However requests interleave, what went public is served ever after, on every surface:
\* nothing hides it, drops it from the yearly dump, or leaves it with a release that does
\* not validate, provided publish() made it public and it has a deadline; unless a request
\* that took it for a draft still changed it.
FoundEverywhere ==
  WentPublic /\ "draft" \notin overtaken =>
    /\ tender_list /\ tender_export_csv /\ tender_detail /\ api_tender /\ api_flags
    /\ indicators_page /\ bulk /\ releases(FALSE)
    /\ immutable_from /\ tender.submission_close_at # NULL => tender_ocds /\ releases(TRUE)

\* procurement/views.py:56, "Same definition the register's "open for bids" filter uses, so
\* the headline count and the filtered list can never disagree", and workflow/views.py:790,
\* "the single definition of "can still be bid on", shared with the register".
OpenListsAgree ==
  show_open = live_metrics.open_tenders /\ api_open = live_metrics.open_tenders

\* models.py:47, "Everything a member of the public is entitled to see, all the time".
PublicMeansShown == public => tender_detail /\ api_tender
=============================================================================
