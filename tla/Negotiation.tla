----------------------------- MODULE Negotiation -----------------------------
(***************************************************************************)
(* The negotiations of a cycle with the central: a proposal to give or to  *)
(* take energy, its answers, its confirmation, which moves the energy, and *)
(* its payment, which moves the money.                                     *)
(*                                                                         *)
(* Rows of the outbox are published as Outbox shows: again and again until *)
(* the result is recorded, which may be late; a row that was stopped may   *)
(* still be in the connector's hands.  The central's messages arrive in    *)
(* any order; each is handled once (Consumer), but the central may say the *)
(* same again with new ids.  Every transaction here holds the city's       *)
(* advisory lock, so each is one step.                                     *)
(*                                                                         *)
(* The central is taken to refuse only what it has not confirmed, and to   *)
(* confirm what was asked at the settlement price.                         *)
(***************************************************************************)
EXTENDS Totals, Sequences

CONSTANTS
  Books,     \* sequences of deals [dir, qty] that the operator may propose
  Spare,     \* generationCapacity - consumption
  MaxPosts,  \* bound of the rows of proposals and payments
  MaxSaid    \* bound of the central's messages about a deal, less two for
             \* each further deal

ASSUME NegotiationAssumption ==
  /\ \A b \in Books : b \in Seq([dir: {"give", "take"}, qty: Nat, theirs: BOOLEAN])
  /\ {Spare, MaxPosts, MaxSaid} \subseteq Nat

VARIABLES
  deals,   \* the deals that are asked for
  nego,    \* Negotiation rows, by deal; "booked" and "paid" count their entries
  posts,   \* OutboundMessage: proposals and transfers, by id
  said,    \* what the central sent: [of, kind, about], "about" ending in the
           \* number of the repetition where it may repeat itself
  heard,   \* which of it the master handled
  taken,   \* which confirmations it took (InboundMessage PROCESSED or DUPLICATE)
  cycle    \* the window that the clock is in, and Cycle.scheduler_state

negotiationVars == <<deals, nego, posts, said, heard, taken, cycle>>

Deals == DOMAIN deals
OPEN_STATES == {"PENDING_PUBLICATION", "PROPOSED", "ACKNOWLEDGED"}
REFUSABLE == OPEN_STATES \cup {"TIMEOUT"}

\* latest_msg_id: of a row, of a message of the central, or of another city.
Latest(kind, of) == [kind |-> kind, of |-> of]
NoDeal == [status |-> "none", latest |-> Latest("none", <<>>), due |-> FALSE,
           booked |-> 0, paid |-> 0]

NegotiationInit ==
  /\ deals \in Books
  /\ nego = [d \in DOMAIN deals |-> NoDeal]
  /\ posts = <<>> /\ said = {} /\ heard = {} /\ taken = {}
  /\ cycle = [window |-> 0, state |-> "PENDING"]

\* A row: whether it is still to be published, and whether the broker has it.
Post(d, kind) == [of |-> d, kind |-> kind, dispatch |-> TRUE, out |-> FALSE]

-----------------------------------------------------------------------------
(* negotiation_state.transition_negotiation and negotiation_rules.         *)

ORDER == <<"PENDING_PUBLICATION", "PROPOSED", "ACKNOWLEDGED", "CONFIRMED", "PAID">>
Rank(status) == CHOOSE i \in DOMAIN ORDER : ORDER[i] = status
Ordered == {ORDER[i] : i \in DOMAIN ORDER}

Allowed(status) ==
  CASE status = "PENDING_PUBLICATION" -> {"PROPOSED", "ACKNOWLEDGED", "CONFIRMED", "REJECTED",
                                          "TIMEOUT"}
    [] status = "PROPOSED"     -> {"ACKNOWLEDGED", "CONFIRMED", "REJECTED", "TIMEOUT"}
    [] status = "ACKNOWLEDGED" -> {"CONFIRMED", "REJECTED", "TIMEOUT"}
    [] status = "CONFIRMED"    -> {"PAID", "TIMEOUT"}
    [] status = "TIMEOUT"      -> {"CONFIRMED", "REJECTED", "PENDING_PUBLICATION"}
    [] OTHER                   -> {}

\* It is there already, or an old answer would take it back: nothing is done.
Stale(from, to) ==
  \/ from = to
  \/ from \in {"TIMEOUT", "REJECTED", "PAID"} /\ to \in {"PROPOSED", "ACKNOWLEDGED"}
  \/ from \in Ordered /\ to \in Ordered /\ Rank(to) < Rank(from)

\* Neither ignored nor allowed raises, and the transaction is rolled back.
CanMove(n, to) == Stale(n.status, to) \/ to \in Allowed(n.status)

\* Mutant: an ACK ends the wait.
AckStopsClock(n, dir, to) ==
  CASE to = "PROPOSED"  -> TRUE
    [] to = "CONFIRMED" -> dir = "give"
    [] to = "TIMEOUT"   -> n.due
    [] OTHER            -> FALSE

\* Whether the row has a deadline once it is in the new status.
DueIn(n, dir, to) ==
  CASE to \in {"PROPOSED", "ACKNOWLEDGED"} -> TRUE
    [] to = "CONFIRMED" -> dir = "give"
    [] to = "TIMEOUT"   -> n.due
    [] OTHER            -> FALSE

Moved(n, dir, to) == IF Stale(n.status, to) THEN n
                     ELSE [n EXCEPT !.status = to, !.due = DueIn(n, dir, to)]

\* sold_energy and remaining_sellable_energy.
SoldBy(d) == IF deals[d].dir = "give" THEN nego[d].booked * deals[d].qty ELSE 0
Sold == Total([d \in Deals |-> SoldBy(d)])
WithinSpare(d) == deals[d].dir = "give" => deals[d].qty + Sold <= Spare

\* The rows with no proposal of d left to publish (stop_proposal_dispatches).
StopProposals(ps, d) == [r \in DOMAIN ps |->
  IF ps[r].of = d /\ ps[r].kind = "proposal" THEN [ps[r] EXCEPT !.dispatch = FALSE] ELSE ps[r]]

-----------------------------------------------------------------------------
(* The city.                                                               *)

\* Mutant: the end of the cycle still belongs to it.
OpenAtEnd == cycle.window <= 2
Open == cycle.window < 2

\* create_negotiation: asked again with the same idpk, it returns the
\* negotiation that is there.
Unasked(d) == nego[d].status = "none" /\ ~deals[d].theirs

\* enqueue_negotiation_proposal
Propose(d) ==
  /\ Unasked(d)
  /\ Open /\ cycle.state # "CLOSED" /\ WithinSpare(d)
  /\ Len(posts) < MaxPosts
  /\ posts' = Append(posts, Post(d, "proposal"))
  /\ nego' = [nego EXCEPT ![d].status = "PENDING_PUBLICATION",
                          ![d].latest = Latest("post", <<Len(posts) + 1>>)]
  /\ UNCHANGED <<deals, said, heard, taken, cycle>>

\* A proposal that another city sent here is kept as if it were published.
HearProposal(d) ==
  /\ nego[d].status = "none" /\ deals[d].theirs
  /\ nego' = [nego EXCEPT ![d].status = "PROPOSED", ![d].due = TRUE,
                          ![d].latest = Latest("theirs", <<>>)]
  /\ UNCHANGED <<deals, posts, said, heard, taken, cycle>>

\* process_cycle_windows
NextState ==
  CASE cycle.window = 2 -> "CLOSED"
    [] cycle.window = 1 -> "REPORT_WINDOW"
    [] cycle.window = 0 -> "NEGOTIATING"

\* process_expired_negotiations, for the deals X whose deadline has passed.
Expirable == {d \in Deals : nego[d].due /\ nego[d].status \in OPEN_STATES \cup {"CONFIRMED"}}
Swept(X) == [d \in Deals |->
  IF d \in X
  THEN IF nego[d].status = "CONFIRMED" /\ deals[d].dir = "take"
       THEN [nego[d] EXCEPT !.due = FALSE]
       ELSE Moved(nego[d], deals[d].dir, "TIMEOUT")
  ELSE nego[d]]

\* Mutant: the new row is not taken for the latest.
KeepsLatest(n, r) == [n EXCEPT !.status = "PENDING_PUBLICATION", !.due = FALSE]

Reproposed(n, r) == [n EXCEPT !.status = "PENDING_PUBLICATION", !.due = FALSE,
                              !.latest = Latest("post", <<r>>)]

\* enqueue_timed_out_negotiation_retries: a new row for each, in any order.
Retries(N, state) == {d \in Deals : /\ N[d].status = "TIMEOUT"
                                    /\ Open /\ state \in {"NEGOTIATING", "REPORT_WINDOW"}}
Listed(D) == {s \in [1..Cardinality(D) -> D] : \A d \in D : \E i \in DOMAIN s : s[i] = d}

\* One pass of the scheduler, a single transaction.
SchedulerPass(X) ==
  \E again \in Listed(Retries(Swept(X), NextState)) :
    /\ Len(posts) + Len(again) <= MaxPosts
    /\ posts' = posts \o [i \in DOMAIN again |-> Post(again[i], "proposal")]
    /\ nego' = [d \in Deals |->
                  IF d \in Retries(Swept(X), NextState)
                  THEN Reproposed(Swept(X)[d],
                                  Len(posts) + CHOOSE i \in DOMAIN again : again[i] = d)
                  ELSE Swept(X)[d]]
    /\ cycle' = [cycle EXCEPT !.state = NextState]
    /\ UNCHANGED <<deals, said, heard, taken>>

\* The report window opens, the cycle ends.
WindowPasses ==
  /\ Open /\ cycle' = [cycle EXCEPT !.window = @ + 1]
  /\ UNCHANGED <<deals, nego, posts, said, heard, taken>>

-----------------------------------------------------------------------------
(* The connector, and what the master adds to a batch and to a result.     *)

\* A proposal whose cycle is over is not published any more.
Expired(r) == posts[r].kind = "proposal" /\ posts[r].dispatch
              /\ (~Open \/ cycle.state = "CLOSED")
PostDue(r) == posts[r].dispatch /\ (posts[r].kind = "proposal" => Open)

\* list_outbound_dispatch
PollPosts ==
  /\ posts' = [r \in DOMAIN posts |->
       IF Expired(r) THEN [posts[r] EXCEPT !.dispatch = FALSE] ELSE posts[r]]
  /\ nego' = [d \in Deals |->
       IF nego[d].status \in OPEN_STATES /\ \E r \in DOMAIN posts : posts[r].of = d /\ Expired(r)
       THEN [nego[d] EXCEPT !.status = "TIMEOUT", !.due = TRUE] ELSE nego[d]]
  /\ UNCHANGED <<deals, said, heard, taken, cycle>>

PublishPost(r) ==
  /\ ~posts[r].out /\ posts' = [posts EXCEPT ![r].out = TRUE]
  /\ UNCHANGED <<deals, nego, said, heard, taken, cycle>>

\* The negotiation whose latest message was published.
OnPublished(d, r) ==
  LET n == nego[d] IN
  IF n.latest # Latest("post", <<r>>) THEN n
  ELSE IF posts[r].kind = "transfer" THEN Moved(n, deals[d].dir, "PAID")
  ELSE IF n.status = "PENDING_PUBLICATION" THEN Moved(n, deals[d].dir, "PROPOSED")
  ELSE n

\* update_outbound_audit, PUBLISHED: now or whenever the result gets through.
\* For a row that is stopped, or known to be published, it changes nothing here.
Published(r) ==
  /\ posts[r].out /\ posts[r].dispatch
  /\ posts' = [posts EXCEPT ![r].dispatch = FALSE]
  /\ nego' = [nego EXCEPT ![posts[r].of] = OnPublished(posts[r].of, r)]
  /\ UNCHANGED <<deals, said, heard, taken, cycle>>

-----------------------------------------------------------------------------
(* The central.                                                            *)

Said(kind, d) == {m \in said : m.of = d /\ m.kind = kind}

Says(kind, d, about) ==
  /\ Cardinality({m \in said : m.of = d}) + 2 * Len(deals) < MaxSaid + 2
  /\ said' = said \cup {[of |-> d, kind |-> kind, about |-> about]}
  /\ UNCHANGED <<deals, nego, posts, heard, taken, cycle>>

Answers(r) ==
  LET d == posts[r].of IN
  /\ posts[r].kind = "proposal" /\ posts[r].out
  /\ \/ Says("ack", d, <<r>>)
     \/ Said("confirm", d) = {} /\ Says("refusal", d, <<r>>)
     \/ Said("refusal", d) = {} /\ \E n \in {1, 2} : Says("confirm", d, <<r, n>>)

Pays(m) ==
  /\ m.kind = "confirm" /\ deals[m.of].dir = "give"
  /\ \E n \in {1, 2} : Says("pay", m.of, m.about \o <<n>>)

-----------------------------------------------------------------------------
(* The master takes what the central said (ingest_protocol_message).       *)

Hears(kind, m) == /\ m.kind = kind /\ m \notin heard /\ heard' = heard \cup {m}
                  /\ UNCHANGED <<deals, said, cycle>>

HearAck(m) ==
  /\ Hears("ack", m)
  /\ nego' = [nego EXCEPT ![m.of] = Moved(@, deals[m.of].dir, "ACKNOWLEDGED")]
  /\ UNCHANGED <<posts, taken>>

\* nack, or error (ingest_protocol_error).
HearRefusal(m) ==
  /\ Hears("refusal", m)
  /\ IF nego[m.of].status \in REFUSABLE
     THEN /\ nego' = [nego EXCEPT ![m.of] = Moved(@, deals[m.of].dir, "REJECTED")]
          /\ posts' = StopProposals(posts, m.of)
     ELSE UNCHANGED <<nego, posts>>
  /\ UNCHANGED taken

\* Mutant: what is left to sell is looked at only when a deal is proposed.
TrustsProposal(d) == CanMove(nego[d], "CONFIRMED")

\* A confirmation that cannot be taken is refused (422) and dropped.
CanConfirm(d) == /\ CanMove(nego[d], "CONFIRMED")
                 /\ nego[d].booked = 0 => WithinSpare(d)

Booked(n) == [n EXCEPT !.booked = 1]

\* enqueue_take_payment: the first confirmation of a purchase pays it.
OwesPayment(d) == deals[d].dir = "take" /\ nego[d].booked = 0
Paying(n) == [n EXCEPT !.paid = 1, !.latest = Latest("post", <<Len(posts) + 1>>)]

\* process_negotiation_confirmation, and what it owes.
Confirmed(d, about) ==
  LET n == Moved(Booked(nego[d]), deals[d].dir, "CONFIRMED") IN
  /\ posts' = StopProposals(posts, d)
               \o IF OwesPayment(d) THEN <<Post(d, "transfer")>> ELSE <<>>
  /\ nego' = [nego EXCEPT ![d] =
       IF OwesPayment(d) THEN Paying(n)
       ELSE IF n.paid = 0 THEN [n EXCEPT !.latest = Latest("said", about)] ELSE n]

HearConfirmation(m) ==
  /\ Hears("confirm", m)
  /\ \/ CanConfirm(m.of) /\ Confirmed(m.of, m.about) /\ taken' = taken \cup {m.about}
     \/ ~CanConfirm(m.of) /\ UNCHANGED <<nego, posts, taken>>

\* confirmation_negotiation: any confirmation that the master took.
PaysTaken(m) == SubSeq(m.about, 1, 2) \in taken

\* process_give_payment: what it does not recognise is refused and dropped.
Recognised(m) == /\ PaysTaken(m) /\ nego[m.of].booked > 0
                 /\ nego[m.of].status # "REJECTED" /\ nego[m.of].paid = 0

HearPayment(m) ==
  /\ Hears("pay", m)
  /\ IF Recognised(m)
     THEN /\ nego' = [nego EXCEPT ![m.of].paid = 1, ![m.of].status = "PAID", ![m.of].due = FALSE]
          /\ posts' = StopProposals(posts, m.of)
     ELSE UNCHANGED <<nego, posts>>
  /\ UNCHANGED taken

-----------------------------------------------------------------------------
Intake(m) == HearAck(m) \/ HearRefusal(m) \/ HearConfirmation(m) \/ HearPayment(m)

NegotiationNext ==
  \/ \E d \in Deals : Propose(d) \/ HearProposal(d)
  \/ \E X \in SUBSET Expirable : SchedulerPass(X)
  \/ WindowPasses \/ PollPosts
  \/ \E r \in DOMAIN posts : PublishPost(r) \/ Published(r) \/ Answers(r)
  \/ \E m \in said : Pays(m) \/ Intake(m)

NegotiationSpec == NegotiationInit /\ [][NegotiationNext]_negotiationVars

\* The scheduler and the connector go on, the clock too, and every deadline
\* passes; nothing is assumed of the operator or of the central.
NegotiationFairness ==
  /\ WF_negotiationVars(SchedulerPass(Expirable))
  /\ WF_negotiationVars(WindowPasses) /\ WF_negotiationVars(PollPosts)
  /\ WF_negotiationVars(\E r \in DOMAIN posts : PostDue(r) /\ (PublishPost(r) \/ Published(r)))

-----------------------------------------------------------------------------
(* Properties.                                                             *)

NegotiationRow == [status: Ordered \cup {"none", "REJECTED", "TIMEOUT"}, due: BOOLEAN,
                   latest: [kind: {"none", "post", "said", "theirs"}, of: Seq(Nat)],
                   booked: Nat, paid: Nat]

\* Type invariant: the statuses of Negotiation, OutboundMessage and Cycle.
NegotiationTypeOK ==
  /\ deals \in Books /\ nego \in [Deals -> NegotiationRow]
  /\ posts \in Seq([of: Deals, kind: {"proposal", "transfer"}, dispatch: BOOLEAN, out: BOOLEAN])
  /\ said \subseteq [of: Deals, kind: {"ack", "refusal", "confirm", "pay"}, about: Seq(Nat)]
  /\ heard \subseteq said /\ taken \subseteq {m.about : m \in heard}
  /\ cycle \in [window: 0..2, state: {"PENDING", "NEGOTIATING", "REPORT_WINDOW", "CLOSED"}]

\* A deal moves its energy once and its money once, however often it is
\* proposed, confirmed or paid again, and in whatever order its messages come;
\* it is paid for what it moved; PAID says that the money was received, or
\* that the transfer reached the central; and together the sales do not exceed
\* what the city can spare, whatever was proposed at the same time.
DealsSettledOnce ==
  /\ \A d \in Deals :
       /\ nego[d].paid <= nego[d].booked /\ nego[d].booked <= 1
       /\ nego[d].status \in {"CONFIRMED", "PAID"} => nego[d].booked = 1
       /\ nego[d].status = "PAID" => nego[d].paid = 1
       /\ LET Transfers == {r \in DOMAIN posts : posts[r].of = d /\ posts[r].kind = "transfer"}
          IN  /\ Cardinality(Transfers) = IF deals[d].dir = "take" THEN nego[d].paid ELSE 0
              /\ nego[d].status = "PAID" => \A r \in Transfers : posts[r].out
  /\ Sold <= Spare

\* Only a negotiation that still waits proposes: what was confirmed, paid or
\* refused has no row left to publish (stop_proposal_dispatches), and what
\* waits for its publication has one, its latest.
ProposesWhileOpen ==
  \A d \in Deals :
    LET Live == {r \in DOMAIN posts : /\ posts[r].of = d /\ posts[r].kind = "proposal"
                                      /\ posts[r].dispatch}
    IN  /\ nego[d].status \in {"CONFIRMED", "PAID", "REJECTED"} => Live = {}
        /\ nego[d].status = "PENDING_PUBLICATION" =>
             \E r \in Live : nego[d].latest = Latest("post", <<r>>)

\* A purchase that is booked is confirmed or paid for good, so it is neither
\* refused nor proposed again; and only sales are paid by the central.  The
\* properties above are inductive with it (process_expired_negotiations,
\* process_give_payment).
NegotiationInv ==
  /\ \A d \in Deals : deals[d].dir = "take" /\ nego[d].booked = 1 =>
                       nego[d].status \in {"CONFIRMED", "PAID"}
  /\ \A m \in said : m.kind = "pay" => deals[m.of].dir = "give"

\* Every negotiation comes to an end for good once its cycle is over and its
\* failures end: paid, refused, or timed out.
NegotiationEnds ==
  \A d \in {1, 2} : <>[](d \in Deals => nego[d].status \in {"none", "PAID", "REJECTED", "TIMEOUT"})
=============================================================================
