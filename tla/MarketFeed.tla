----------------------------- MODULE MarketFeed -----------------------------
(***************************************************************************)
(* The market feed of one cycle: what the sellers and the central publish, *)
(* the city's queue at the broker, the connector's consumer of that queue, *)
(* and the snapshot of each seller's offer that the city buys from.        *)
(*                                                                         *)
(* Persisting a message (receipt, claim and snapshot) is one transaction   *)
(* under the lock of the cycle's MarketCycle row.  A message that the      *)
(* master did not confirm goes back to the queue, behind some of those     *)
(* that the consumer had prefetched.  Messages are lost only while nobody  *)
(* consumes, when the queue expires or drops the oldest.                   *)
(*                                                                         *)
(* An event is known by its place in what is published, which is also its  *)
(* time: the clocks of the cities are taken to agree.  A sender that       *)
(* repeats an operation keeps its idpk and its content.                    *)
(***************************************************************************)
EXTENDS Protocol, Sequences

CONSTANTS
  Scripts,   \* what may be published in the cycle, in its order
  MaxFaults  \* bound of failed deliveries and broken connections

ASSUME FeedAssumption ==
  /\ \A s \in Scripts : s \in Seq([mail: Mail, offer: STRING, left: Nat])
  /\ MaxFaults \in Nat

VARIABLES
  script,   \* what is published in this cycle
  said,     \* how much of it has been published
  line,     \* the queue of the broker
  link,     \* whether the consumer is connected
  lost,     \* messages that expired in the queue since the last recorded gap
  claims,   \* MarketEventClaim: the messages that were applied
  book,     \* MarketFeedOffer of each city
  market,   \* MarketCycle: closed, and feed_gap_at (0: none)
  known,    \* whether the cycle's status-statement has arrived
  faults    \* faults so far

feedVars == <<script, said, line, link, lost, claims, book, market, known, faults>>

OfferIds == {"none"} \cup UNION {{s[i].offer : i \in DOMAIN s} : s \in Scripts}

Snapshot == [state: {"none", "ACTIVE", "UNRESOLVED", "WITHDRAWN", "CLOSED"},
             offer: OfferIds, left: Nat, last: Nat, unsure: BOOLEAN]
NoSnapshot == [state |-> "none", offer |-> "none", left |-> 0, last |-> 0, unsure |-> FALSE]

Published == 1..said
Type(e) == script[e].mail.type
Seller(e) == script[e].mail.city

\* Types of the feed's state.
FeedTypeOK ==
  /\ script \in Scripts /\ said \in 0..Len(script)
  /\ line \in Seq(Published) /\ link \in BOOLEAN /\ lost \subseteq Published
  /\ claims \subseteq Published
  /\ book \in [Cities -> Snapshot]
  /\ market \in [closed: BOOLEAN, gapAt: 0..said]
  /\ known \in BOOLEAN /\ faults \in 0..MaxFaults

FeedInit ==
  /\ script \in Scripts /\ said = 0 /\ line = <<>> /\ link = TRUE /\ lost = {}
  /\ claims = {} /\ book = [c \in Cities |-> NoSnapshot]
  /\ market = [closed |-> FALSE, gapAt |-> 0] /\ known \in BOOLEAN /\ faults = 0

-----------------------------------------------------------------------------
(* What a message does.                                                    *)

\* The claim is on (sender, idpk): a repetition has no effect.
SameOperation(e, f) ==
  Seller(e) = Seller(f) /\ script[e].mail.idpk = script[f].mail.idpk
Claimed(e) == \E f \in claims : SameOperation(e, f)

Doubted(s) == [s EXCEPT !.unsure = TRUE]

\* The snapshot that the seller's first message leaves.
First(e) ==
  [state |-> CASE Type(e) = "offer"         -> "ACTIVE"
               [] Type(e) = "offer-updated" -> "UNRESOLVED"
               [] OTHER                     -> "WITHDRAWN",
   offer |-> script[e].offer, left |-> script[e].left, last |-> e,
   unsure |-> Type(e) # "offer"]

\* A base offer completes an update that overtook it, which stays doubtful.
Based(s, e) == IF s.state = "UNRESOLVED" /\ e < s.last
               THEN [Doubted(s) EXCEPT !.state = "ACTIVE"] ELSE Doubted(s)

Old(s, e) == s.state \in {"WITHDRAWN", "CLOSED"} \/ e <= s.last

\* Mutant: an event that comes late is passed over without a trace.
AppliedQuietly(s, e) ==
  CASE s.state = "none" -> First(e)
    [] s.state # "none" /\ (script[e].offer # s.offer \/ Old(s, e)) -> s
    [] s.state # "none" /\ script[e].offer = s.offer /\ ~Old(s, e) ->
         [s EXCEPT !.left = script[e].left, !.last = e]

\* _apply_offer_event.
OfferApplied(s, e) ==
  CASE s.state = "none" -> First(e)
    [] s.state # "none" /\ s.offer # script[e].offer -> Doubted(s)
    [] s.state # "none" /\ s.offer = script[e].offer /\ Type(e) = "offer" -> Based(s, e)
    [] s.state # "none" /\ s.offer = script[e].offer /\ Type(e) # "offer" ->
         IF Old(s, e) THEN Doubted(s)
         ELSE [s EXCEPT !.left = script[e].left, !.last = e,
                        !.state = IF Type(e) = "offer-withdrawn" THEN "WITHDRAWN" ELSE @]

BookClosed ==
  [c \in Cities |-> IF book[c].state \in {"ACTIVE", "UNRESOLVED"}
                    THEN [book[c] EXCEPT !.state = "CLOSED"] ELSE book[c]]

\* persist_market_feed.  Nothing counts after the first market-closed.
Persist(e) ==
  /\ claims' = IF Claimed(e) THEN claims ELSE claims \cup {e}
  /\ IF Claimed(e) \/ market.closed
     THEN UNCHANGED <<book, market>>
     ELSE IF Type(e) = "market-closed"
     THEN market' = [market EXCEPT !.closed = TRUE] /\ book' = BookClosed
     ELSE /\ book' = [book EXCEPT ![Seller(e)] = OfferApplied(@, e)]
          /\ UNCHANGED market

-----------------------------------------------------------------------------
(* The broker and the connector.                                           *)

Publish ==
  /\ said < Len(script)
  /\ said' = said + 1 /\ line' = Append(line, said + 1)
  /\ UNCHANGED <<script, link, lost, claims, book, market, known, faults>>

\* The head goes back behind n of the others.
Requeued(n) == SubSeq(line, 2, n + 1) \o <<Head(line)>> \o SubSeq(line, n + 2, Len(line))

Fault == faults < MaxFaults /\ faults' = faults + 1

\* The message as the broker authenticated it.
Spoken(e) == script[e].mail

\* process_market_message: an invalid message is audited and dropped.
FeedDropped ==
  /\ link /\ line # <<>> /\ ~FeedValid(Spoken(Head(line)))
  /\ line' = Tail(line)
  /\ UNCHANGED <<script, said, link, lost, claims, book, market, known, faults>>

FeedPersisted ==
  /\ link /\ line # <<>> /\ FeedValid(Spoken(Head(line)))
  /\ Persist(Head(line))
  /\ line' = Tail(line)
  /\ UNCHANGED <<script, said, link, lost, known, faults>>

\* The master, or the audit of a message to drop, did not answer with success.
FeedRefused ==
  /\ link /\ line # <<>> /\ Fault
  /\ \E n \in 0..Len(line) - 1 : line' = Requeued(n)
  /\ UNCHANGED <<script, said, link, lost, claims, book, market, known>>

\* The master committed, and its answer was lost.
FeedAnswerLost ==
  /\ link /\ line # <<>> /\ FeedValid(Spoken(Head(line))) /\ Fault
  /\ Persist(Head(line))
  /\ \E n \in 0..Len(line) - 1 : line' = Requeued(n)
  /\ UNCHANGED <<script, said, link, lost, known>>

FeedBreaks ==
  /\ link /\ Fault /\ link' = FALSE
  /\ UNCHANGED <<script, said, line, lost, claims, book, market, known>>

FeedExpires ==
  /\ ~link /\ line # <<>>
  /\ lost' = lost \cup {Head(line)} /\ line' = Tail(line)
  /\ UNCHANGED <<script, said, link, claims, book, market, known, faults>>

\* Mutant: the consumer resumes without noting what it may have missed.
ResumeSilently ==
  /\ ~link /\ link' = TRUE
  /\ lost' = IF known THEN {} ELSE lost
  /\ UNCHANGED <<script, said, line, claims, book, market, known, faults>>

\* consume_market_forever notes a gap before it consumes again, and stays
\* disconnected while it cannot.  record_market_feed_gap marks the cycles
\* whose status-statement it has; of the others nothing is noted.
Reconnect ==
  /\ ~link /\ link' = TRUE
  /\ IF known THEN market' = [market EXCEPT !.gapAt = said] /\ lost' = {}
              ELSE UNCHANGED <<market, lost>>
  /\ UNCHANGED <<script, said, line, claims, book, known, faults>>

\* The status-statement arrives on the other queue (CityLedger, Consumer).
StatusArrives ==
  /\ ~known /\ known' = TRUE
  /\ UNCHANGED <<script, said, line, link, lost, claims, book, market, faults>>

FeedNext ==
  \/ Publish \/ FeedDropped \/ FeedPersisted \/ FeedRefused \/ FeedAnswerLost
  \/ FeedBreaks \/ FeedExpires \/ Reconnect \/ StatusArrives

-----------------------------------------------------------------------------
(* The book (get_market_book), for the cycle whose statement is known.     *)

GapRisk(c) == market.gapAt # 0 /\ book[c].last <= market.gapAt

Stale(c) == book[c].unsure \/ book[c].state = "UNRESOLVED" \/ market.closed \/ GapRisk(c)

\* What get_buy_candidates takes for an offer to buy from, time apart.
Trusted(c) == known /\ book[c].state = "ACTIVE" /\ book[c].left > 0 /\ ~Stale(c)

\* What the seller published itself, repetitions apart.
Genuine(e, c) ==
  /\ FeedValid(script[e].mail) /\ Seller(e) = c
  /\ \A f \in 1..e - 1 : FeedValid(script[f].mail) => ~SameOperation(e, f)

\* An offer that the city would buy from stands as its seller last described
\* it, but for descriptions that are still in the queue or that expired there
\* with no gap recorded since: whatever was forged, repeated, requeued out of
\* order or missed has left a mark (market_feed._apply_offer_event,
\* market_feed.record_market_feed_gap, market_book.get_market_book).
BookIsCurrent ==
  \A c \in Cities : Trusted(c) =>
    /\ book[c].last \in Published /\ Seller(book[c].last) = c
    /\ FeedValid(script[book[c].last].mail)
    /\ Type(book[c].last) # "offer-withdrawn" /\ book[c].left = script[book[c].last].left
    /\ \A e \in book[c].last + 1..said :
         Genuine(e, c) => e \in lost \/ \E i \in DOMAIN line : line[i] = e

\* What keeps the book current: a message of a seller is noted once it moved the
\* seller's snapshot forward or left it in doubt; all that was applied is noted,
\* and what a seller published is, unless it waits, was lost, or came before
\* the gap; and a snapshot in no doubt is what its last message said
\* (market_feed._apply_offer_event, market_feed.persist_market_feed).
Noted(e, c) == book[c].state # "none" /\ (book[c].unsure \/ e <= book[c].last)
FeedInv ==
  /\ \A f \in claims : FeedValid(script[f].mail)
  /\ \A c \in Cities : book[c].state # "none" =>
       /\ book[c].last \in Published
       /\ ~book[c].unsure =>
            /\ Seller(book[c].last) = c /\ FeedValid(script[book[c].last].mail)
            /\ book[c].left = script[book[c].last].left
            /\ book[c].state = "ACTIVE" => Type(book[c].last) # "offer-withdrawn"
  /\ ~market.closed => \A c \in Cities :
       /\ \A f \in claims : Seller(f) = c => Noted(f, c)
       /\ \A e \in Published : Genuine(e, c) =>
            \/ e \in lost \/ \E i \in DOMAIN line : line[i] = e
            \/ e <= market.gapAt \/ Noted(e, c)
=============================================================================
