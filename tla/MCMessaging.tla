---------------------------- MODULE MCMessaging ----------------------------
(***************************************************************************)
(* Instances of Consumer, Outbox and Negotiation for TLC.  They share no   *)
(* variable, so each behaviour works one of them while the others rest.    *)
(***************************************************************************)
EXTENDS Consumer, Outbox, Negotiation

MCCities == {"OWN", "ABC"}

-----------------------------------------------------------------------------
\* A message of a type with all it needs, from the central or from a city.
Whole(type) ==
  [form |-> "ok", type |-> type, idpk |-> "i1", body |-> "b1", sameIds |-> FALSE,
   user |-> IF type \in CITY_TYPES THEN "ABC" ELSE "central",
   sender |-> IF type \in CITY_TYPES THEN "none" ELSE "central",
   city |-> IF type \in CITY_TYPES THEN "ABC" ELSE "none",
   zoned |-> TRUE, cycle |-> IF type = "request" THEN "absent" ELSE "valid",
   data |-> TRUE, bad |-> {}, reason |-> IF type = "error" THEN "PRICE_ABOVE_CAP"
                                         ELSE "MALFORMED_MESSAGE",
   good |-> UNION {RequiredFields([type |-> t, reason |-> "PRICE_ABOVE_CAP"]) : t \in {type}}]

\* What may be wrong with it.
Flaws(m) == {
  [m EXCEPT !.form = "garbage"], [m EXCEPT !.form = "envelope"], [m EXCEPT !.sameIds = TRUE],
  [m EXCEPT !.user = "none"], [m EXCEPT !.user = "ABC", !.city = "OWN", !.sender = "none"],
  [m EXCEPT !.user = "ABC"], [m EXCEPT !.city = "other", !.sender = "none"],
  [m EXCEPT !.zoned = FALSE], [m EXCEPT !.cycle = "invalid"], [m EXCEPT !.good = {}]}

\* One message, whole or with a flaw; or two deliveries of one operation, of
\* two, or of a conflict about its body.
Types == {"bid", "swap-settled", "transfer", "ack", "error", "request"}
Queues ==
  {<<m>> : m \in UNION {{Whole(t)} \cup Flaws(Whole(t)) : t \in Types}}
  \cup {<<[Whole("transfer") EXCEPT !.bad = {"becauseOf"}]>>, <<Whole("bid-rejected")>>,
        <<Whole("nack")>>, <<[Whole("error") EXCEPT !.reason = "OVER_CAPACITY"]>>,
        <<Whole("offer")>>}
  \cup {<<Whole("bid"), [Whole("bid") EXCEPT !.body = b]>> : b \in {"b1", "b2"}}
  \cup {<<Whole("bid"), [Whole("transfer") EXCEPT !.idpk = i]>> : i \in {"i1", "i2"}}
MCMails == Queues \cup {<<>>}

-----------------------------------------------------------------------------
\* The offer and its changes; two requests; a request and a bid.
Order(kinds) == [k \in {"offer", "change", "withdraw", "ask", "bid"} |->
                   Cardinality({i \in DOMAIN kinds : kinds[i] = k})]
MCOrders == {Order(<<>>), Order(<<"offer", "change", "withdraw">>), Order(<<"ask", "ask">>),
             Order(<<"ask", "bid">>)}
MCLimit == [offer |-> 1, request |-> 1]

-----------------------------------------------------------------------------
\* A sale; a purchase; another city's proposal; two sales, too much together.
Deal(dir, qty) == [dir |-> dir, qty |-> qty, theirs |-> FALSE]
MCBooks == {<<>>, <<Deal("give", 2)>>, <<Deal("take", 2)>>,
            <<[Deal("take", 1) EXCEPT !.theirs = TRUE]>>, <<Deal("give", 2), Deal("give", 2)>>}

-----------------------------------------------------------------------------
Consuming == mail # <<>>
Negotiating == deals # <<>>
Publishing == ~Consuming /\ ~Negotiating

MCInit ==
  /\ ConsumerInit /\ OutboxInit /\ NegotiationInit
  /\ \/ Consuming /\ deals = <<>> /\ todo = Order(<<>>)
     \/ Negotiating /\ mail = <<>> /\ todo = Order(<<>>)
     \/ Publishing

MCNext ==
  \/ Consuming /\ ConsumerNext /\ UNCHANGED <<outboxVars, negotiationVars>>
  \/ Publishing /\ OutboxNext /\ UNCHANGED <<consumerVars, negotiationVars>>
  \/ Negotiating /\ NegotiationNext /\ UNCHANGED <<consumerVars, outboxVars>>

MCSpec ==
  /\ MCInit /\ [][MCNext]_<<consumerVars, outboxVars, negotiationVars>>
  /\ ConsumerFairness
  /\ Publishing => OutboxFairness
  /\ Negotiating => NegotiationFairness
=============================================================================
