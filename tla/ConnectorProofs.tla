-------------------------- MODULE ConnectorProofs --------------------------
(***************************************************************************)
(* The two directions of the connector, for every set of cities, every     *)
(* queue and quota and any number of faults.                               *)
(*                                                                         *)
(* Received (Consumer): an effect once, a delivery that is settled         *)
(* accounted for, an answer to whom the broker authenticated.  ConsumerInv *)
(* is inductive with them: a call that has ended is never touched again,   *)
(* so the evidence of a message, once there, stays.                        *)
(*                                                                         *)
(* Sent (Outbox): a row that says published is on the wire, and the market *)
(* hears the rows of a cycle in the order of their numbers.  The induction *)
(* is over TurnsKept: the work that is under way on the market's exchange  *)
(* is the least row that still waits.                                      *)
(***************************************************************************)
EXTENDS Consumer, Outbox, TLAPS, SequenceTheorems, FiniteSetTheorems,
        WellFoundedInduction

-----------------------------------------------------------------------------
(* The decisions about one message.                                        *)

\* What consume_forever may do with a message, and to whom it then answers.
LEMMA PlanFacts ==
  ASSUME NEW m
  PROVE  /\ Plan(m) \in {"garbage", "discard", "nack", "ignore", "ack"}
         /\ Plan(m) \in {"ack", "nack"} =>
              /\ m.user \in Cities \cup {"central"} /\ ResponseRoute(m) = m.user
              /\ m.type \notin ANSWER_TYPES
         /\ Plan(m) \in {"ignore", "ack"} => m.form # "garbage" /\ Refusal(m) = "valid"
<1>1. PlannedAction(m) \in {"garbage", "discard", "nack", "ignore", "ack"}
  BY DEF PlannedAction
<1>2. PlannedAction(m) \in {"ack", "nack"} => m.type \notin ANSWER_TYPES
  BY DEF PlannedAction
<1>3. PlannedAction(m) \in {"ignore", "ack"} => m.form # "garbage" /\ Refusal(m) = "valid"
  BY DEF PlannedAction
<1>4. ResponseRoute(m) # "none" =>
        m.user \in Cities \cup {"central"} /\ ResponseRoute(m) = m.user
  BY DEF ResponseRoute, Route
<1>. QED
  BY <1>1, <1>2, <1>3, <1>4 DEF Plan

\* A message that is let through speaks for whom the broker authenticated.
LEMMA ValidIsAuthentic ==
  ASSUME NEW m \in Mail, m.form # "garbage", Refusal(m) = "valid"
  PROVE  /\ m.type \in CITY_TYPES => m.user = m.city
         /\ m.type \in CENTRAL_TYPES => m.user = "central"
<1>1. m.form = "ok" /\ ~ForgesCity(m) /\ ~ForgesCentral(m) /\ Verdict(m) = "valid"
  BY DEF Refusal, Mail
<1>2. ~m.sameIds /\ (m.type \in KNOWN_TYPES => IdentityValid(m))
  BY <1>1 DEF Verdict, Mail
<1>3. m.type \in CITY_TYPES \cup CENTRAL_TYPES => IdentityValid(m)
  BY <1>2 DEF KNOWN_TYPES
<1>4. "none" \notin Cities
  BY ProtocolAssumption
<1>5. ASSUME m.type \in CITY_TYPES
      PROVE  m.user = m.city
  BY <1>1, <1>2, <1>3, <1>4, <1>5 DEF IdentityValid, ForgesCity
<1>6. ASSUME m.type \in CENTRAL_TYPES
      PROVE  m.user = "central"
  BY <1>1, <1>2, <1>3, <1>6 DEF IdentityValid, ForgesCentral
<1>. QED
  BY <1>5, <1>6

\* The evidence that an accepted call leaves is what its message calls for.
LEMMA CallForFacts ==
  ASSUME NEW d
  PROVE  /\ CallFor(d) \in {"ingest", "DISCARDED", "NACKED"}
         /\ CallFor(d) = "ingest" <=> Plan(mail[d]) \in {"ignore", "ack"}
         /\ CallFor(d) = "NACKED" <=> Plan(mail[d]) = "nack"
         /\ CallFor(d) = "DISCARDED" <=> Plan(mail[d]) \in {"garbage", "discard"}
  BY PlanFacts DEF CallFor

-----------------------------------------------------------------------------
(* Calls.                                                                  *)

\* The messages, and the rows that speak of them.
LEMMA MailType ==
  ASSUME ConsumerTypeOK
  PROVE  /\ Len(mail) \in Nat /\ Deliveries = 1..Len(mail)
         /\ \A d \in Deliveries : mail[d] \in Mail /\ Len(mail) >= 1
         /\ Len(calls) \in Nat /\ DOMAIN calls = 1..Len(calls)
         /\ \A c \in DOMAIN calls : calls[c] \in Call
         /\ Len(answers) \in Nat /\ DOMAIN answers = 1..Len(answers)
         /\ \A a \in DOMAIN answers : answers[a] \in AnswerRow
<1>1. mail \in Seq(Mail)
  BY ConsumerAssumption DEF ConsumerTypeOK
<1>2. /\ Len(mail) \in Nat /\ DOMAIN mail = 1..Len(mail)
      /\ \A d \in DOMAIN mail : mail[d] \in Mail
  BY <1>1, LenProperties, ElementOfSeq
<1>3. /\ Len(calls) \in Nat /\ DOMAIN calls = 1..Len(calls)
      /\ \A c \in DOMAIN calls : calls[c] \in Call
  BY LenProperties, ElementOfSeq DEF ConsumerTypeOK
<1>4. /\ Len(answers) \in Nat /\ DOMAIN answers = 1..Len(answers)
      /\ \A a \in DOMAIN answers : answers[a] \in AnswerRow
  BY LenProperties, ElementOfSeq DEF ConsumerTypeOK
<1>. QED
  BY <1>2, <1>3, <1>4 DEF Deliveries

\* What a transaction of the master does to the call it handles, and to no other.
LEMMA StepIs ==
  ASSUME ConsumerTypeOK, NEW c \in DOMAIN calls, NEW at \in {"sent", "received", "done"},
         NEW row \in INBOUND, NEW answer \in {"none", "ack", "drop", "retry"},
         Step(c, at, row, answer)
  PROVE  /\ calls' \in Seq(Call) /\ Len(calls') = Len(calls)
         /\ DOMAIN calls' = DOMAIN calls
         /\ \A k \in DOMAIN calls : k # c => calls'[k] = calls[k]
         /\ calls'[c].of = calls[c].of /\ calls'[c].for = calls[c].for
         /\ calls'[c].at = at /\ calls'[c].row = row /\ calls'[c].answer = answer
<1>. DEFINE e == [calls[c] EXCEPT !.at = at, !.row = row, !.answer = answer]
<1>1. c \in 1..Len(calls) /\ calls[c] \in Call /\ DOMAIN calls = 1..Len(calls)
  BY MailType
<1>2. /\ e \in Call /\ e.of = calls[c].of /\ e.for = calls[c].for
      /\ e.at = at /\ e.row = row /\ e.answer = answer
  BY <1>1 DEF Call
<1>3. calls' = [calls EXCEPT ![c] = e]
  BY <1>1 DEF Step
<1>. HIDE DEF e
<1>4. /\ calls' \in Seq(Call) /\ Len(calls') = Len(calls)
      /\ \A k \in 1..Len(calls) : calls'[k] = IF k = c THEN e ELSE calls[k]
  BY <1>1, <1>2, <1>3, ExceptSeq DEF ConsumerTypeOK
<1>5. DOMAIN calls' = 1..Len(calls')
  BY <1>4, LenProperties
<1>. QED
  BY <1>1, <1>2, <1>4, <1>5

\* A call that has ended stays as it is.
Kept == \A c \in DOMAIN calls :
          calls[c].at = "done" => c \in DOMAIN calls' /\ calls'[c] = calls[c]

LEMMA EvidenceStays ==
  ASSUME ConsumerInv, Kept, NEW d, NEW said \in SUBSET (Decided \cup {"DISCARDED", "NACKED"}),
         EvidenceOf(d, said)
  PROVE  EvidenceOf(d, said)'
<1>1. PICK c \in DOMAIN calls : calls[c].of = d /\ calls[c].row \in said
  BY DEF EvidenceOf
<1>2. calls[c].at = "done"
  BY <1>1 DEF ConsumerInv
<1>. QED
  BY <1>1, <1>2 DEF Kept, EvidenceOf

\* The bound of faults.
LEMMA FaultType ==
  ASSUME ConsumerTypeOK, Deliveries # {}, Fault \/ NoFault
  PROVE  faults' \in 0..MaxFaults
<1>1. Len(mail) \in Nat /\ Len(mail) >= 1
  BY MailType
<1>2. faults \in 0..MaxFaults /\ MaxFaults \in Nat
  BY ConsumerAssumption DEF ConsumerTypeOK
<1>. QED
  BY <1>1, <1>2 DEF Fault, NoFault

\* How a handler of the master may leave the call, and what else it touches.
Handled(c, at, row, answer) ==
  /\ calls[c].at \in {"sent", "received"} /\ Step(c, at, row, answer)
  /\ answer # "none" => at = "done"
  /\ answer = "ack" => row \in RowsFor(calls[c].for)
  /\ row \in Decided \cup {"DISCARDED", "NACKED"} =>
       at = "done" /\ row \in RowsFor(calls[c].for)

LEMMA MasterStepIs ==
  ASSUME ConsumerTypeOK, ConsumerInv, NEW c \in DOMAIN calls, MasterStep(c)
  PROVE  /\ UNCHANGED <<mail, broker, hand, answers>>
         /\ faults' \in 0..MaxFaults
         /\ \E at \in {"received", "done"}, row \in INBOUND,
               answer \in {"none", "ack", "drop", "retry"} : Handled(c, at, row, answer)
<1>. USE DEF INBOUND, Decided, RowsFor
<1>1. /\ calls[c] \in Call /\ calls[c].of \in Deliveries
      /\ calls[c].for \in {"ingest", "DISCARDED", "NACKED"}
  BY MailType DEF Call
<1>2. UNCHANGED <<mail, broker, hand, answers>> /\ (Fault \/ NoFault)
  BY DEF MasterStep, Receive, ReceiveError, Audit, Repeat, Process, PassOver, Abort,
         CallVanishes, Unclaimed
<1>3. faults' \in 0..MaxFaults
  BY <1>1, <1>2, FaultType
<1>. DEFINE IsHandled == \E at \in {"received", "done"}, row \in INBOUND,
                             answer \in {"none", "ack", "drop", "retry"} :
                           Handled(c, at, row, answer)
<1>4. \A at \in {"received", "done"}, row \in INBOUND,
         answer \in {"none", "ack", "drop", "retry"} :
        Handled(c, at, row, answer) => IsHandled
  OBVIOUS
<1>. HIDE DEF IsHandled
<1>5. ASSUME Receive(c)
      PROVE  IsHandled
  <2>1. Handled(c, "received", "RECEIVED", "none") \/ Handled(c, "done", "none", "drop")
    BY <1>5 DEF Receive, Handled
  <2>. QED
    BY <1>4, <2>1
<1>6. ASSUME ReceiveError(c)
      PROVE  IsHandled
  <2>1. Handled(c, "done", "ERROR", "ack")
    BY <1>6 DEF ReceiveError, Handled
  <2>. QED
    BY <1>4, <2>1
<1>7. ASSUME Audit(c)
      PROVE  IsHandled
  <2>1. Handled(c, "done", calls[c].for, "ack")
    BY <1>1, <1>7 DEF Audit, Handled
  <2>2. calls[c].for \in INBOUND
    BY <1>1, <1>7 DEF Audit
  <2>. QED
    BY <1>4, <2>1, <2>2
<1>8. ASSUME Repeat(c) \/ Process(c) \/ PassOver(c)
      PROVE  IsHandled
  <2>1. \E row \in {"PROCESSED", "DUPLICATE", "NOT_PROCESSED"} : Step(c, "done", row, "ack")
    BY <1>8 DEF Repeat, Process, PassOver
  <2>2. \E row \in {"PROCESSED", "DUPLICATE", "NOT_PROCESSED"} : Handled(c, "done", row, "ack")
    BY <1>8, <2>1 DEF Repeat, Process, PassOver, Unclaimed, Handled
  <2>. QED
    BY <1>4, <2>2
<1>9. ASSUME Abort(c)
      PROVE  IsHandled
  <2>1. \E row \in {"RECEIVED", "FAILED"}, answer \in {"drop", "retry"} :
          Step(c, "done", row, answer) /\ calls[c].at = "received"
    BY <1>9 DEF Abort
  <2>2. \E row \in {"RECEIVED", "FAILED"}, answer \in {"drop", "retry"} :
          Handled(c, "done", row, answer)
    BY <2>1 DEF Handled
  <2>. QED
    BY <1>4, <2>2
<1>10. ASSUME CallVanishes(c)
      PROVE  IsHandled
  <2>1. calls[c].row \in INBOUND \ (Decided \cup {"DISCARDED", "NACKED"})
    BY <1>1, <1>10 DEF CallVanishes, ConsumerInv, Call
  <2>2. Handled(c, "done", calls[c].row, "retry")
    BY <1>10, <2>1 DEF CallVanishes, Handled
  <2>. QED
    BY <1>4, <2>1, <2>2
<1>11. IsHandled
  BY <1>5, <1>6, <1>7, <1>8, <1>9, <1>10 DEF MasterStep
<1>. QED
  BY <1>2, <1>3, <1>11 DEF IsHandled

\* Only the call that is handled changes, and it had not ended.
LEMMA MasterKeepsCalls ==
  ASSUME ConsumerTypeOK, ConsumerInv, NEW c \in DOMAIN calls,
         NEW at \in {"received", "done"}, NEW row \in INBOUND,
         NEW answer \in {"none", "ack", "drop", "retry"}, Handled(c, at, row, answer)
  PROVE  /\ Kept /\ calls' \in Seq(Call) /\ DOMAIN calls' = DOMAIN calls
         /\ Len(calls') = Len(calls)
         /\ \A k \in DOMAIN calls : k # c => calls'[k] = calls[k]
         /\ calls'[c].of = calls[c].of /\ calls'[c].for = calls[c].for
         /\ calls'[c].at = at /\ calls'[c].row = row /\ calls'[c].answer = answer
<1>1. /\ calls' \in Seq(Call) /\ Len(calls') = Len(calls)
      /\ DOMAIN calls' = DOMAIN calls
      /\ \A k \in DOMAIN calls : k # c => calls'[k] = calls[k]
      /\ calls'[c].of = calls[c].of /\ calls'[c].for = calls[c].for
      /\ calls'[c].at = at /\ calls'[c].row = row /\ calls'[c].answer = answer
  BY StepIs DEF Handled
<1>2. calls[c].at # "done"
  BY DEF Handled
<1>3. Kept
  BY <1>1, <1>2 DEF Kept
<1>. QED
  BY <1>1, <1>3

\* The claims and the effects.
BooksOK == \A i \in Idpks : effects[i] <= 1 /\ (effects[i] = 1 => claims[i] # 0)

\* Whatever else a step does, what was claimed with evidence still is.
LEMMA ClaimsStay ==
  ASSUME OneOutcome, ConsumerInv, Kept, UNCHANGED mail, NEW i \in Idpks,
         claims'[i] = claims[i], claims[i] # 0, mail[claims[i]].type \notin BID_REPLIES
  PROVE  (\E c \in DOMAIN calls : MailOf(c).idpk = i
                                  /\ calls[c].row \in {"PROCESSED", "DUPLICATE"})'
<1>1. PICK c \in DOMAIN calls : /\ MailOf(c).idpk = i
                                /\ calls[c].row \in {"PROCESSED", "DUPLICATE"}
  BY DEF OneOutcome
<1>2. calls[c].at = "done"
  BY <1>1 DEF ConsumerInv, Decided
<1>3. c \in DOMAIN calls' /\ calls'[c] = calls[c]
  BY <1>1, <1>2 DEF Kept
<1>4. MailOf(c)' = MailOf(c)
  BY <1>3 DEF MailOf
<1>. QED
  BY <1>1, <1>3, <1>4

LEMMA BooksStay ==
  ASSUME ConsumerInv, OneOutcome, Kept, UNCHANGED <<mail, claims, effects>>
  PROVE  BooksOK' /\ OneOutcome'
<1>1. Idpks' = Idpks
  BY DEF Idpks, Deliveries
<1>2. BooksOK'
  BY <1>1 DEF ConsumerInv, BooksOK
<1>3. OneOutcome'
  BY <1>1, ClaimsStay DEF OneOutcome
<1>. QED
  BY <1>2, <1>3

LEMMA MasterBooks ==
  ASSUME ConsumerTypeOK, ConsumerInv, OneOutcome, NEW c \in DOMAIN calls, MasterStep(c), Kept
  PROVE  /\ claims' \in [Idpks -> Deliveries \cup {0}] /\ effects' \in [Idpks -> Nat]
         /\ BooksOK' /\ OneOutcome'
<1>1. /\ calls[c] \in Call /\ calls[c].of \in Deliveries /\ MailOf(c).idpk \in Idpks
      /\ calls[c].of # 0 /\ UNCHANGED mail /\ Idpks' = Idpks
  <2>1. calls[c] \in Call /\ calls[c].of \in Deliveries /\ calls[c].of # 0
    BY MailType DEF Call
  <2>2. MailOf(c).idpk \in Idpks
    BY <2>1 DEF MailOf, Idpks
  <2>3. UNCHANGED mail /\ Idpks' = Idpks
    BY MasterStepIs DEF Idpks, Deliveries
  <2>. QED
    BY <2>1, <2>2, <2>3
<1>2. BooksOK /\ claims \in [Idpks -> Deliveries \cup {0}] /\ effects \in [Idpks -> Nat]
  BY DEF ConsumerInv, BooksOK, ConsumerTypeOK
<1>. DEFINE Claimed == claims' = [claims EXCEPT ![MailOf(c).idpk] = calls[c].of]
            Booked == effects' = [effects EXCEPT ![MailOf(c).idpk] = @ + 1]
<1>3. \/ UNCHANGED <<claims, effects>>
      \/ /\ claims[MailOf(c).idpk] = 0 /\ Claimed
         /\ \/ MailOf(c).type \in BID_REPLIES
            \/ \E row \in {"PROCESSED", "DUPLICATE"}, at \in {"done"} : Step(c, at, row, "ack")
         /\ Booked \/ UNCHANGED effects
  BY DEF MasterStep, Receive, ReceiveError, Audit, Repeat, Process, PassOver, Abort,
         CallVanishes, Unclaimed, ClaimIt, BID_REPLIES, IDEMPOTENT_TYPES, STRICT_TYPES
<1>4. ASSUME UNCHANGED <<claims, effects>>
      PROVE  /\ claims' \in [Idpks -> Deliveries \cup {0}] /\ effects' \in [Idpks -> Nat]
             /\ BooksOK' /\ OneOutcome'
  <2>1. BooksOK'
    BY <1>1, <1>2, <1>4 DEF BooksOK
  <2>2. OneOutcome'
    BY <1>1, <1>4, ClaimsStay DEF OneOutcome
  <2>. QED
    BY <1>2, <1>4, <2>1, <2>2
<1>5. ASSUME claims[MailOf(c).idpk] = 0, Claimed,
             \/ MailOf(c).type \in BID_REPLIES
             \/ \E row \in {"PROCESSED", "DUPLICATE"}, at \in {"done"} : Step(c, at, row, "ack"),
             Booked \/ UNCHANGED effects
      PROVE  /\ claims' \in [Idpks -> Deliveries \cup {0}] /\ effects' \in [Idpks -> Nat]
             /\ BooksOK' /\ OneOutcome'
  <2>0. PICK j : j = MailOf(c).idpk
    OBVIOUS
  <2>1. j \in Idpks /\ claims[j] = 0 /\ effects[j] = 0
    BY <1>1, <1>2, <1>5, <2>0 DEF BooksOK
  <2>2. /\ claims' \in [Idpks -> Deliveries \cup {0}] /\ effects' \in [Idpks -> Nat]
        /\ claims'[j] = calls[c].of /\ effects'[j] <= 1
        /\ \A i \in Idpks : i # j => claims'[i] = claims[i] /\ effects'[i] = effects[i]
    BY <1>1, <1>2, <1>5, <2>0, <2>1
  <2>3. BooksOK'
    BY <1>1, <1>2, <2>2 DEF BooksOK
  <2>4. ASSUME mail[calls[c].of].type \notin BID_REPLIES
        PROVE  (\E k \in DOMAIN calls : MailOf(k).idpk = j
                                        /\ calls[k].row \in {"PROCESSED", "DUPLICATE"})'
    <3>1. PICK row \in {"PROCESSED", "DUPLICATE"} : Step(c, "done", row, "ack")
      BY <1>5, <2>4 DEF MailOf
    <3>2. row \in INBOUND
      BY DEF INBOUND
    <3>3. c \in DOMAIN calls' /\ calls'[c].of = calls[c].of /\ calls'[c].row = row
      BY <3>1, <3>2, StepIs
    <3>4. MailOf(c)' = MailOf(c)
      BY <1>1, <3>3 DEF MailOf
    <3>. QED
      BY <2>0, <3>1, <3>3, <3>4
  <2>5. OneOutcome'
    <3>1. \A i \in Idpks' : effects'[i] <= 1
      BY <2>3 DEF BooksOK
    <3>2. ASSUME NEW i \in Idpks', claims'[i] # 0, mail'[claims'[i]].type \notin BID_REPLIES
          PROVE  (\E k \in DOMAIN calls : MailOf(k).idpk = i
                                          /\ calls[k].row \in {"PROCESSED", "DUPLICATE"})'
      <4>1. CASE i = j
        BY <1>1, <2>2, <2>4, <3>2, <4>1
      <4>2. CASE i # j
        BY <1>1, <2>2, <3>2, <4>2, ClaimsStay
      <4>. QED
        BY <4>1, <4>2
    <3>. QED
      BY <3>1, <3>2 DEF OneOutcome
  <2>. QED
    BY <2>2, <2>3, <2>5
<1>. QED
  BY <1>3, <1>4, <1>5

-----------------------------------------------------------------------------
(* Accounts and answers.                                                   *)

\* What SettledIsAccounted asks of a delivery that was acked, or dropped.
AckedOK(d) ==
  /\ EvidenceOf(d, IF Plan(mail[d]) = "nack" THEN {"NACKED"} ELSE Decided)
  /\ Plan(mail[d]) # "ignore" =>
       \E a \in DOMAIN answers : answers[a].of = d /\ answers[a].sent
                                 /\ answers[a].row = "PUBLISHED"
DroppedOK(d) ==
  \/ EvidenceOf(d, {"DISCARDED"})
  \/ \E c \in DOMAIN calls : calls[c].of = d /\ calls[c].answer = "drop"

LEMMA AccountsAre ==
  SettledIsAccounted <=>
    \A d \in Deliveries : /\ broker[d] = "acked" => AckedOK(d)
                          /\ broker[d] = "rejected" => DroppedOK(d)
BY DEF SettledIsAccounted, AckedOK, DroppedOK

\* What was accounted for stays so, while no answer to it is written again.
LEMMA AckedStays ==
  ASSUME ConsumerInv, Kept, UNCHANGED mail, NEW d \in Deliveries, AckedOK(d),
         \A a \in DOMAIN answers :
           answers[a].of = d => a \in DOMAIN answers' /\ answers'[a] = answers[a]
  PROVE  AckedOK(d)'
<1>1. EvidenceOf(d, IF Plan(mail[d]) = "nack" THEN {"NACKED"} ELSE Decided)'
  <2>1. PICK said \in SUBSET (Decided \cup {"NACKED"}) :
          said = IF Plan(mail[d]) = "nack" THEN {"NACKED"} ELSE Decided
    OBVIOUS
  <2>2. EvidenceOf(d, said)
    BY <2>1 DEF AckedOK
  <2>3. EvidenceOf(d, said)'
    BY <2>2, EvidenceStays
  <2>. QED
    BY <2>1, <2>3
<1>2. ASSUME Plan(mail[d]) # "ignore"
      PROVE  (\E a \in DOMAIN answers : answers[a].of = d /\ answers[a].sent
                                        /\ answers[a].row = "PUBLISHED")'
  BY <1>2 DEF AckedOK
<1>. QED
  BY <1>1, <1>2 DEF AckedOK

LEMMA DroppedStays ==
  ASSUME ConsumerInv, Kept, UNCHANGED mail, NEW d \in Deliveries, DroppedOK(d)
  PROVE  DroppedOK(d)'
<1>1. CASE EvidenceOf(d, {"DISCARDED"})
  BY <1>1, EvidenceStays DEF DroppedOK
<1>2. CASE \E c \in DOMAIN calls : calls[c].of = d /\ calls[c].answer = "drop"
  <2>1. PICK c \in DOMAIN calls : calls[c].of = d /\ calls[c].answer = "drop"
    BY <1>2
  <2>2. calls[c].at = "done"
    BY <2>1 DEF ConsumerInv
  <2>. QED
    BY <2>1, <2>2 DEF Kept, DroppedOK
<1>. QED
  BY <1>1, <1>2 DEF DroppedOK

\* The two halves of SpeakersAreAuthentic, and what an answer must be.
AnswerOK(r) ==
  /\ r.to = mail[r.of].user /\ mail[r.of].type \notin ANSWER_TYPES
  /\ r.kind = "ack" => EvidenceOf(r.of, Decided)
  /\ r.kind = "nack" => EvidenceOf(r.of, {"NACKED"})
EffectOK(c) ==
  calls[c].row = "PROCESSED" =>
    /\ MailOf(c).type \in CITY_TYPES => MailOf(c).user = MailOf(c).city
    /\ MailOf(c).type \in CENTRAL_TYPES => MailOf(c).user = "central"

LEMMA SpeakersAre ==
  SpeakersAreAuthentic <=> /\ \A a \in DOMAIN answers : AnswerOK(answers[a])
                           /\ \A c \in DOMAIN calls : EffectOK(c)
BY DEF SpeakersAreAuthentic, AnswerOK, EffectOK

LEMMA AnswerStays ==
  ASSUME ConsumerInv, Kept, UNCHANGED mail, NEW CONSTANT r, AnswerOK(r)
  PROVE  AnswerOK(r)'
BY EvidenceStays DEF AnswerOK

\* Only what the broker vouched for has an effect.
LEMMA EffectIsAuthentic ==
  ASSUME ConsumerTypeOK, NEW d \in Deliveries, CallFor(d) = "ingest"
  PROVE  /\ mail[d].type \in CITY_TYPES => mail[d].user = mail[d].city
         /\ mail[d].type \in CENTRAL_TYPES => mail[d].user = "central"
<1>1. mail[d] \in Mail
  BY MailType
<1>2. mail[d].form # "garbage" /\ Refusal(mail[d]) = "valid"
  BY CallForFacts, PlanFacts
<1>. QED
  BY <1>1, <1>2, ValidIsAuthentic

-----------------------------------------------------------------------------
(* Steps.                                                                  *)

\* The parts of ConsumerInv.
HandOK ==
  /\ hand.at # "idle" => /\ hand.of \in Deliveries /\ broker[hand.of] = "unacked"
                         /\ calls # <<>> /\ TheCall.of = hand.of
  /\ hand.at \in {"pending", "publish", "report", "settle"} =>
       Plan(mail[hand.of]) \in {"ack", "nack"} /\ TheCall.answer = "ack"
  /\ hand.at \in {"publish", "report", "settle"} =>
       /\ answers # <<>> /\ answers[Len(answers)].of = hand.of
       /\ hand.at # "publish" => answers[Len(answers)].sent
       /\ hand.at = "settle" => answers[Len(answers)].row = "PUBLISHED"
CallOK(c) ==
  /\ calls[c].for = CallFor(calls[c].of)
  /\ calls[c].answer # "none" => calls[c].at = "done"
  /\ calls[c].answer = "ack" => calls[c].row \in RowsFor(calls[c].for)
  /\ calls[c].row \in Decided \cup {"DISCARDED", "NACKED"} =>
       calls[c].at = "done" /\ calls[c].row \in RowsFor(calls[c].for)

LEMMA InvIs == ConsumerInv <=> HandOK /\ (\A c \in DOMAIN calls : CallOK(c)) /\ BooksOK
BY DEF ConsumerInv, HandOK, CallOK, BooksOK

Inductive == /\ ConsumerTypeOK /\ ConsumerInv
             /\ OneOutcome /\ SettledIsAccounted /\ SpeakersAreAuthentic

LEMMA MasterKeeps ==
  ASSUME Inductive, NEW c \in DOMAIN calls, MasterStep(c)
  PROVE  Inductive'
<1>. USE DEF Inductive
<1>1. UNCHANGED <<mail, broker, hand, answers>> /\ faults' \in 0..MaxFaults
  BY MasterStepIs
<1>2. PICK at \in {"received", "done"}, row \in INBOUND,
           answer \in {"none", "ack", "drop", "retry"} : Handled(c, at, row, answer)
  BY MasterStepIs
<1>3. /\ Kept /\ calls' \in Seq(Call) /\ DOMAIN calls' = DOMAIN calls
      /\ Len(calls') = Len(calls)
      /\ \A k \in DOMAIN calls : k # c => calls'[k] = calls[k]
      /\ calls'[c].of = calls[c].of /\ calls'[c].for = calls[c].for
      /\ calls'[c].at = at /\ calls'[c].row = row /\ calls'[c].answer = answer
  BY <1>2, MasterKeepsCalls
<1>4. /\ claims' \in [Idpks -> Deliveries \cup {0}] /\ effects' \in [Idpks -> Nat]
      /\ BooksOK' /\ OneOutcome'
  BY <1>3, MasterBooks
<1>5. ConsumerTypeOK'
  BY <1>1, <1>3, <1>4 DEF ConsumerTypeOK, Idpks, Deliveries, Call, AnswerRow
<1>6. HandOK /\ \A k \in DOMAIN calls : CallOK(k)
  BY InvIs
<1>7. \A k \in DOMAIN calls' : CallOK(k)'
  <2>1. \A d : CallFor(d)' = CallFor(d)
    BY <1>1 DEF CallFor
  <2>2. CallOK(c)'
    BY <1>2, <1>3, <1>6, <2>1 DEF CallOK, Handled
  <2>3. ASSUME NEW k \in DOMAIN calls, k # c
        PROVE  CallOK(k)'
    BY <1>3, <1>6, <2>1, <2>3 DEF CallOK
  <2>. QED
    BY <1>3, <2>2, <2>3
<1>8. HandOK'
  <2>1. Len(calls) \in Nat /\ DOMAIN calls = 1..Len(calls)
    BY MailType
  <2>2. ASSUME hand.at # "idle"
        PROVE  /\ calls' # <<>> /\ TheCall'.of = TheCall.of
               /\ TheCall.answer = "ack" => TheCall'.answer = "ack"
    <3>1. Len(calls) \in DOMAIN calls
      BY <1>6, <2>1, <2>2 DEF HandOK
    <3>2. calls'[Len(calls)].of = calls[Len(calls)].of
      BY <1>3, <3>1
    <3>3. calls[Len(calls)].answer = "ack" => calls'[Len(calls)] = calls[Len(calls)]
      BY <1>3, <1>6, <3>1 DEF Kept, CallOK
    <3>4. calls' # <<>>
      BY <1>3, <3>1
    <3>. QED
      BY <1>3, <3>2, <3>3, <3>4 DEF TheCall
  <2>. QED
    BY <1>1, <1>6, <2>2 DEF HandOK, Deliveries
<1>9. ConsumerInv'
  BY <1>4, <1>7, <1>8 DEF ConsumerInv, HandOK, CallOK, BooksOK
<1>10. SettledIsAccounted'
  <2>1. \A d \in Deliveries : /\ broker'[d] = "acked" => AckedOK(d)'
                              /\ broker'[d] = "rejected" => DroppedOK(d)'
    BY <1>1, <1>3, AccountsAre, AckedStays, DroppedStays
  <2>2. (\A d \in Deliveries : /\ broker[d] = "acked" => AckedOK(d)
                               /\ broker[d] = "rejected" => DroppedOK(d))'
    BY <1>1, <2>1 DEF Deliveries
  <2>. QED
    BY <2>2, AccountsAre, PTL
<1>11. SpeakersAreAuthentic'
  <2>1. \A a \in DOMAIN answers : AnswerOK(answers[a])
    BY SpeakersAre
  <2>2. (\A a \in DOMAIN answers : AnswerOK(answers[a]))'
    BY <1>1, <1>3, <2>1, AnswerStays
  <2>3. ASSUME NEW k \in DOMAIN calls
        PROVE  EffectOK(k)'
    <3>1. k \in DOMAIN calls' /\ calls'[k].of = calls[k].of /\ calls[k].of \in Deliveries
          /\ MailOf(k)' = mail[calls[k].of]
      BY <1>1, <1>3, MailType DEF Call, MailOf
    <3>2. ASSUME calls'[k].row = "PROCESSED"
          PROVE  CallFor(calls[k].of) = "ingest"
      <4>1. calls'[k].for = CallFor(calls[k].of) /\ calls'[k].row \in RowsFor(calls'[k].for)
        BY <1>1, <1>3, <1>7, <3>1, <3>2 DEF CallOK, CallFor, Decided
      <4>. QED
        BY <3>2, <4>1, CallForFacts DEF RowsFor
    <3>. QED
      BY <3>1, <3>2, EffectIsAuthentic DEF EffectOK
  <2>4. (\A k \in DOMAIN calls : EffectOK(k))'
    BY <1>3, <2>3
  <2>. QED
    BY <2>2, <2>4 DEF SpeakersAreAuthentic, AnswerOK, EffectOK
<1>. QED
  BY <1>4, <1>5, <1>9, <1>10, <1>11

\* A new delivery, and the call for it.
LEMMA TakeKeeps ==
  ASSUME Inductive, NEW d \in Deliveries, Take(d)
  PROVE  Inductive'
<1>. USE DEF Inductive
<1>. DEFINE e == [of |-> d, for |-> CallFor(d), at |-> "sent", row |-> "none", answer |-> "none"]
<1>1. /\ hand.at = "idle" /\ broker[d] = "ready"
      /\ broker' = [broker EXCEPT ![d] = "unacked"] /\ hand' = [of |-> d, at |-> "call"]
      /\ calls' = Append(calls, e) /\ UNCHANGED <<mail, claims, effects, answers, faults>>
  BY DEF Take
<1>2. e \in Call /\ e.of = d /\ e.for = CallFor(d) /\ e.row = "none" /\ e.answer = "none"
  BY CallForFacts DEF Call, INBOUND
<1>. HIDE DEF e
<1>3. /\ calls' \in Seq(Call) /\ Len(calls') = Len(calls) + 1
      /\ DOMAIN calls' = 1..Len(calls) + 1 /\ DOMAIN calls = 1..Len(calls)
      /\ Len(calls) \in Nat /\ calls'[Len(calls) + 1] = e
      /\ \A c \in DOMAIN calls : calls'[c] = calls[c]
  BY <1>1, <1>2, MailType DEF ConsumerTypeOK
<1>4. Kept
  BY <1>3 DEF Kept
<1>5. /\ broker' \in [Deliveries -> {"ready", "unacked", "acked", "rejected"}]
      /\ broker'[d] = "unacked" /\ \A f \in Deliveries : f # d => broker'[f] = broker[f]
  BY <1>1 DEF ConsumerTypeOK
<1>6. ConsumerTypeOK'
  BY <1>1, <1>3, <1>5 DEF ConsumerTypeOK, Idpks, Deliveries, Call, AnswerRow
<1>7. HandOK'
  BY <1>1, <1>2, <1>3, <1>5 DEF HandOK, TheCall, Deliveries
<1>8. \A c \in DOMAIN calls' : CallOK(c)'
  <2>1. \A f : CallFor(f)' = CallFor(f)
    BY <1>1 DEF CallFor
  <2>2. \A c \in DOMAIN calls : CallOK(c)
    BY InvIs
  <2>3. ASSUME NEW c \in DOMAIN calls', c = Len(calls) + 1
        PROVE  CallOK(c)'
    BY <1>2, <1>3, <2>1, <2>3 DEF CallOK, Decided
  <2>4. ASSUME NEW c \in DOMAIN calls
        PROVE  CallOK(c)'
    BY <1>3, <2>1, <2>2 DEF CallOK
  <2>5. \A c \in DOMAIN calls' : c \in DOMAIN calls \/ c = Len(calls) + 1
    BY <1>3
  <2>. QED
    BY <2>3, <2>4, <2>5
<1>9. BooksOK' /\ OneOutcome'
  BY <1>1, <1>4, BooksStay
<1>10. ConsumerInv'
  BY <1>7, <1>8, <1>9 DEF ConsumerInv, HandOK, CallOK, BooksOK
<1>12. SettledIsAccounted'
  <2>1. \A f \in Deliveries : /\ broker'[f] = "acked" => AckedOK(f)'
                              /\ broker'[f] = "rejected" => DroppedOK(f)'
    BY <1>1, <1>4, <1>5, AccountsAre, AckedStays, DroppedStays
  <2>2. (\A f \in Deliveries : /\ broker[f] = "acked" => AckedOK(f)
                               /\ broker[f] = "rejected" => DroppedOK(f))'
    BY <1>1, <2>1 DEF Deliveries
  <2>. QED
    BY <2>2 DEF SettledIsAccounted, AckedOK, DroppedOK
<1>13. SpeakersAreAuthentic'
  <2>1. (\A a \in DOMAIN answers : AnswerOK(answers[a]))'
    BY <1>1, <1>4, SpeakersAre, AnswerStays
  <2>2. ASSUME NEW c \in DOMAIN calls'
        PROVE  EffectOK(c)'
    BY <1>1, <1>2, <1>3, SpeakersAre DEF EffectOK, MailOf
  <2>3. (\A c \in DOMAIN calls : EffectOK(c))'
    BY <2>2
  <2>. QED
    BY <2>1, <2>3 DEF SpeakersAreAuthentic, AnswerOK, EffectOK
<1>. QED
  BY <1>6, <1>9, <1>10, <1>12, <1>13

\* Settling the delivery in hand, or going on with it, when the answers to the
\* others are left alone.
LEMMA HandKeeps ==
  ASSUME Inductive, NEW h \in Deliveries, h = hand.of, UNCHANGED <<mail, calls, claims, effects>>,
         faults' \in 0..MaxFaults,
         \/ UNCHANGED broker
         \/ \E fate \in {"ready", "unacked", "acked", "rejected"} :
              broker' = [broker EXCEPT ![h] = fate],
         hand' \in [of: Deliveries \cup {0},
                    at: {"idle", "call", "pending", "publish", "report", "settle"}],
         HandOK', answers' \in Seq(AnswerRow), Len(answers') >= Len(answers),
         \A a \in DOMAIN answers : answers[a].of # h => answers'[a] = answers[a],
         \A a \in DOMAIN answers' : AnswerOK(answers'[a]),
         broker'[h] = "acked" => AckedOK(h)', broker'[h] = "rejected" => DroppedOK(h)'
  PROVE  Inductive'
<1>. USE DEF Inductive
<1>1. Kept
  BY DEF Kept
<1>2. /\ broker' \in [Deliveries -> {"ready", "unacked", "acked", "rejected"}]
      /\ \A d \in Deliveries : d # h => broker'[d] = broker[d]
  BY DEF ConsumerTypeOK
<1>3. ConsumerTypeOK'
  BY <1>2 DEF ConsumerTypeOK, Idpks, Deliveries, Call, AnswerRow
<1>4. BooksOK' /\ OneOutcome'
  BY <1>1, BooksStay
<1>5. (\A c \in DOMAIN calls : CallOK(c))'
  BY InvIs DEF CallOK, CallFor
<1>6. ConsumerInv'
  BY <1>4, <1>5 DEF ConsumerInv, HandOK, CallOK, BooksOK
<1>7. SettledIsAccounted'
  <2>1. /\ \A a \in DOMAIN answers : a \in DOMAIN answers'
        /\ \A a \in DOMAIN answers : answers[a] \in AnswerRow
    BY MailType, LenProperties
  <2>2. ASSUME NEW d \in Deliveries, d # h
        PROVE  /\ broker'[d] = "acked" => AckedOK(d)'
               /\ broker'[d] = "rejected" => DroppedOK(d)'
    BY <1>1, <1>2, <2>1, <2>2, AccountsAre, AckedStays, DroppedStays
  <2>5. (\A d \in Deliveries : /\ broker[d] = "acked" => AckedOK(d)
                               /\ broker[d] = "rejected" => DroppedOK(d))'
    BY <2>2 DEF Deliveries
  <2>. QED
    BY <2>5 DEF SettledIsAccounted, AckedOK, DroppedOK
<1>8. SpeakersAreAuthentic'
  <2>1. (\A a \in DOMAIN answers : AnswerOK(answers[a]))'
    BY <1>1, AnswerStays
  <2>2. (\A c \in DOMAIN calls : EffectOK(c))'
    BY SpeakersAre DEF EffectOK, MailOf
  <2>. QED
    BY <2>1, <2>2 DEF SpeakersAreAuthentic, AnswerOK, EffectOK
<1>. QED
  BY <1>3, <1>4, <1>6, <1>7, <1>8

\* The delivery in hand, the call that took it, and the bound of faults.
LEMMA HandFacts ==
  ASSUME Inductive, hand.at # "idle"
  PROVE  /\ hand.of \in Deliveries /\ broker[hand.of] = "unacked"
         /\ (Fault \/ NoFault) => faults' \in 0..MaxFaults
         /\ Len(calls) \in DOMAIN calls /\ TheCall = calls[Len(calls)]
         /\ TheCall.of = hand.of /\ TheCall.for = CallFor(hand.of)
         /\ TheCall.answer = "ack" => TheCall.row \in RowsFor(CallFor(hand.of))
         /\ \A a \in DOMAIN answers : AnswerOK(answers[a])
<1>. USE DEF Inductive
<1>1. /\ hand.of \in Deliveries /\ broker[hand.of] = "unacked"
      /\ calls # <<>> /\ TheCall.of = hand.of
  BY DEF ConsumerInv
<1>2. (Fault \/ NoFault) => faults' \in 0..MaxFaults
  BY <1>1, FaultType
<1>3. Len(calls) \in DOMAIN calls
  <2>1. calls \in Seq(Call)
    BY DEF ConsumerTypeOK
  <2>. QED
    BY <1>1, <2>1, EmptySeq, LenProperties
<1>4. CallOK(Len(calls))
  BY <1>3, InvIs
<1>. QED
  BY <1>1, <1>2, <1>3, <1>4, SpeakersAre DEF CallOK, TheCall

\* An accepted call leaves the evidence that an answer, or an ack, needs.
LEMMA AcceptedFacts ==
  ASSUME Inductive, hand.at # "idle", TheCall.answer = "ack"
  PROVE  /\ Plan(mail[hand.of]) \in {"ignore", "ack"} => EvidenceOf(hand.of, Decided)
         /\ Plan(mail[hand.of]) = "nack" => EvidenceOf(hand.of, {"NACKED"})
         /\ Plan(mail[hand.of]) \in {"garbage", "discard"} => EvidenceOf(hand.of, {"DISCARDED"})
<1>1. /\ Len(calls) \in DOMAIN calls /\ TheCall = calls[Len(calls)]
      /\ TheCall.of = hand.of /\ TheCall.row \in RowsFor(CallFor(hand.of))
  BY HandFacts
<1>2. EvidenceOf(hand.of, RowsFor(CallFor(hand.of)))
  BY <1>1 DEF EvidenceOf
<1>. QED
  BY <1>2, CallForFacts DEF RowsFor

\* The delivery in hand is settled, or returned, and its answers stay.
LEMMA SettleKeeps ==
  ASSUME Inductive, hand.at # "idle", Fault \/ NoFault,
         UNCHANGED <<mail, calls, claims, effects, answers>>,
         NEW fate \in {"ready", "acked", "rejected"}, Settle(fate),
         fate = "acked" => AckedOK(hand.of), fate = "rejected" => DroppedOK(hand.of)
  PROVE  Inductive'
<1>1. PICK h \in Deliveries : h = hand.of
  BY HandFacts
<1>2. /\ faults' \in 0..MaxFaults /\ \A a \in DOMAIN answers : AnswerOK(answers[a])
  BY HandFacts
<1>3. /\ broker' = [broker EXCEPT ![h] = fate] /\ broker'[h] = fate
      /\ hand' = [of |-> 0, at |-> "idle"]
  BY <1>1 DEF Settle, Inductive, ConsumerTypeOK
<1>4. HandOK'
  BY <1>3 DEF HandOK
<1>5. /\ fate = "acked" => AckedOK(h)'
      /\ fate = "rejected" => DroppedOK(h)'
  BY <1>1 DEF AckedOK, DroppedOK, EvidenceOf
<1>6. answers' \in Seq(AnswerRow) /\ Len(answers') >= Len(answers)
  BY MailType DEF Inductive, ConsumerTypeOK
<1>. QED
  BY <1>1, <1>2, <1>3, <1>4, <1>5, <1>6, HandKeeps

\* The answer in hand gets a result; the others stay.
LEMMA EditIs ==
  ASSUME Inductive, hand.at \in {"publish", "report", "settle"},
         NEW sent \in BOOLEAN, NEW row \in {"PENDING", "PUBLISHED", "FAILED"},
         answers' = [answers EXCEPT ![Len(answers)].sent = sent, ![Len(answers)].row = row]
  PROVE  /\ answers' \in Seq(AnswerRow) /\ Len(answers') = Len(answers) /\ answers' # <<>>
         /\ \A a \in DOMAIN answers : answers[a].of # hand.of => answers'[a] = answers[a]
         /\ answers'[Len(answers)].of = hand.of
         /\ answers'[Len(answers)].sent = sent /\ answers'[Len(answers)].row = row
         /\ \A a \in DOMAIN answers' : AnswerOK(answers'[a])
<1>0. PICK n : n = Len(answers)
  OBVIOUS
<1>. DEFINE e == [answers[n] EXCEPT !.sent = sent, !.row = row]
<1>1. /\ answers \in Seq(AnswerRow) /\ n \in 1..Len(answers) /\ DOMAIN answers = 1..n
      /\ answers[n].of = hand.of /\ answers[n] \in AnswerRow
  <2>1. answers \in Seq(AnswerRow) /\ answers # <<>> /\ answers[n].of = hand.of
    BY <1>0 DEF Inductive, ConsumerTypeOK, ConsumerInv
  <2>2. n \in Nat \ {0} /\ DOMAIN answers = 1..n
    BY <1>0, <2>1, EmptySeq, LenProperties
  <2>. QED
    BY <1>0, <2>1, <2>2, ElementOfSeq
<1>2. /\ e \in AnswerRow /\ e.of = answers[n].of /\ e.to = answers[n].to
      /\ e.kind = answers[n].kind /\ e.sent = sent /\ e.row = row
  BY <1>1 DEF AnswerRow
<1>3. answers' = [answers EXCEPT ![n] = e]
  BY <1>0, <1>1
<1>. HIDE DEF e
<1>4. /\ answers' \in Seq(AnswerRow) /\ Len(answers') = Len(answers)
      /\ \A a \in 1..n : answers'[a] = IF a = n THEN e ELSE answers[a]
  BY <1>0, <1>1, <1>2, <1>3, ExceptSeq
<1>5. DOMAIN answers' = 1..n /\ answers' # <<>>
  BY <1>0, <1>1, <1>4, LenProperties
<1>6. \A a \in DOMAIN answers : AnswerOK(answers[a])
  BY HandFacts
<1>7. AnswerOK(e)
  BY <1>1, <1>2, <1>6 DEF AnswerOK
<1>. QED
  BY <1>0, <1>1, <1>2, <1>4, <1>5, <1>6, <1>7

\* The answer that is registered goes where it may.
LEMMA AnswerIs ==
  ASSUME Inductive, hand.at = "pending", answers' = Append(answers, TheAnswer)
  PROVE  /\ answers' \in Seq(AnswerRow) /\ Len(answers') = Len(answers) + 1
         /\ answers' # <<>> /\ answers'[Len(answers')].of = hand.of
         /\ \A a \in DOMAIN answers : answers'[a] = answers[a]
         /\ \A a \in DOMAIN answers' : AnswerOK(answers'[a])
<1>1. /\ hand.of \in Deliveries /\ Plan(mail[hand.of]) \in {"ack", "nack"}
      /\ TheCall.answer = "ack" /\ \A a \in DOMAIN answers : AnswerOK(answers[a])
  BY HandFacts DEF Inductive, ConsumerInv
<1>2. PICK e : e = TheAnswer
  OBVIOUS
<1>3. e \in AnswerRow /\ AnswerOK(e) /\ e.of = hand.of
  <2>1. /\ e.of = hand.of /\ e.kind = Plan(mail[hand.of]) /\ e.row = "PENDING"
        /\ e.sent = FALSE /\ e.to = ResponseRoute(mail[hand.of])
    BY <1>2 DEF TheAnswer
  <2>2. e \in AnswerRow
    BY <1>1, <1>2, PlanFacts DEF TheAnswer, AnswerRow
  <2>3. /\ Plan(mail[hand.of]) = "ack" => EvidenceOf(hand.of, Decided)
        /\ Plan(mail[hand.of]) = "nack" => EvidenceOf(hand.of, {"NACKED"})
    BY <1>1, AcceptedFacts
  <2>. QED
    BY <1>1, <2>1, <2>2, <2>3, PlanFacts DEF AnswerOK
<1>4. /\ answers' \in Seq(AnswerRow) /\ Len(answers') = Len(answers) + 1
      /\ DOMAIN answers' = 1..Len(answers) + 1 /\ DOMAIN answers = 1..Len(answers)
      /\ Len(answers) \in Nat /\ answers'[Len(answers) + 1] = e
      /\ \A a \in DOMAIN answers : answers'[a] = answers[a]
  BY <1>2, <1>3, MailType DEF Inductive, ConsumerTypeOK
<1>. QED
  BY <1>1, <1>3, <1>4

\* An answer is taken one step further.
LEMMA MoveKeeps ==
  ASSUME Inductive, hand.at # "idle", NoFault,
         UNCHANGED <<mail, broker, calls, claims, effects>>,
         hand.at \in {"pending", "publish", "report"},
         NEW step \in {"publish", "report", "settle"}, hand' = Now(step),
         answers' \in Seq(AnswerRow), Len(answers') >= Len(answers), answers' # <<>>,
         \A a \in DOMAIN answers : answers[a].of # hand.of => answers'[a] = answers[a],
         \A a \in DOMAIN answers' : AnswerOK(answers'[a]),
         answers'[Len(answers')].of = hand.of,
         step # "publish" => answers'[Len(answers')].sent,
         step = "settle" => answers'[Len(answers')].row = "PUBLISHED"
  PROVE  Inductive'
<1>1. PICK h \in Deliveries : h = hand.of
  BY HandFacts
<1>2. faults' \in 0..MaxFaults /\ broker'[h] = "unacked"
  BY <1>1, HandFacts
<1>3. hand'.at = step /\ hand'.of = h
      /\ hand' \in [of: Deliveries \cup {0},
                    at: {"idle", "call", "pending", "publish", "report", "settle"}]
  BY <1>1 DEF Now, Inductive, ConsumerTypeOK
<1>4. HandOK'
  BY <1>1, <1>2, <1>3 DEF HandOK, TheCall, Inductive, ConsumerInv, Deliveries
<1>. QED
  BY <1>1, <1>2, <1>3, <1>4, HandKeeps

\* Writing again what is there.
LEMMA SameRow ==
  ASSUME Inductive, hand.at = "publish",
         answers' = [answers EXCEPT ![Len(answers)].sent = TRUE]
  PROVE  \E row \in {"PENDING", "PUBLISHED", "FAILED"} :
           answers' = [answers EXCEPT ![Len(answers)].sent = TRUE, ![Len(answers)].row = row]
<1>1. Len(answers) \in DOMAIN answers /\ answers[Len(answers)] \in AnswerRow
      /\ answers \in Seq(AnswerRow) /\ DOMAIN answers = 1..Len(answers)
  BY EmptySeq, LenProperties, MailType DEF Inductive, ConsumerInv, ConsumerTypeOK
<1>2. PICK n : n = Len(answers)
  OBVIOUS
<1>3. answers[n].row \in {"PENDING", "PUBLISHED", "FAILED"}
  BY <1>1, <1>2 DEF AnswerRow
<1>4. answers' = [answers EXCEPT ![n].sent = TRUE, ![n].row = answers[n].row]
  BY <1>1, <1>2 DEF AnswerRow
<1>. QED
  BY <1>2, <1>3, <1>4

LEMMA SameSent ==
  ASSUME Inductive, hand.at = "report", NEW row,
         answers' = [answers EXCEPT ![Len(answers)].row = row]
  PROVE  answers' = [answers EXCEPT ![Len(answers)].sent = TRUE, ![Len(answers)].row = row]
<1>1. Len(answers) \in DOMAIN answers /\ answers[Len(answers)] \in AnswerRow
      /\ answers \in Seq(AnswerRow) /\ DOMAIN answers = 1..Len(answers)
  BY EmptySeq, LenProperties, MailType DEF Inductive, ConsumerInv, ConsumerTypeOK
<1>2. PICK n : n = Len(answers)
  OBVIOUS
<1>3. answers[n].sent = TRUE
  BY <1>1, <1>2 DEF AnswerRow, Inductive, ConsumerInv
<1>. QED
  BY <1>1, <1>2, <1>3 DEF AnswerRow

LEMMA ConnectorKeeps ==
  ASSUME Inductive, ConnectorStep
  PROVE  Inductive'
<1>1. ASSUME NEW d \in Deliveries, Take(d)
      PROVE  Inductive'
  BY <1>1, TakeKeeps
<1>2. ASSUME TakenByMaster
      PROVE  Inductive'
  <2>1. /\ hand.at = "call" /\ TheCall.answer = "ack" /\ NoFault
        /\ UNCHANGED <<mail, calls, claims, effects, answers>>
    BY <1>2 DEF TakenByMaster, Answered
  <2>2. ASSUME Plan(mail[hand.of]) \in {"garbage", "discard"}
        PROVE  Inductive'
    <3>1. Settle("rejected") /\ DroppedOK(hand.of)
      BY <1>2, <2>1, <2>2, AcceptedFacts DEF TakenByMaster, DroppedOK
    <3>. QED
      BY <2>1, <3>1, SettleKeeps
  <2>3. ASSUME Plan(mail[hand.of]) = "ignore"
        PROVE  Inductive'
    <3>1. Settle("acked") /\ AckedOK(hand.of)
      BY <1>2, <2>1, <2>3, AcceptedFacts DEF TakenByMaster, AckedOK
    <3>. QED
      BY <2>1, <3>1, SettleKeeps
  <2>4. ASSUME Plan(mail[hand.of]) \in {"ack", "nack"}
        PROVE  Inductive'
    <3>1. hand' = Now("pending") /\ UNCHANGED broker
      BY <1>2, <2>4 DEF TakenByMaster
    <3>2. PICK h \in Deliveries : h = hand.of
      BY <2>1, HandFacts
    <3>3. /\ broker[h] = "unacked" /\ faults' \in 0..MaxFaults
          /\ \A a \in DOMAIN answers : AnswerOK(answers[a])
      BY <2>1, <3>2, HandFacts
    <3>4. hand'.at = "pending" /\ hand'.of = hand.of
          /\ hand' \in [of: Deliveries \cup {0},
                        at: {"idle", "call", "pending", "publish", "report", "settle"}]
      BY <3>1 DEF Now, Inductive, ConsumerTypeOK
    <3>5. HandOK'
      BY <2>1, <2>4, <3>1, <3>2, <3>4 DEF HandOK, TheCall, Inductive, ConsumerInv, Deliveries
    <3>6. answers' \in Seq(AnswerRow) /\ Len(answers') >= Len(answers)
      BY <2>1, MailType DEF Inductive, ConsumerTypeOK
    <3>. QED
      BY <2>1, <3>1, <3>2, <3>3, <3>4, <3>5, <3>6, HandKeeps
  <2>. QED
    BY <2>2, <2>3, <2>4, PlanFacts
<1>3. ASSUME RetryLater \/ ConnectorStops
      PROVE  Inductive'
  BY <1>3, SettleKeeps DEF RetryLater, ConnectorStops
<1>4. ASSUME RefusedByMaster
      PROVE  Inductive'
  <2>1. /\ hand.at = "call" /\ TheCall.answer = "drop" /\ NoFault
        /\ UNCHANGED <<mail, calls, claims, effects, answers>>
        /\ Settle("ready") \/ Settle("rejected")
    BY <1>4 DEF RefusedByMaster, Answered
  <2>2. DroppedOK(hand.of)
    BY <2>1, HandFacts DEF DroppedOK
  <2>. QED
    BY <2>1, <2>2, SettleKeeps
<1>5. ASSUME AckDelivery
      PROVE  Inductive'
  <2>1. /\ hand.at = "settle" /\ NoFault /\ Settle("acked")
        /\ UNCHANGED <<mail, calls, claims, effects, answers>>
    BY <1>5 DEF AckDelivery
  <2>2. /\ Plan(mail[hand.of]) \in {"ack", "nack"} /\ TheCall.answer = "ack"
        /\ answers # <<>> /\ answers[Len(answers)].of = hand.of
        /\ answers[Len(answers)].sent /\ answers[Len(answers)].row = "PUBLISHED"
    BY <2>1 DEF Inductive, ConsumerInv
  <2>3. Len(answers) \in DOMAIN answers
    BY <2>2, EmptySeq, LenProperties DEF Inductive, ConsumerTypeOK
  <2>4. AckedOK(hand.of)
    BY <2>1, <2>2, <2>3, AcceptedFacts DEF AckedOK
  <2>. QED
    BY <2>1, <2>4, SettleKeeps
<1>6. ASSUME RegisterAnswer
      PROVE  Inductive'
  <2>1. /\ hand.at = "pending" /\ NoFault /\ hand' = Now("publish")
        /\ answers' = Append(answers, TheAnswer)
        /\ UNCHANGED <<mail, broker, calls, claims, effects>>
    BY <1>6 DEF RegisterAnswer
  <2>2. /\ answers' \in Seq(AnswerRow) /\ Len(answers') = Len(answers) + 1
        /\ answers' # <<>> /\ answers'[Len(answers')].of = hand.of
        /\ \A a \in DOMAIN answers : answers'[a] = answers[a]
        /\ \A a \in DOMAIN answers' : AnswerOK(answers'[a])
    BY <2>1, AnswerIs
  <2>. QED
    BY <2>1, <2>2, MoveKeeps
<1>7. ASSUME PublishAnswer
      PROVE  Inductive'
  <2>1. /\ hand.at = "publish" /\ NoFault /\ hand' = Now("report")
        /\ answers' = [answers EXCEPT ![Len(answers)].sent = TRUE]
        /\ UNCHANGED <<mail, broker, calls, claims, effects>>
    BY <1>7 DEF PublishAnswer
  <2>2. PICK row \in {"PENDING", "PUBLISHED", "FAILED"} :
          answers' = [answers EXCEPT ![Len(answers)].sent = TRUE, ![Len(answers)].row = row]
    BY <2>1, SameRow
  <2>3. /\ answers' \in Seq(AnswerRow) /\ Len(answers') = Len(answers) /\ answers' # <<>>
        /\ \A a \in DOMAIN answers : answers[a].of # hand.of => answers'[a] = answers[a]
        /\ answers'[Len(answers)].of = hand.of /\ answers'[Len(answers)].sent
        /\ \A a \in DOMAIN answers' : AnswerOK(answers'[a])
    BY <2>1, <2>2, EditIs
  <2>4. answers'[Len(answers')].of = hand.of /\ answers'[Len(answers')].sent
    BY <2>3
  <2>5. Len(answers') >= Len(answers)
    BY <2>3, MailType DEF Inductive
  <2>. QED
    BY <2>1, <2>3, <2>4, <2>5, MoveKeeps
<1>8. ASSUME ReportAnswer
      PROVE  Inductive'
  <2>1. /\ hand.at = "report" /\ NoFault /\ hand' = Now("settle")
        /\ answers' = [answers EXCEPT ![Len(answers)].row = "PUBLISHED"]
        /\ UNCHANGED <<mail, broker, calls, claims, effects>>
    BY <1>8 DEF ReportAnswer
  <2>2. answers' = [answers EXCEPT ![Len(answers)].sent = TRUE,
                                   ![Len(answers)].row = "PUBLISHED"]
    BY <2>1, SameSent DEF Inductive, ConsumerInv
  <2>3. /\ answers' \in Seq(AnswerRow) /\ Len(answers') = Len(answers) /\ answers' # <<>>
        /\ \A a \in DOMAIN answers : answers[a].of # hand.of => answers'[a] = answers[a]
        /\ answers'[Len(answers)].of = hand.of /\ answers'[Len(answers)].sent
        /\ answers'[Len(answers)].row = "PUBLISHED"
        /\ \A a \in DOMAIN answers' : AnswerOK(answers'[a])
    BY <2>1, <2>2, EditIs
  <2>. QED
    BY <2>1, <2>3, MoveKeeps
<1>9. ASSUME AnswerFails
      PROVE  Inductive'
  <2>1. /\ hand.at \in {"pending", "publish", "report"} /\ Fault /\ Settle("ready")
        /\ UNCHANGED <<mail, calls, claims, effects>>
    BY <1>9 DEF AnswerFails
  <2>2. CASE UNCHANGED answers
    BY <2>1, <2>2, SettleKeeps
  <2>3. ASSUME answers' # answers
        PROVE  /\ answers' \in Seq(AnswerRow) /\ Len(answers') >= Len(answers)
               /\ \A a \in DOMAIN answers : answers[a].of # hand.of => answers'[a] = answers[a]
               /\ \A a \in DOMAIN answers' : AnswerOK(answers'[a])
    <3>0. Len(answers) \in Nat
      BY MailType DEF Inductive
    <3>1. CASE hand.at = "pending"
      <4>1. answers' = Append(answers, TheAnswer)
        BY <1>9, <2>3, <3>1 DEF AnswerFails
      <4>. QED
        BY <3>0, <3>1, <4>1, AnswerIs
    <3>2. CASE hand.at = "publish"
      <4>1. PICK sent \in BOOLEAN, row \in {"PENDING", "FAILED"} :
              answers' = [answers EXCEPT ![Len(answers)].sent = sent, ![Len(answers)].row = row]
        BY <1>9, <3>2 DEF AnswerFails
      <4>2. row \in {"PENDING", "PUBLISHED", "FAILED"} /\ hand.at \in {"publish", "report", "settle"}
        BY <3>2
      <4>3. /\ answers' \in Seq(AnswerRow) /\ Len(answers') = Len(answers)
            /\ \A a \in DOMAIN answers : answers[a].of # hand.of => answers'[a] = answers[a]
            /\ \A a \in DOMAIN answers' : AnswerOK(answers'[a])
        BY <4>1, <4>2, EditIs
      <4>. QED
        BY <3>0, <4>3
    <3>3. CASE hand.at = "report"
      <4>1. PICK row \in {"PENDING", "PUBLISHED"} :
              answers' = [answers EXCEPT ![Len(answers)].row = row]
        BY <1>9, <3>3 DEF AnswerFails
      <4>2. answers' = [answers EXCEPT ![Len(answers)].sent = TRUE, ![Len(answers)].row = row]
        BY <3>3, <4>1, SameSent DEF Inductive, ConsumerInv
      <4>3. row \in {"PENDING", "PUBLISHED", "FAILED"} /\ hand.at \in {"publish", "report", "settle"}
        BY <3>3
      <4>4. /\ answers' \in Seq(AnswerRow) /\ Len(answers') = Len(answers)
            /\ \A a \in DOMAIN answers : answers[a].of # hand.of => answers'[a] = answers[a]
            /\ \A a \in DOMAIN answers' : AnswerOK(answers'[a])
        BY <4>2, <4>3, EditIs
      <4>. QED
        BY <3>0, <4>4
    <3>. QED
      BY <2>1, <3>1, <3>2, <3>3
  <2>4. ASSUME answers' # answers
        PROVE  Inductive'
    <3>1. PICK h \in Deliveries : h = hand.of
      BY <2>1, HandFacts
    <3>2. broker' = [broker EXCEPT ![h] = "ready"] /\ hand' = [of |-> 0, at |-> "idle"]
      BY <2>1, <3>1 DEF Settle
    <3>3. HandOK' /\ broker'[h] = "ready"
      BY <3>1, <3>2 DEF HandOK, Inductive, ConsumerTypeOK
    <3>4. faults' \in 0..MaxFaults
      BY <2>1, HandFacts
    <3>. QED
      BY <2>1, <2>3, <2>4, <3>1, <3>2, <3>3, <3>4, HandKeeps
  <2>. QED
    BY <2>2, <2>4
<1>. QED
  BY <1>1, <1>2, <1>3, <1>4, <1>5, <1>6, <1>7, <1>8, <1>9 DEF ConnectorStep

-----------------------------------------------------------------------------
(* Theorems.                                                               *)

LEMMA InductiveInit == ConsumerInit => Inductive
<1>. SUFFICES ASSUME ConsumerInit
              PROVE  Inductive
  OBVIOUS
<1>. USE DEF ConsumerInit
<1>1. /\ DOMAIN calls = {} /\ DOMAIN answers = {} /\ calls \in Seq(Call)
      /\ answers \in Seq(AnswerRow)
  BY EmptySeq
<1>2. ConsumerTypeOK
  BY <1>1, ConsumerAssumption DEF ConsumerTypeOK, Deliveries, Idpks
<1>3. ConsumerInv
  BY <1>1 DEF ConsumerInv, Idpks, Deliveries
<1>4. OneOutcome
  BY DEF OneOutcome, Idpks, Deliveries
<1>5. SettledIsAccounted
  BY DEF SettledIsAccounted, Deliveries
<1>6. SpeakersAreAuthentic
  BY <1>1 DEF SpeakersAreAuthentic
<1>. QED
  BY <1>2, <1>3, <1>4, <1>5, <1>6 DEF Inductive

LEMMA InductiveAlways == ConsumerSpec => []Inductive
<1>1. Inductive /\ [ConsumerNext]_consumerVars => Inductive'
  <2>. SUFFICES ASSUME Inductive, [ConsumerNext]_consumerVars
                PROVE  Inductive'
    OBVIOUS
  <2>1. CASE UNCHANGED consumerVars
    BY <2>1 DEF consumerVars, Inductive, ConsumerTypeOK, ConsumerInv, OneOutcome,
                SettledIsAccounted, SpeakersAreAuthentic, Deliveries, Idpks, EvidenceOf,
                MailOf, TheCall, CallFor, Call, AnswerRow
  <2>. QED
    BY <2>1, ConnectorKeeps, MasterKeeps DEF ConsumerNext
<1>. QED
  BY <1>1, InductiveInit, PTL DEF ConsumerSpec

\* Every state of the queue, the calls, the claims and the answers is well
\* typed (connector.consume_forever, internal_messages.ingest_protocol_message).
THEOREM ConsumerTypeCorrect == ConsumerSpec => []ConsumerTypeOK
BY InductiveAlways, PTL DEF Inductive

\* What makes the rest inductive: the delivery in hand, its call and its answer
\* belong together (connector.consume_forever).
THEOREM ConsumerInvariant == ConsumerSpec => []ConsumerInv
BY InductiveAlways, PTL DEF Inductive

\* One effect for an idpk, and no claim without its operation
\* (internal_messages.claim_idpk).
THEOREM EffectsHappenOnce == ConsumerSpec => []OneOutcome
BY InductiveAlways, PTL DEF Inductive

\* Nothing leaves the queue unaccounted for
\* (connector.complete_successful_message, connector.forward_to_master).
THEOREM NothingIsLost == ConsumerSpec => []SettledIsAccounted
BY InductiveAlways, PTL DEF Inductive

\* Nobody speaks for another (connector.authenticated_inbound_route,
\* connector.plan_protocol_response).
THEOREM NobodyForges == ConsumerSpec => []SpeakersAreAuthentic
BY InductiveAlways, PTL DEF Inductive
-----------------------------------------------------------------------------
(* The least of some numbers, and the exchange of a row.                   *)

LEMMA LeastIs ==
  ASSUME NEW N \in SUBSET Nat, N # {}
  PROVE  Least(N) \in N /\ \A m \in N : Least(N) <= m
<1>1. PICK a \in N : TRUE
  OBVIOUS
<1>. DEFINE upto(n) == 0..n
            W == 0..a
            F == {upto(n) : n \in {m \in N : m <= a}}
<1>2. IsFiniteSet(W)
  BY FS_Interval
<1>3. F \subseteq SUBSET W /\ F # {}
  <2>1. a \in {m \in N : m <= a} /\ \A n \in {m \in N : m <= a} : upto(n) \subseteq W
    OBVIOUS
  <2>. HIDE DEF upto, W
  <2>. QED
    BY <2>1
<1>4. PICK x \in F : \A y \in F : <<y, x>> \notin StrictSubsetOrdering(W)
  <2>. HIDE DEF F, W
  <2>1. F \subseteq FiniteSubsetsOf(W)
    BY <1>2, <1>3, FS_Subset DEF FiniteSubsetsOf
  <2>. QED
    BY <2>1, <1>3, FS_StrictSubsetOrderingWellFounded, WFMin
<1>5. PICK n \in N : n <= a /\ x = upto(n)
  BY <1>4
<1>6. ASSUME NEW m \in N, ~(n <= m)
      PROVE  FALSE
  <2>1. m < n /\ m <= a
    BY <1>5, <1>6
  <2>2. upto(m) \in F /\ upto(n) \in F
    BY <1>5, <2>1
  <2>3. upto(m) \subseteq upto(n) /\ upto(m) # upto(n)
    <3>1. n \in upto(n) /\ n \notin upto(m) /\ upto(m) \subseteq upto(n)
      BY <2>1
    <3>. QED
      BY <3>1
  <2>4. <<upto(m), x>> \in StrictSubsetOrdering(W)
    <3>. HIDE DEF upto, F, W
    <3>. QED
      BY <1>3, <1>5, <2>2, <2>3 DEF StrictSubsetOrdering
  <2>. QED
    BY <1>4, <2>2, <2>4
<1>. QED
  BY <1>6 DEF Least

LEMMA OnWireIs ==
  ASSUME NEW r, rows[r] \in RowType
  PROVE  /\ OnWire(r).row = r /\ OnWire(r).exchange \in {"market", "directed"}
         /\ OnWire(r).exchange = "market" <=> rows[r].type \in MARKET_ROWS
         /\ OnWire(r) = [row |-> r, exchange |-> OnWire(r).exchange]
<1>1. rows[r].type \in MARKET_ROWS \cup {"request", "bid"}
  BY DEF RowType
<1>2. CASE rows[r].type \in MARKET_ROWS
  BY <1>2 DEF OnWire, Destination, MARKET_ROWS, OFFER_TYPES, BID_ROWS, CENTRAL_ROWS, LEGACY_ROWS
<1>3. CASE rows[r].type \in {"request", "bid"} /\ rows[r].type \notin MARKET_ROWS
  BY <1>3 DEF OnWire, Destination, BID_ROWS, CENTRAL_ROWS, LEGACY_ROWS
<1>. QED
  BY <1>1, <1>2, <1>3

-----------------------------------------------------------------------------
(* The invariant, part by part.                                            *)

WireType == [row: DOMAIN rows, exchange: {"market", "directed"}]
Steps == {"poll", "item", "publish", "report", "failed"}
Market == {r \in DOMAIN rows : rows[r].type \in MARKET_ROWS}
Sent == {wire[i].row : i \in DOMAIN wire}

RowsT == rows \in Seq(RowType)
WireT == wire \in Seq(WireType)
ConnT == conn \in [batch: SUBSET DOMAIN rows, at: Steps] /\ (conn.at = "poll" <=> conn.batch = {})
LateT == late \subseteq [row: DOMAIN rows, result: {"PUBLISHED", "FAILED"}]
UsedT == /\ \A c \in Categories : used[c] \in [1..Limit[c] -> 0..Minute]
         /\ DOMAIN used = Categories
BidT == bid \in [status: {"none", "PENDING", "over"}, row: {0} \cup DOMAIN rows]
RestT == /\ time \in 0..ClosesAt /\ offer \in {"none", "ACTIVE", "WITHDRAWN", "CLOSED"}
         /\ asking \subseteq {"ledger", "gap"} /\ losses \in 0..MaxLosses

LEMMA OutboxTypeIs ==
  OutboxTypeOK <=> RowsT /\ WireT /\ ConnT /\ LateT /\ UsedT /\ BidT /\ RestT
BY DEF OutboxTypeOK, RowsT, WireT, WireType, ConnT, Steps, LateT, UsedT, BidT, RestT

LEMMA OutboxTypeNext ==
  RowsT' /\ WireT' /\ ConnT' /\ LateT' /\ UsedT' /\ BidT' /\ RestT' => OutboxTypeOK'
BY OutboxTypeIs, PTL

\* The parts of TurnsKept.
TurnsPassed == \A r \in Market \cap (Sent \cup conn.batch) : \A e \in Market :
                 e < r => rows[e].status = "PUBLISHED"
NoneAfter == \A r \in Market \cap conn.batch : \A e \in Market \cap (Sent \cup conn.batch) : e <= r
ReportsTrue == /\ conn.at = "report" => This \in Sent
               /\ \A l \in late : l.result = "PUBLISHED" => l.row \in Sent
ExchangeRight == \A i \in DOMAIN wire : wire[i].exchange = "market" <=> wire[i].row \in Market

LEMMA TurnsKeptIs ==
  TurnsKept <=> TurnsPassed /\ NoneAfter /\ ReportsTrue /\ ExchangeRight
BY DEF TurnsKept, TurnsPassed, NoneAfter, ReportsTrue, ExchangeRight, Market, Sent

OutboxOK == OutboxTypeOK /\ TurnsKept /\ PublishedIsOnWire /\ MarketInOrder

\* The rows qs follow the rows rs: none is lost, none changes its type, and
\* what is PUBLISHED stays so.
Follows(rs, qs) ==
  /\ qs \in Seq(RowType) /\ DOMAIN rs \subseteq DOMAIN qs
  /\ \A r \in DOMAIN rs : /\ qs[r].type = rs[r].type
                          /\ rs[r].status = "PUBLISHED" => qs[r].status = "PUBLISHED"
\* And none is recorded as PUBLISHED that was not published.
Honest(rs, qs) == \A r \in DOMAIN qs : qs[r].status = "PUBLISHED" =>
                    r \in DOMAIN rs /\ (rs[r].status = "PUBLISHED" \/ r \in Sent)

LEMMA TypesCarry ==
  ASSUME OutboxTypeOK, Follows(rows, rows')
  PROVE  /\ RowsT'
         /\ UNCHANGED wire => WireT'
         /\ UNCHANGED late => LateT'
         /\ UNCHANGED conn => ConnT'
         /\ UNCHANGED used => UsedT'
         /\ UNCHANGED bid => BidT'
         /\ UNCHANGED <<time, offer, asking, losses>> => RestT'
<1>1. RowsT /\ WireT /\ ConnT /\ LateT /\ UsedT /\ BidT /\ RestT
  BY OutboxTypeIs
<1>2. DOMAIN rows \subseteq DOMAIN rows' /\ rows' \in Seq(RowType)
  BY DEF Follows
<1>3. RowsT'
  BY <1>2 DEF RowsT, RowType
<1>4. WireType \subseteq WireType'
  BY <1>2 DEF WireType
<1>5. wire \in Seq(WireType')
  <2>. DEFINE T == WireType'
  <2>1. WireType \subseteq T
    BY <1>4
  <2>. HIDE DEF T
  <2>2. wire \in [1..Len(wire) -> WireType] /\ Len(wire) \in Nat
    BY <1>1 DEF WireT
  <2>3. wire \in [1..Len(wire) -> T]
    BY <2>1, <2>2
  <2>4. wire \in Seq(T)
    BY <2>2, <2>3, SeqDef
  <2>. QED
    BY <2>4 DEF T
<1>6. UNCHANGED wire => WireT'
  BY <1>5 DEF WireT
<1>7. (UNCHANGED late => LateT') /\ (UNCHANGED conn => ConnT') /\ (UNCHANGED bid => BidT')
  BY <1>1, <1>2 DEF LateT, ConnT, BidT, Steps
<1>8. (UNCHANGED used => UsedT') /\ (UNCHANGED <<time, offer, asking, losses>> => RestT')
  BY <1>1 DEF UsedT, RestT
<1>. QED
  BY <1>3, <1>6, <1>7, <1>8

\* What is where, in a well-typed state.
LEMMA OutboxFacts ==
  ASSUME OutboxTypeOK
  PROVE  /\ DOMAIN rows = 1..Len(rows) /\ Len(rows) \in Nat
         /\ DOMAIN wire = 1..Len(wire) /\ Len(wire) \in Nat
         /\ \A i \in DOMAIN wire : wire[i].row \in DOMAIN rows
         /\ \A r \in DOMAIN rows : rows[r] \in RowType
         /\ Sent \subseteq DOMAIN rows /\ conn.batch \subseteq DOMAIN rows
         /\ conn.at # "poll" => This \in conn.batch /\ This \in DOMAIN rows /\ This \in Nat
<1>1. RowsT /\ WireT /\ ConnT
  BY OutboxTypeIs
<1>2. DOMAIN rows = 1..Len(rows) /\ Len(rows) \in Nat /\ \A r \in DOMAIN rows : rows[r] \in RowType
  BY <1>1 DEF RowsT
<1>3. /\ DOMAIN wire = 1..Len(wire) /\ Len(wire) \in Nat
      /\ \A i \in DOMAIN wire : wire[i] \in WireType
  BY <1>1 DEF WireT
<1>4. \A i \in DOMAIN wire : wire[i].row \in DOMAIN rows
  BY <1>3 DEF WireType
<1>5. conn.batch \subseteq DOMAIN rows /\ (conn.at # "poll" => conn.batch # {})
  BY <1>1 DEF ConnT
<1>6. ASSUME conn.at # "poll" PROVE This \in conn.batch
  <2>1. conn.batch \in SUBSET Nat /\ conn.batch # {}
    BY <1>2, <1>5, <1>6
  <2>. QED
    BY <2>1, LeastIs DEF This
<1>. QED
  BY <1>2, <1>3, <1>4, <1>5, <1>6 DEF Sent

-----------------------------------------------------------------------------
(* What a step has to show.                                                *)

\* A step that publishes nothing, and takes up only rows that are due.
TakesDue == \A r \in conn'.batch : rows'[r].type \in MARKET_ROWS => r \in DOMAIN rows /\ Due(r)

LEMMA DueInTurn ==
  ASSUME OutboxTypeOK, NEW r \in DOMAIN rows, Due(r)
  PROVE  /\ rows[r].status # "PUBLISHED"
         /\ r \in Market => \A e \in Market : e < r => rows[e].status = "PUBLISHED"
BY OutboxFacts DEF Due, Eligible, Retried, InTurn, Market

LEMMA QuietOutbox ==
  ASSUME OutboxOK, OutboxTypeOK', Follows(rows, rows'), Honest(rows, rows'), UNCHANGED wire,
         conn'.batch \subseteq conn.batch \/ TakesDue, conn'.at = "report" => conn' = conn,
         \A l \in late' : l.result = "PUBLISHED" => l.row \in Sent
  PROVE  OutboxOK'
<1>1. /\ TurnsPassed /\ NoneAfter /\ ReportsTrue /\ ExchangeRight
      /\ OutboxTypeOK /\ PublishedIsOnWire /\ MarketInOrder
  BY TurnsKeptIs DEF OutboxOK
<1>2. /\ DOMAIN rows = 1..Len(rows) /\ Len(rows) \in Nat
      /\ \A i \in DOMAIN wire : wire[i].row \in DOMAIN rows
      /\ Sent \subseteq DOMAIN rows /\ conn.batch \subseteq DOMAIN rows
  BY <1>1, OutboxFacts
<1>3. DOMAIN rows' = 1..Len(rows') /\ Len(rows') \in Nat
  BY DEF Follows
<1>4. /\ \A r \in DOMAIN rows : r \in Market' <=> r \in Market
      /\ \A r \in Market' : r \notin DOMAIN rows => \A e \in DOMAIN rows : e < r
      /\ Sent' = Sent
  BY <1>2, <1>3 DEF Market, Sent, Follows
<1>5. TurnsPassed'
  <2>1. ASSUME NEW r \in Market' \cap (Sent' \cup conn'.batch), NEW e \in Market', e < r
        PROVE  rows'[e].status = "PUBLISHED"
    <3>1. r \in DOMAIN rows /\ r \in Market
          /\ (r \in Sent \cup conn.batch \/ Due(r))
      BY <1>2, <1>4 DEF TakesDue, Market
    <3>2. e \in DOMAIN rows /\ e \in Market
      BY <1>2, <1>3, <1>4, <2>1, <3>1 DEF Market
    <3>3. rows[e].status = "PUBLISHED"
      BY <1>1, <2>1, <3>1, <3>2, DueInTurn DEF TurnsPassed
    <3>. QED
      BY <3>2, <3>3 DEF Follows
  <2>. QED
    BY <2>1 DEF TurnsPassed
<1>6. NoneAfter'
  <2>1. CASE conn'.batch \subseteq conn.batch
    BY <1>1, <1>2, <1>4, <2>1 DEF NoneAfter
  <2>2. CASE TakesDue
    <3>1. \A r \in Market' \cap conn'.batch : r \in DOMAIN rows /\ r \in Market /\ Due(r)
      BY <1>4, <2>2 DEF TakesDue, Market
    <3>2. ASSUME NEW r \in Market' \cap conn'.batch, NEW e \in Market' \cap (Sent' \cup conn'.batch),
                 ~(e <= r)
          PROVE  FALSE
      <4>1. e \in DOMAIN rows /\ e \in Market /\ (e \in Sent \/ Due(e))
        BY <1>2, <1>4, <3>1
      <4>2. r < e
        BY <1>2, <3>1, <3>2, <4>1
      <4>3. rows[r].status = "PUBLISHED"
        BY <1>1, <3>1, <4>1, <4>2, DueInTurn DEF TurnsPassed
      <4>. QED
        BY <1>1, <3>1, <4>3, DueInTurn
    <3>. QED
      BY <3>2 DEF NoneAfter
  <2>. QED
    BY <2>1, <2>2
<1>7. ReportsTrue'
  BY <1>1, <1>4 DEF ReportsTrue, This
<1>8. ExchangeRight'
  BY <1>1, <1>2, <1>4 DEF ExchangeRight
<1>9. PublishedIsOnWire'
  BY <1>1 DEF PublishedIsOnWire, Honest, Sent
<1>10. MarketInOrder'
  <2>1. Feed' = Feed
    BY DEF Feed
  <2>2. ASSUME NEW j \in Feed PROVE wire[j].row \in DOMAIN rows /\ rows'[wire[j].row].type \in MARKET_ROWS
    BY <1>1, <1>2, <2>2 DEF MarketInOrder, Feed, Follows
  <2>3. ASSUME NEW j \in Feed, NEW r \in Market', r < wire[j].row
        PROVE  \E i \in Feed : i < j /\ wire[i].row = r
    <3>1. r \in Market
      BY <1>2, <1>3, <1>4, <2>2, <2>3 DEF Market
    <3>. QED
      BY <1>1, <2>3, <3>1 DEF MarketInOrder, Market
  <2>4. ASSUME NEW j \in Feed, NEW r \in Market', r > wire[j].row, NEW i \in Feed, i < j
        PROVE  wire[i].row # r
    <3>1. wire[i].row \in DOMAIN rows
      BY <2>2
    <3>2. CASE r \in DOMAIN rows
      BY <1>1, <1>4, <2>4, <3>2 DEF MarketInOrder, Market
    <3>. QED
      BY <3>1, <3>2
  <2>. QED
    BY <2>1, <2>2, <2>3, <2>4 DEF MarketInOrder, Market
<1>11. TurnsKept'
  BY <1>5, <1>6, <1>7, <1>8
  DEF TurnsKept, TurnsPassed, NoneAfter, ReportsTrue, ExchangeRight, Market, Sent
<1>. QED
  BY <1>9, <1>10, <1>11 DEF OutboxOK

\* The broker takes the row in the connector's hands.
LEMMA WireStep ==
  ASSUME OutboxOK, OutboxTypeOK', UNCHANGED <<rows, late>>, conn.at = "publish",
         wire' = Append(wire, OnWire(This)), conn'.batch \subseteq conn.batch,
         conn'.at = "report" => conn'.batch = conn.batch
  PROVE  OutboxOK'
<1>1. /\ TurnsPassed /\ NoneAfter /\ ReportsTrue /\ ExchangeRight
      /\ OutboxTypeOK /\ PublishedIsOnWire /\ MarketInOrder
  BY TurnsKeptIs DEF OutboxOK
<1>. DEFINE s == This
            w == OnWire(s)
            k == Len(wire) + 1
<1>2. /\ DOMAIN rows = 1..Len(rows) /\ Len(rows) \in Nat
      /\ DOMAIN wire = 1..Len(wire) /\ Len(wire) \in Nat
      /\ \A i \in DOMAIN wire : wire[i].row \in DOMAIN rows
      /\ s \in conn.batch /\ s \in DOMAIN rows /\ rows[s] \in RowType
  BY <1>1, OutboxFacts
<1>3. /\ w.row = s /\ w.exchange \in {"market", "directed"}
      /\ w.exchange = "market" <=> s \in Market
  BY <1>2, OnWireIs DEF Market
<1>4. wire' = Append(wire, w)
  OBVIOUS
<1>. HIDE DEF w, s
<1>5. /\ DOMAIN wire' = 1..k /\ wire'[k] = w /\ \A i \in DOMAIN wire : wire'[i] = wire[i]
      /\ k \in DOMAIN wire' /\ k \notin DOMAIN wire
      /\ \A i \in DOMAIN wire' : i = k \/ i \in DOMAIN wire
      /\ \A i \in DOMAIN wire : i \in DOMAIN wire' /\ i < k
  <2>1. wire \in Seq(WireType) /\ w \in WireType
    BY <1>1, <1>2, <1>3, OnWireIs, OutboxTypeIs DEF WireT, WireType, w
  <2>. HIDE DEF k
  <2>2. Len(Append(wire, w)) = Len(wire) + 1 /\ Append(wire, w) \in Seq(WireType)
        /\ \A i \in 1..Len(wire) : Append(wire, w)[i] = wire[i]
        /\ Append(wire, w)[Len(wire) + 1] = w
    BY <2>1, AppendProperties
  <2>3. DOMAIN wire' = 1..(Len(wire) + 1)
    BY <1>4, <2>2
  <2>. QED
    BY <1>2, <1>4, <2>2, <2>3 DEF k
<1>. HIDE DEF k
<1>6. Sent' = Sent \cup {s}
  BY <1>3, <1>5 DEF Sent
<1>7. Market' = Market
  BY DEF Market
<1>8. TurnsPassed'
  BY <1>1, <1>2, <1>6, <1>7 DEF TurnsPassed
<1>9. NoneAfter'
  BY <1>1, <1>2, <1>6, <1>7 DEF NoneAfter
<1>10. ReportsTrue'
  <2>1. conn'.at = "report" => This' = s
    BY DEF This, s
  <2>. QED
    BY <1>1, <1>6, <2>1 DEF ReportsTrue
<1>11. ExchangeRight'
  BY <1>1, <1>3, <1>5, <1>7 DEF ExchangeRight
<1>12. PublishedIsOnWire'
  BY <1>1, <1>5 DEF PublishedIsOnWire
<1>13. MarketInOrder'
  <2>1. /\ \A i \in DOMAIN wire : i \in Feed' <=> i \in Feed
        /\ k \in Feed' <=> s \in Market
        /\ \A i \in Feed' : i = k \/ i \in Feed
        /\ Feed \subseteq DOMAIN wire
    BY <1>3, <1>5 DEF Feed
  <2>2. ASSUME NEW j \in Feed
        PROVE  /\ rows[wire'[j].row].type \in MARKET_ROWS
               /\ \A r \in Market :
                    /\ r < wire'[j].row => \E i \in Feed' : i < j /\ wire'[i].row = r
                    /\ r > wire'[j].row => \A i \in Feed' : i < j => wire'[i].row # r
    <3>1. j \in DOMAIN wire /\ wire'[j] = wire[j] /\ ~(k < j)
      BY <1>2, <1>5, <2>1, <2>2 DEF k
    <3>. QED
      BY <1>1, <1>2, <1>5, <2>1, <2>2, <3>1 DEF MarketInOrder, Market
  <2>3. ASSUME s \in Market
        PROVE  /\ rows[wire'[k].row].type \in MARKET_ROWS
               /\ \A r \in Market :
                    /\ r < wire'[k].row => \E i \in Feed' : i < k /\ wire'[i].row = r
                    /\ r > wire'[k].row => \A i \in Feed' : i < k => wire'[i].row # r
    <3>1. wire'[k].row = s /\ rows[s].type \in MARKET_ROWS
      BY <1>3, <1>5, <2>3 DEF Market
    <3>2. ASSUME NEW r \in Market, r < s PROVE \E i \in Feed' : i < k /\ wire'[i].row = r
      <4>1. rows[r].status = "PUBLISHED" /\ r \in DOMAIN rows
        BY <1>1, <1>2, <2>3, <3>2 DEF TurnsPassed, Market
      <4>2. PICK i \in DOMAIN wire : wire[i].row = r
        BY <1>1, <4>1 DEF PublishedIsOnWire
      <4>3. i \in Feed
        BY <1>1, <3>2, <4>2 DEF ExchangeRight, Feed
      <4>. QED
        BY <1>5, <2>1, <4>2, <4>3
    <3>3. ASSUME NEW r \in Market, r > s, NEW i \in Feed', i < k PROVE wire'[i].row # r
      <4>1. i \in DOMAIN wire /\ wire'[i] = wire[i]
        BY <1>2, <1>5, <2>1, <3>3 DEF k
      <4>2. r \notin Sent
        BY <1>1, <1>2, <2>3, <3>3 DEF NoneAfter, Market
      <4>. QED
        BY <4>1, <4>2 DEF Sent
    <3>. QED
      BY <3>1, <3>2, <3>3
  <2>4. ASSUME NEW j \in Feed'
        PROVE  /\ rows'[wire'[j].row].type \in MARKET_ROWS
               /\ \A r \in DOMAIN rows' : rows'[r].type \in MARKET_ROWS =>
                    /\ r < wire'[j].row => \E i \in Feed' : i < j /\ wire'[i].row = r
                    /\ r > wire'[j].row => \A i \in Feed' : i < j => wire'[i].row # r
    <3>1. rows' = rows
      OBVIOUS
    <3>2. CASE j = k /\ s \in Market
      BY <2>3, <3>1, <3>2 DEF Market
    <3>3. CASE j \in Feed
      BY <2>2, <3>1, <3>3 DEF Market
    <3>. QED
      BY <2>1, <2>4, <3>2, <3>3
  <2>. QED
    BY <2>4 DEF MarketInOrder
<1>14. TurnsKept'
  BY <1>8, <1>9, <1>10, <1>11
  DEF TurnsKept, TurnsPassed, NoneAfter, ReportsTrue, ExchangeRight, Market, Sent
<1>. QED
  BY <1>12, <1>13, <1>14 DEF OutboxOK

-----------------------------------------------------------------------------
(* How the rows change.                                                    *)

RowTypes == MARKET_ROWS \cup {"request", "bid"}

LEMMA RowIs ==
  ASSUME NEW type \in RowTypes, NEW until \in Nat
  PROVE  Row(type, until) \in RowType /\ Row(type, until).status = "PENDING"
         /\ Row(type, until).type = type
BY DEF Row, RowType, RowTypes

LEMMA SameRows ==
  ASSUME OutboxTypeOK, UNCHANGED rows
  PROVE  Follows(rows, rows') /\ Honest(rows, rows')
BY OutboxTypeIs DEF RowsT, Follows, Honest

\* Each row changes by itself.
LEMMA EachRow ==
  ASSUME NEW rs \in Seq(RowType), NEW qs, DOMAIN qs = DOMAIN rs, qs = [r \in DOMAIN rs |-> qs[r]],
         \A r \in DOMAIN rs :
           /\ qs[r] \in RowType /\ qs[r].type = rs[r].type
           /\ rs[r].status = "PUBLISHED" => qs[r].status = "PUBLISHED"
           /\ qs[r].status = "PUBLISHED" => rs[r].status = "PUBLISHED" \/ r \in Sent
  PROVE  Follows(rs, qs) /\ Honest(rs, qs) /\ Len(qs) = Len(rs)
<1>1. DOMAIN rs = 1..Len(rs) /\ Len(rs) \in Nat
  OBVIOUS
<1>2. qs \in [1..Len(rs) -> RowType]
  BY <1>1
<1>3. qs \in Seq(RowType) /\ Len(qs) = Len(rs)
  BY <1>1, <1>2, SeqDef, LenProperties
<1>. QED
  BY <1>1, <1>3 DEF Follows, Honest

LEMMA OneRow ==
  ASSUME OutboxTypeOK, NEW r \in DOMAIN rows, NEW q \in RowType, rows' = [rows EXCEPT ![r] = q],
         q.type = rows[r].type,
         rows[r].status = "PUBLISHED" => q.status = "PUBLISHED",
         q.status = "PUBLISHED" => rows[r].status = "PUBLISHED" \/ r \in Sent
  PROVE  Follows(rows, rows') /\ Honest(rows, rows')
<1>. DEFINE qs == [rows EXCEPT ![r] = q]
<1>1. rows \in Seq(RowType) /\ \A i \in DOMAIN rows : rows[i] \in RowType
  BY OutboxTypeIs DEF RowsT
<1>2. DOMAIN qs = DOMAIN rows /\ qs = [i \in DOMAIN rows |-> qs[i]]
      /\ \A i \in DOMAIN rows : qs[i] = IF i = r THEN q ELSE rows[i]
  OBVIOUS
<1>. HIDE DEF qs
<1>3. Follows(rows, qs) /\ Honest(rows, qs)
  BY <1>1, <1>2, EachRow
<1>. QED
  BY <1>3 DEF qs

\* A writer adds a row.
LEMMA AddedRow ==
  ASSUME NEW rs \in Seq(RowType), NEW q \in RowType, q.status # "PUBLISHED"
  PROVE  /\ Follows(rs, Append(rs, q)) /\ Honest(rs, Append(rs, q))
         /\ DOMAIN Append(rs, q) = DOMAIN rs \cup {Len(rs) + 1}
         /\ Append(rs, q)[Len(rs) + 1] = q
         /\ \A r \in DOMAIN rs : Append(rs, q)[r] = rs[r]
<1>. DEFINE qs == Append(rs, q)
<1>1. /\ qs \in Seq(RowType) /\ Len(qs) = Len(rs) + 1 /\ qs[Len(rs) + 1] = q
      /\ \A r \in 1..Len(rs) : qs[r] = rs[r]
  BY AppendProperties
<1>. HIDE DEF qs
<1>2. DOMAIN rs = 1..Len(rs) /\ Len(rs) \in Nat /\ DOMAIN qs = 1..(Len(rs) + 1)
  BY <1>1
<1>3. DOMAIN qs = DOMAIN rs \cup {Len(rs) + 1}
  BY <1>2
<1>4. Follows(rs, qs) /\ Honest(rs, qs)
  BY <1>1, <1>2, <1>3 DEF Follows, Honest
<1>. QED
  BY <1>1, <1>2, <1>3, <1>4 DEF qs

\* A step of a writer or of the clock: the connector and its results rest.
LEMMA WriterStep ==
  ASSUME OutboxOK, Follows(rows, rows'), Honest(rows, rows'), UNCHANGED <<conn, wire, late>>,
         UsedT', BidT', RestT'
  PROVE  OutboxOK'
<1>1. OutboxTypeOK /\ ReportsTrue
  BY TurnsKeptIs DEF OutboxOK
<1>2. RowsT' /\ WireT' /\ ConnT' /\ LateT'
  BY <1>1, TypesCarry
<1>3. OutboxTypeOK'
  BY <1>2, OutboxTypeNext
<1>4. /\ wire' = wire /\ conn'.batch \subseteq conn.batch /\ (conn'.at = "report" => conn' = conn)
      /\ \A l \in late' : l.result = "PUBLISHED" => l.row \in Sent
  BY <1>1 DEF ReportsTrue
<1>. QED
  BY <1>3, <1>4, QuietOutbox

LEMMA DeadlinesAreTimes ==
  /\ LastBidAt \in Nat /\ LastOfferAt \in Nat /\ ClosesAt \in Nat /\ NEVER \in Nat
  /\ Minute \in Nat /\ MaxLosses \in Nat /\ \A c \in Categories : Limit[c] \in Nat /\ Limit[c] > 0
BY OutboxAssumption DEF NEVER

-----------------------------------------------------------------------------
(* The writers and the clock.                                              *)

\* A writer that adds a row, or changes none, and leaves the bid alone.
LEMMA WritesRow ==
  ASSUME OutboxOK, WritersKeep, UNCHANGED bid,
         rows' = rows \/ \E type \in RowTypes : \E until \in Nat : rows' = Append(rows, Row(type, until)),
         offer' \in {"none", "ACTIVE", "WITHDRAWN", "CLOSED"}, asking' \subseteq {"ledger", "gap"}
  PROVE  OutboxOK'
<1>1. OutboxTypeOK /\ rows \in Seq(RowType)
  BY OutboxTypeIs DEF OutboxOK, RowsT
<1>2. Follows(rows, rows') /\ Honest(rows, rows')
  <2>1. CASE rows' = rows
    BY <1>1, <2>1, SameRows
  <2>2. ASSUME NEW type \in RowTypes, NEW until \in Nat, rows' = Append(rows, Row(type, until))
        PROVE  Follows(rows, rows') /\ Honest(rows, rows')
    <3>. DEFINE q == Row(type, until)
    <3>1. q \in RowType /\ q.status # "PUBLISHED"
      BY RowIs
    <3>. HIDE DEF q
    <3>2. Follows(rows, Append(rows, q)) /\ Honest(rows, Append(rows, q))
      BY <1>1, <3>1, AddedRow
    <3>. QED
      BY <2>2, <3>2 DEF q
  <2>. QED
    BY <2>1, <2>2
<1>3. UNCHANGED <<conn, wire, late, used, time, losses>>
  BY DEF WritersKeep
<1>4. UsedT' /\ BidT'
  BY <1>1, <1>2, <1>3, TypesCarry
<1>5. RestT'
  BY <1>1, <1>3, OutboxTypeIs DEF RestT
<1>. QED
  BY <1>2, <1>3, <1>4, <1>5, WriterStep

LEMMA OfferWriters ==
  ASSUME OutboxOK, PublishOffer \/ ChangeOffer \/ WithdrawOffer
  PROVE  OutboxOK'
<1>1. {"offer", "offer-updated", "offer-withdrawn"} \subseteq RowTypes /\ LastOfferAt \in Nat
  BY DeadlinesAreTimes DEF RowTypes, MARKET_ROWS, OFFER_TYPES
<1>2. offer \in {"none", "ACTIVE", "WITHDRAWN", "CLOSED"} /\ asking \subseteq {"ledger", "gap"}
  BY OutboxTypeIs DEF OutboxOK, RestT
<1>3. CASE PublishOffer
  BY <1>1, <1>2, <1>3, WritesRow DEF PublishOffer
<1>4. CASE ChangeOffer
  BY <1>1, <1>2, <1>4, WritesRow DEF ChangeOffer
<1>5. CASE WithdrawOffer
  BY <1>1, <1>2, <1>5, WritesRow DEF WithdrawOffer
<1>. QED
  BY <1>3, <1>4, <1>5

LEMMA RequestWriters ==
  ASSUME OutboxOK, NEW who \in {"ledger", "gap"}, AskLooks(who) \/ AskInserts(who)
  PROVE  OutboxOK'
<1>1. "request" \in RowTypes /\ NEVER \in Nat
  BY DeadlinesAreTimes DEF RowTypes
<1>2. offer \in {"none", "ACTIVE", "WITHDRAWN", "CLOSED"} /\ asking \subseteq {"ledger", "gap"}
  BY OutboxTypeIs DEF OutboxOK, RestT
<1>3. CASE AskLooks(who)
  BY <1>2, <1>3, WritesRow DEF AskLooks
<1>4. CASE AskInserts(who)
  BY <1>1, <1>2, <1>4, WritesRow DEF AskInserts
<1>. QED
  BY <1>3, <1>4

\* The offer closes, a request is answered: rows change where they are.
LEMMA RowWriters ==
  ASSUME OutboxOK, CloseOffer \/ AnswerRequest
  PROVE  OutboxOK'
<1>1. OutboxTypeOK /\ rows \in Seq(RowType) /\ \A r \in DOMAIN rows : rows[r] \in RowType
  BY OutboxTypeIs DEF OutboxOK, RowsT
<1>2. offer \in {"none", "ACTIVE", "WITHDRAWN", "CLOSED"} /\ RestT
  BY <1>1, OutboxTypeIs DEF RestT
<1>3. /\ UNCHANGED <<conn, wire, late, used, time, losses, bid, asking>>
      /\ offer' \in {"none", "ACTIVE", "WITHDRAWN", "CLOSED"}
  BY <1>2 DEF WritersKeep, CloseOffer, AnswerRequest
<1>4. Follows(rows, rows') /\ Honest(rows, rows')
  <2>1. CASE CloseOffer
    <3>. DEFINE qs == [r \in DOMAIN rows |-> IF rows[r].type \in MARKET_ROWS /\ Eligible(r)
                         THEN [rows[r] EXCEPT !.dispatch = FALSE] ELSE rows[r]]
    <3>1. \A r \in DOMAIN rows : [rows[r] EXCEPT !.dispatch = FALSE] \in RowType
                                 /\ [rows[r] EXCEPT !.dispatch = FALSE].type = rows[r].type
                                 /\ [rows[r] EXCEPT !.dispatch = FALSE].status = rows[r].status
      BY <1>1 DEF RowType
    <3>2. /\ DOMAIN qs = DOMAIN rows /\ qs = [r \in DOMAIN rows |-> qs[r]]
          /\ \A r \in DOMAIN rows : qs[r] \in RowType /\ qs[r].type = rows[r].type
                                    /\ qs[r].status = rows[r].status
      BY <1>1, <3>1
    <3>. HIDE DEF qs
    <3>3. Follows(rows, qs) /\ Honest(rows, qs)
      BY <1>1, <3>2, EachRow
    <3>. QED
      BY <2>1, <3>3 DEF CloseOffer, qs
  <2>2. CASE AnswerRequest
    <3>1. PICK r \in OpenRequests : rows' = [rows EXCEPT ![r].resolved = TRUE]
      BY <2>2 DEF AnswerRequest
    <3>. DEFINE q == [rows[r] EXCEPT !.resolved = TRUE]
    <3>2. r \in DOMAIN rows /\ rows' = [rows EXCEPT ![r] = q]
      BY <3>1 DEF OpenRequests
    <3>3. q \in RowType /\ q.type = rows[r].type /\ q.status = rows[r].status
      BY <1>1, <3>2 DEF RowType
    <3>. HIDE DEF q
    <3>. QED
      BY <1>1, <3>2, <3>3, OneRow
  <2>. QED
    BY <2>1, <2>2
<1>5. UsedT' /\ BidT'
  BY <1>1, <1>3, <1>4, TypesCarry
<1>6. RestT'
  BY <1>2, <1>3 DEF RestT
<1>. QED
  BY <1>3, <1>4, <1>5, <1>6, WriterStep

LEMMA BidWriters ==
  ASSUME OutboxOK, PlaceBid \/ BidEnds
  PROVE  OutboxOK'
<1>1. OutboxTypeOK /\ rows \in Seq(RowType) /\ BidT /\ RestT
  BY OutboxTypeIs DEF OutboxOK, RowsT
<1>2. UNCHANGED <<conn, wire, late, used, time, losses, offer, asking>>
  BY DEF WritersKeep, PlaceBid, BidEnds
<1>3. Follows(rows, rows') /\ Honest(rows, rows') /\ BidT'
  <2>1. CASE PlaceBid
    <3>. DEFINE q == Row("bid", LastBidAt)
    <3>1. q \in RowType /\ q.status # "PUBLISHED"
      <4>1. "bid" \in RowTypes /\ LastBidAt \in Nat
        BY DeadlinesAreTimes DEF RowTypes
      <4>. QED
        BY <4>1, RowIs
    <3>2. rows' = Append(rows, q) /\ bid' = [status |-> "PENDING", row |-> Len(rows) + 1]
      BY <2>1 DEF PlaceBid
    <3>. HIDE DEF q
    <3>3. Follows(rows, rows') /\ Honest(rows, rows') /\ Len(rows) + 1 \in DOMAIN rows'
      BY <1>1, <3>1, <3>2, AddedRow
    <3>. QED
      BY <3>2, <3>3 DEF BidT
  <2>2. CASE BidEnds
    <3>1. rows' = rows /\ bid' = [bid EXCEPT !.status = "over"]
      BY <2>2 DEF BidEnds
    <3>2. BidT'
      BY <1>1, <3>1 DEF BidT
    <3>. QED
      BY <1>1, <3>1, <3>2, SameRows
  <2>. QED
    BY <2>1, <2>2
<1>4. UsedT' /\ RestT'
  BY <1>1, <1>2, <1>3, TypesCarry
<1>. QED
  BY <1>2, <1>3, <1>4, WriterStep

LEMMA TickKeeps ==
  ASSUME OutboxOK, Tick
  PROVE  OutboxOK'
<1>1. OutboxTypeOK /\ rows \in Seq(RowType) /\ UsedT /\ RestT
      /\ \A r \in DOMAIN rows : rows[r] \in RowType
  BY OutboxTypeIs DEF OutboxOK, RowsT
<1>2. UNCHANGED <<conn, wire, late, bid, offer, asking, losses>>
  BY DEF Tick
<1>3. Follows(rows, rows') /\ Honest(rows, rows')
  <2>. DEFINE qs == [r \in DOMAIN rows |-> [rows[r] EXCEPT !.wait = Less(@)]]
  <2>1. /\ DOMAIN qs = DOMAIN rows /\ qs = [r \in DOMAIN rows |-> qs[r]]
        /\ \A r \in DOMAIN rows : qs[r] \in RowType /\ qs[r].type = rows[r].type
                                  /\ qs[r].status = rows[r].status
    <3>1. ASSUME NEW r \in DOMAIN rows
          PROVE  qs[r] \in RowType /\ qs[r].type = rows[r].type /\ qs[r].status = rows[r].status
      <4>1. Less(rows[r].wait) \in Nat
        BY <1>1 DEF Less, RowType
      <4>2. qs[r] = [rows[r] EXCEPT !.wait = Less(rows[r].wait)]
        OBVIOUS
      <4>. QED
        BY <1>1, <4>1, <4>2 DEF RowType
    <3>. QED
      BY <3>1
  <2>2. rows' = qs
    BY DEF Tick
  <2>. HIDE DEF qs
  <2>3. Follows(rows, qs) /\ Honest(rows, qs)
    BY <1>1, <2>1, EachRow
  <2>. QED
    BY <2>2, <2>3
<1>4. UsedT'
  <2>1. used' = [c \in Categories |-> [p \in 1..Limit[c] |-> Less(used[c][p])]]
    BY DEF Tick
  <2>2. Minute \in Nat
    BY DeadlinesAreTimes
  <2>3. ASSUME NEW c \in Categories, NEW p \in 1..Limit[c] PROVE Less(used[c][p]) \in 0..Minute
    <3>1. used[c][p] \in 0..Minute
      BY <1>1 DEF UsedT
    <3>. QED
      BY <2>2, <3>1 DEF Less
  <2>4. DOMAIN used' = Categories
    BY <2>1
  <2>5. ASSUME NEW c \in Categories PROVE used'[c] \in [1..Limit[c] -> 0..Minute]
    <3>1. used'[c] = [p \in 1..Limit[c] |-> Less(used[c][p])]
      BY <2>1
    <3>. QED
      BY <2>3, <3>1
  <2>. QED
    BY <2>4, <2>5 DEF UsedT
<1>5. RestT'
  BY <1>1, <1>2, DeadlinesAreTimes DEF RestT, Tick
<1>6. BidT'
  BY <1>1, <1>2, <1>3, TypesCarry
<1>. QED
  BY <1>2, <1>3, <1>4, <1>5, <1>6, WriterStep

-----------------------------------------------------------------------------
(* The connector.                                                          *)

\* The batch grows by due rows, and by the row of a bid that is renewed.
LEMMA PollKeeps ==
  ASSUME OutboxOK, Poll
  PROVE  OutboxOK'
<1>1. /\ OutboxTypeOK /\ rows \in Seq(RowType) /\ ConnT /\ BidT /\ RestT /\ ReportsTrue
      /\ \A r \in DOMAIN rows : rows[r] \in RowType
  BY OutboxTypeIs, TurnsKeptIs DEF OutboxOK, RowsT
<1>2. DOMAIN rows = 1..Len(rows) /\ Len(rows) \in Nat
  BY <1>1
<1>3. UNCHANGED <<wire, late, used, time, offer, asking, todo>> /\ conn.at = "poll"
  BY DEF Poll
<1>4. Stopped \in Seq(RowType) /\ Follows(rows, Stopped) /\ Honest(rows, Stopped)
      /\ Len(Stopped) = Len(rows) /\ DOMAIN Stopped = DOMAIN rows
  <2>. DEFINE qs == Stopped
  <2>1. \A r \in DOMAIN rows : [rows[r] EXCEPT !.dispatch = FALSE] \in RowType
                               /\ [rows[r] EXCEPT !.dispatch = FALSE].type = rows[r].type
                               /\ [rows[r] EXCEPT !.dispatch = FALSE].status = rows[r].status
    BY <1>1 DEF RowType
  <2>2. /\ DOMAIN qs = DOMAIN rows /\ qs = [r \in DOMAIN rows |-> qs[r]]
        /\ \A r \in DOMAIN rows : qs[r] \in RowType /\ qs[r].type = rows[r].type
                                  /\ qs[r].status = rows[r].status
    BY <1>1, <2>1 DEF Stopped
  <2>. HIDE DEF qs
  <2>3. Follows(rows, qs) /\ Honest(rows, qs) /\ Len(qs) = Len(rows)
    BY <1>1, <2>2, EachRow
  <2>. QED
    BY <2>2, <2>3 DEF qs, Follows
<1>. DEFINE q == Row("bid", LastBidAt)
<1>5. q \in RowType /\ q.status # "PUBLISHED" /\ q.type = "bid"
  <2>1. "bid" \in RowTypes /\ LastBidAt \in Nat
    BY DeadlinesAreTimes DEF RowTypes
  <2>. QED
    BY <2>1, RowIs
<1>6. NewRow = <<>> \/ NewRow = <<q>>
  BY DEF NewRow
<1>. HIDE DEF q
<1>7. /\ Follows(rows, rows') /\ Honest(rows, rows')
      /\ NewRow # <<>> => Len(rows) + 1 \in DOMAIN rows' /\ rows'[Len(rows) + 1].type = "bid"
  <2>1. rows' = Stopped \o NewRow
    BY DEF Poll
  <2>. DEFINE st == Stopped
  <2>2. st \in Seq(RowType) /\ Follows(rows, st) /\ Honest(rows, st) /\ Len(st) = Len(rows)
        /\ DOMAIN st = DOMAIN rows
    BY <1>4
  <2>. HIDE DEF st
  <2>3. CASE NewRow = <<>>
    <3>1. rows' = st
      BY <2>1, <2>2, <2>3, ConcatEmptySeq DEF st
    <3>. QED
      BY <2>2, <2>3, <3>1
  <2>4. CASE NewRow = <<q>>
    <3>1. Append(st, q) = st \o <<q>>
      BY <1>5, <2>2, AppendIsConcat
    <3>2. rows' = Append(st, q)
      BY <2>1, <2>4, <3>1 DEF st
    <3>3. /\ Follows(st, rows') /\ Honest(st, rows') /\ rows'[Len(rows) + 1] = q
          /\ Len(rows) + 1 \in DOMAIN rows'
      BY <1>5, <2>2, <3>2, AddedRow
    <3>4. Follows(rows, rows')
      BY <2>2, <3>3 DEF Follows
    <3>5. Honest(rows, rows')
      BY <2>2, <3>3 DEF Honest
    <3>. QED
      BY <1>5, <3>3, <3>4, <3>5
  <2>. QED
    BY <1>6, <2>3, <2>4
<1>8. /\ conn' = conn \/ (conn'.at = "item" /\ conn'.batch # {} /\ conn' = [batch |-> conn'.batch, at |-> "item"])
      /\ conn' = conn \/ conn'.batch = Batch \cup {r \in {Len(rows) + 1} : NewRow # <<>>}
      /\ losses' \in {losses, losses + 1} /\ (losses' = losses \/ losses < MaxLosses)
  <2>. DEFINE B == Batch \cup {r \in {Len(rows) + 1} : NewRow # <<>>}
  <2>1. \/ losses' = losses /\ conn' = IF B = {} THEN conn ELSE [batch |-> B, at |-> "item"]
        \/ losses < MaxLosses /\ losses' = losses + 1 /\ conn' = conn
    BY DEF Poll, Loss, NoLoss
  <2>. HIDE DEF B
  <2>2. conn' = conn \/ (B # {} /\ conn' = [batch |-> B, at |-> "item"])
    BY <2>1
  <2>3. conn' = conn \/ (conn'.at = "item" /\ conn'.batch = B /\ conn' = [batch |-> conn'.batch, at |-> "item"])
    BY <2>2
  <2>4. losses' \in {losses, losses + 1} /\ (losses' = losses \/ losses < MaxLosses)
    BY <2>1
  <2>. QED
    BY <2>2, <2>3, <2>4 DEF B
<1>9. conn' = conn \/ TakesDue
  <2>1. \A r \in Batch : r \in DOMAIN rows /\ Due(r)
    BY DEF Batch
  <2>2. "bid" \notin MARKET_ROWS
    BY DEF MARKET_ROWS, OFFER_TYPES
  <2>. QED
    BY <1>7, <1>8, <2>1, <2>2 DEF TakesDue
<1>10. ConnT'
  <2>1. CASE conn' = conn
    BY <1>1, <1>7, <2>1, TypesCarry
  <2>2. CASE conn' # conn
    <3>1. conn'.batch \subseteq DOMAIN rows'
      BY <1>7, <1>8, <2>2 DEF Batch, Follows
    <3>. QED
      BY <1>8, <2>2, <3>1 DEF ConnT, Steps
  <2>. QED
    BY <2>1, <2>2
<1>11. BidT'
  <2>1. CASE NewRow # <<>>
    <3>1. bid' = [bid EXCEPT !.row = Len(rows) + 1]
      BY <2>1 DEF Poll
    <3>. QED
      BY <1>1, <1>7, <2>1, <3>1 DEF BidT
  <2>2. CASE NewRow = <<>>
    <3>1. bid' = bid
      BY <2>2 DEF Poll
    <3>. QED
      BY <1>1, <1>7, <3>1, TypesCarry
  <2>. QED
    BY <2>1, <2>2
<1>12. RestT'
  BY <1>1, <1>3, <1>8, DeadlinesAreTimes DEF RestT
<1>13. OutboxTypeOK'
  BY <1>1, <1>3, <1>7, <1>10, <1>11, <1>12, TypesCarry, OutboxTypeNext
<1>14. /\ wire' = wire /\ (conn'.at = "report" => conn' = conn)
       /\ \A l \in late' : l.result = "PUBLISHED" => l.row \in Sent
  BY <1>1, <1>3, <1>8 DEF ReportsTrue
<1>. QED
  BY <1>7, <1>9, <1>13, <1>14, QuietOutbox

\* The connector goes on with its row, or leaves it for the next.
LEMMA GoesOn ==
  ASSUME OutboxOK, conn.at # "poll", NEW step \in {"item", "publish", "report", "failed"}
  PROVE  /\ At(step) = [batch |-> conn.batch, at |-> step] /\ conn.batch # {}
         /\ Rest = Idle \/ (Rest = [batch |-> conn.batch \ {This}, at |-> "item"]
                            /\ conn.batch \ {This} # {})
<1>1. ConnT
  BY OutboxTypeIs DEF OutboxOK
<1>2. conn = [batch |-> conn.batch, at |-> conn.at] /\ conn.batch # {}
  BY <1>1 DEF ConnT
<1>3. This \in conn.batch
  BY OutboxFacts DEF OutboxOK
<1>. QED
  BY <1>2, <1>3 DEF At, Rest

\* A step of the connector that publishes nothing.
LEMMA PassesOn ==
  ASSUME OutboxOK, conn.at # "poll", Follows(rows, rows'), Honest(rows, rows'),
         UNCHANGED <<wire, time, offer, bid, asking>>,
         conn' \in {At("publish"), At("failed"), Rest, Idle},
         late' \subseteq [row: DOMAIN rows, result: {"PUBLISHED", "FAILED"}],
         \A l \in late' : l.result = "PUBLISHED" => l.row \in Sent,
         UsedT', losses' \in {losses, losses + 1}, losses' = losses \/ losses < MaxLosses
  PROVE  OutboxOK'
<1>1. OutboxTypeOK /\ ConnT /\ RestT
  BY OutboxTypeIs DEF OutboxOK
<1>2. conn'.batch \subseteq conn.batch /\ conn'.at # "report"
      /\ conn' \in [batch: SUBSET conn.batch, at: Steps] /\ (conn'.at = "poll" <=> conn'.batch = {})
  BY <1>1, GoesOn DEF Idle, ConnT, Steps
<1>3. ConnT' /\ LateT'
  BY <1>1, <1>2 DEF ConnT, LateT, Steps, Follows
<1>4. RestT'
  BY <1>1, DeadlinesAreTimes DEF RestT
<1>5. OutboxTypeOK'
  BY <1>1, <1>3, <1>4, TypesCarry, OutboxTypeNext
<1>. QED
  BY <1>2, <1>5, QuietOutbox

LEMMA ReservingKeeps ==
  ASSUME OutboxOK, NEW r \in DOMAIN rows, NeedsQuota(r), Reserving(r)
  PROVE  Follows(rows, rows') /\ Honest(rows, rows') /\ UsedT'
<1>. DEFINE c == Category(rows[r].type)
            q == [rows[r] EXCEPT !.wait = IF Full(c) THEN Soonest(c) ELSE 1]
<1>1. OutboxTypeOK /\ UsedT /\ rows[r] \in RowType
  BY OutboxTypeIs DEF OutboxOK, RowsT
<1>2. c \in Categories /\ Limit[c] \in Nat /\ Limit[c] > 0 /\ Minute \in Nat
  <2>1. c \in Categories
    BY DEF NeedsQuota, QUOTA_ROWS, Category, Categories, MARKET_ROWS, OFFER_TYPES
  <2>. QED
    BY <2>1, DeadlinesAreTimes
<1>3. used[c] \in [1..Limit[c] -> 0..Minute]
  BY <1>1, <1>2 DEF UsedT
<1>4. /\ rows' = rows /\ used' = used
      \/ /\ rows' = [rows EXCEPT ![r] = q]
         /\ used' = IF Full(c) THEN used ELSE [used EXCEPT ![c][Least(Free(c))] = Minute]
  BY DEF Reserving
<1>. HIDE DEF c
<1>5. Soonest(c) \in Nat
  <2>. DEFINE N == {used[c][p] : p \in 1..Limit[c]}
  <2>1. N \in SUBSET Nat
    BY <1>2, <1>3
  <2>2. 1 \in 1..Limit[c]
    BY <1>2
  <2>3. N # {}
    BY <2>2
  <2>. HIDE DEF N
  <2>4. Least(N) \in N
    BY <2>1, <2>3, LeastIs
  <2>5. Least(N) \in Nat
    BY <2>1, <2>4
  <2>. QED
    BY <2>5 DEF Soonest, N
<1>6. q \in RowType /\ q.type = rows[r].type /\ q.status = rows[r].status
  <2>1. (IF Full(c) THEN Soonest(c) ELSE 1) \in Nat
    BY <1>5
  <2>. QED
    BY <1>1, <2>1 DEF RowType
<1>. HIDE DEF q
<1>7. Follows(rows, rows') /\ Honest(rows, rows')
  BY <1>1, <1>4, <1>6, OneRow, SameRows
<1>8. UsedT'
  <2>1. CASE used' = used
    BY <1>1, <2>1 DEF UsedT
  <2>2. CASE ~Full(c) /\ used' = [used EXCEPT ![c][Least(Free(c))] = Minute]
    <3>. DEFINE p == Least(Free(c))
    <3>1. p \in 1..Limit[c]
      <4>1. Free(c) \in SUBSET Nat /\ Free(c) # {} /\ Free(c) \subseteq 1..Limit[c]
        BY <1>2, <2>2 DEF Full, Free
      <4>. QED
        BY <4>1, LeastIs
    <3>. DEFINE g == [used[c] EXCEPT ![p] = Minute]
    <3>2. used' = [used EXCEPT ![c] = g]
      BY <2>2
    <3>. HIDE DEF p
    <3>3. g \in [1..Limit[c] -> 0..Minute]
      BY <1>2, <1>3, <3>1
    <3>. HIDE DEF g
    <3>4. DOMAIN used' = Categories /\ used'[c] = g /\ \A e \in Categories \ {c} : used'[e] = used[e]
      BY <1>1, <1>2, <3>2 DEF UsedT
    <3>5. ASSUME NEW e \in Categories PROVE used'[e] \in [1..Limit[e] -> 0..Minute]
      BY <1>1, <3>3, <3>4 DEF UsedT
    <3>. QED
      BY <3>4, <3>5 DEF UsedT
  <2>. QED
    BY <1>4, <2>1, <2>2
<1>. QED
  BY <1>7, <1>8

\* What is known as the connector works a batch.
LEMMA Working ==
  ASSUME OutboxOK, conn.at # "poll"
  PROVE  /\ OutboxTypeOK /\ UsedT /\ ReportsTrue /\ This \in DOMAIN rows
         /\ late \subseteq [row: DOMAIN rows, result: {"PUBLISHED", "FAILED"}]
BY OutboxTypeIs, TurnsKeptIs, OutboxFacts DEF OutboxOK, LateT

LEMMA StepsOnKeeps ==
  ASSUME OutboxOK, SkipExpired \/ NoQuota \/ ConnectorDies
  PROVE  OutboxOK'
<1>1. UNCHANGED <<rows, wire, late, used, time, offer, bid, asking>>
  BY DEF SkipExpired, NoQuota, ConnectorDies
<1>2. losses' = losses \/ (losses < MaxLosses /\ losses' = losses + 1)
  BY DEF SkipExpired, NoQuota, ConnectorDies, Loss
<1>3. conn' \in {At("publish"), Rest, Idle}
  BY DEF SkipExpired, NoQuota, ConnectorDies
<1>4. conn.at # "poll"
  <2>1. ConnT
    BY OutboxTypeIs DEF OutboxOK
  <2>2. conn.at = "poll" => conn = Idle
    BY <2>1 DEF ConnT, Idle
  <2>. QED
    BY <2>2 DEF SkipExpired, NoQuota, ConnectorDies
<1>5. OutboxTypeOK /\ UsedT' /\ ReportsTrue
      /\ late' \subseteq [row: DOMAIN rows, result: {"PUBLISHED", "FAILED"}]
  BY <1>1, <1>4, Working DEF UsedT
<1>6. Follows(rows, rows') /\ Honest(rows, rows')
  BY <1>1, <1>5, SameRows
<1>7. \A l \in late' : l.result = "PUBLISHED" => l.row \in Sent
  BY <1>1, <1>5 DEF ReportsTrue
<1>. QED
  BY <1>1, <1>2, <1>3, <1>4, <1>5, <1>6, <1>7, PassesOn

LEMMA ReserveKeeps ==
  ASSUME OutboxOK, Reserve
  PROVE  OutboxOK'
<1>1. UNCHANGED <<wire, late, time, offer, bid, asking>> /\ conn.at # "poll" /\ NeedsQuota(This)
  BY DEF Reserve
<1>2. losses' = losses \/ (losses < MaxLosses /\ losses' = losses + 1)
  BY DEF Reserve, Loss, NoLoss
<1>3. conn' \in {At("publish"), At("failed"), Rest}
  BY DEF Reserve
<1>4. /\ OutboxTypeOK /\ UsedT /\ ReportsTrue /\ This \in DOMAIN rows
      /\ late \subseteq [row: DOMAIN rows, result: {"PUBLISHED", "FAILED"}]
  BY <1>1, Working
<1>5. Reserving(This) \/ UNCHANGED <<rows, used>>
  BY DEF Reserve
<1>6. Follows(rows, rows') /\ Honest(rows, rows') /\ UsedT'
  <2>1. CASE Reserving(This)
    BY <1>1, <1>4, <2>1, ReservingKeeps
  <2>2. CASE UNCHANGED <<rows, used>>
    BY <1>4, <2>2, SameRows DEF UsedT
  <2>. QED
    BY <1>5, <2>1, <2>2
<1>7. \A l \in late' : l.result = "PUBLISHED" => l.row \in Sent
  BY <1>1, <1>4 DEF ReportsTrue
<1>. QED
  BY <1>1, <1>2, <1>3, <1>4, <1>6, <1>7, PassesOn

\* A result that is applied: what it calls published was.
LEMMA MarkedKeeps ==
  ASSUME OutboxTypeOK, NEW r \in DOMAIN rows, NEW result \in {"PUBLISHED", "FAILED"},
         result = "PUBLISHED" => r \in Sent, rows' = [rows EXCEPT ![r] = Marked(@, result)]
  PROVE  Follows(rows, rows') /\ Honest(rows, rows')
<1>. DEFINE q == Marked(rows[r], result)
<1>1. rows[r] \in RowType
  BY OutboxTypeIs DEF RowsT
<1>2. /\ q \in RowType /\ q.type = rows[r].type
      /\ rows[r].status = "PUBLISHED" => q.status = "PUBLISHED"
      /\ q.status = "PUBLISHED" => rows[r].status = "PUBLISHED" \/ r \in Sent
  BY <1>1 DEF Marked, RowType
<1>3. rows' = [rows EXCEPT ![r] = q]
  OBVIOUS
<1>. HIDE DEF q
<1>. QED
  BY <1>2, <1>3, OneRow

LEMMA ReportKeeps ==
  ASSUME OutboxOK, Report
  PROVE  OutboxOK'
<1>1. UNCHANGED <<wire, used, time, offer, bid, asking>> /\ conn.at # "poll" /\ conn' = Rest
  BY DEF Report
<1>2. PICK result \in {"PUBLISHED", "FAILED"} :
        /\ result = IF conn.at = "report" THEN "PUBLISHED" ELSE "FAILED"
        /\ \/ NoLoss /\ rows' = [rows EXCEPT ![This] = Marked(@, result)] /\ UNCHANGED late
           \/ Loss /\ late' \in {late, late \cup {[row |-> This, result |-> result]}} /\ UNCHANGED rows
  BY DEF Report
<1>3. /\ OutboxTypeOK /\ UsedT /\ ReportsTrue /\ This \in DOMAIN rows
      /\ late \subseteq [row: DOMAIN rows, result: {"PUBLISHED", "FAILED"}]
  BY <1>1, Working
<1>4. result = "PUBLISHED" => This \in Sent
  BY <1>2, <1>3 DEF ReportsTrue
<1>5. Follows(rows, rows') /\ Honest(rows, rows')
  <2>1. CASE UNCHANGED rows
    BY <1>3, <2>1, SameRows
  <2>2. CASE rows' = [rows EXCEPT ![This] = Marked(@, result)]
    BY <1>3, <1>4, <2>2, MarkedKeeps
  <2>. QED
    BY <1>2, <2>1, <2>2
<1>6. /\ late' \subseteq [row: DOMAIN rows, result: {"PUBLISHED", "FAILED"}]
      /\ \A l \in late' : l.result = "PUBLISHED" => l.row \in Sent
  BY <1>2, <1>3, <1>4 DEF ReportsTrue
<1>7. losses' = losses \/ (losses < MaxLosses /\ losses' = losses + 1)
  BY <1>2 DEF Loss, NoLoss
<1>8. UsedT'
  BY <1>1, <1>3 DEF UsedT
<1>. QED
  BY <1>1, <1>5, <1>6, <1>7, <1>8, PassesOn

LEMMA ReportLateKeeps ==
  ASSUME OutboxOK, NEW l \in late, ReportLate(l)
  PROVE  OutboxOK'
<1>1. OutboxTypeOK /\ ReportsTrue /\ LateT
  BY OutboxTypeIs, TurnsKeptIs DEF OutboxOK
<1>2. /\ UNCHANGED <<conn, wire, used, time, offer, bid, asking, losses>> /\ late' = late \ {l}
      /\ rows' = [rows EXCEPT ![l.row] = Marked(@, l.result)]
  BY DEF ReportLate
<1>3. /\ l.row \in DOMAIN rows /\ l.result \in {"PUBLISHED", "FAILED"}
      /\ l.result = "PUBLISHED" => l.row \in Sent
  BY <1>1 DEF LateT, ReportsTrue
<1>4. Follows(rows, rows') /\ Honest(rows, rows')
  BY <1>1, <1>2, <1>3, MarkedKeeps
<1>5. LateT'
  BY <1>1, <1>2, <1>4 DEF LateT, Follows
<1>6. OutboxTypeOK'
  BY <1>1, <1>2, <1>4, <1>5, TypesCarry, OutboxTypeNext
<1>7. /\ wire' = wire /\ conn'.batch \subseteq conn.batch /\ (conn'.at = "report" => conn' = conn)
      /\ \A m \in late' : m.result = "PUBLISHED" => m.row \in Sent
  BY <1>1, <1>2 DEF ReportsTrue
<1>. QED
  BY <1>4, <1>6, <1>7, QuietOutbox

LEMMA PublishKeeps ==
  ASSUME OutboxOK, Publish \/ PublishFails
  PROVE  OutboxOK'
<1>1. UNCHANGED <<rows, late, used, time, offer, bid, asking>> /\ conn.at = "publish"
  BY DEF Publish, PublishFails
<1>2. losses' = losses \/ (losses < MaxLosses /\ losses' = losses + 1)
  BY DEF Publish, PublishFails, Loss
<1>3. /\ OutboxTypeOK /\ RowsT /\ WireT /\ ConnT /\ RestT /\ UsedT /\ ReportsTrue
  BY OutboxTypeIs, TurnsKeptIs DEF OutboxOK
<1>4. This \in conn.batch /\ This \in DOMAIN rows /\ rows[This] \in RowType
  BY <1>1, <1>3, OutboxFacts
<1>5. /\ conn'.batch \subseteq conn.batch /\ (conn'.at = "report" => conn'.batch = conn.batch)
      /\ conn' \in [batch: SUBSET conn.batch, at: Steps] /\ conn'.at # "poll" /\ conn'.batch # {}
  <2>1. At("report") = [batch |-> conn.batch, at |-> "report"]
        /\ At("failed") = [batch |-> conn.batch, at |-> "failed"] /\ conn.batch # {}
    BY <1>1, GoesOn
  <2>2. conn' \in {[batch |-> conn.batch, at |-> "report"], [batch |-> conn.batch, at |-> "failed"],
                   [batch |-> {This}, at |-> "failed"]}
    BY <2>1 DEF Publish, PublishFails
  <2>. QED
    BY <1>4, <2>1, <2>2 DEF Steps
<1>6. /\ Publish => wire' = Append(wire, OnWire(This))
      /\ PublishFails => wire' \in {wire, Append(wire, OnWire(This))} /\ conn'.at = "failed"
  <2>1. At("failed").at = "failed"
    BY <1>1, GoesOn
  <2>. QED
    BY <2>1 DEF Publish, PublishFails
<1>7. Follows(rows, rows') /\ Honest(rows, rows')
  BY <1>1, <1>3, SameRows
<1>8. WireT'
  <2>1. OnWire(This) \in WireType /\ WireType' = WireType
    BY <1>1, <1>4, OnWireIs DEF WireType
  <2>2. wire' \in {wire, Append(wire, OnWire(This))}
    BY <1>6
  <2>3. Append(wire, OnWire(This)) \in Seq(WireType)
    BY <1>3, <2>1, AppendProperties DEF WireT
  <2>. QED
    BY <1>3, <2>1, <2>2, <2>3 DEF WireT
<1>9. ConnT'
  BY <1>1, <1>3, <1>5 DEF ConnT
<1>10. RestT'
  BY <1>1, <1>2, <1>3, DeadlinesAreTimes DEF RestT
<1>11. OutboxTypeOK'
  BY <1>1, <1>3, <1>7, <1>8, <1>9, <1>10, TypesCarry, OutboxTypeNext
<1>12. CASE wire' = Append(wire, OnWire(This))
  BY <1>1, <1>5, <1>11, <1>12, WireStep
<1>13. CASE wire' = wire /\ conn'.at = "failed"
  BY <1>1, <1>3, <1>5, <1>7, <1>11, <1>13, QuietOutbox DEF ReportsTrue
<1>. QED
  BY <1>6, <1>12, <1>13

-----------------------------------------------------------------------------
(* The theorems of the outbox.                                             *)

LEMMA OutboxInitOK == OutboxInit => OutboxOK
<1>. SUFFICES ASSUME OutboxInit PROVE OutboxOK
  OBVIOUS
<1>1. /\ rows = <<>> /\ conn = Idle /\ wire = <<>> /\ late = {}
      /\ used = [c \in Categories |-> [p \in 1..Limit[c] |-> 0]]
      /\ time = 0 /\ losses = 0 /\ offer = "none" /\ bid = [status |-> "none", row |-> 0]
      /\ asking = {}
  BY DEF OutboxInit
<1>2. RowsT /\ WireT
  BY <1>1, EmptySeq DEF RowsT, WireT
<1>3. ConnT /\ LateT /\ BidT
  BY <1>1 DEF ConnT, Idle, Steps, LateT, BidT
<1>4. UsedT /\ RestT
  BY <1>1, DeadlinesAreTimes DEF UsedT, RestT
<1>5. TurnsKept /\ PublishedIsOnWire /\ MarketInOrder
  BY <1>1 DEF TurnsKept, PublishedIsOnWire, MarketInOrder, Feed, Idle
<1>. QED
  BY <1>2, <1>3, <1>4, <1>5, OutboxTypeIs DEF OutboxOK

LEMMA OutboxHolds == OutboxSpec => []OutboxOK
<1>1. OutboxOK /\ [OutboxNext]_outboxVars => OutboxOK'
  <2>. SUFFICES ASSUME OutboxOK, [OutboxNext]_outboxVars PROVE OutboxOK'
    OBVIOUS
  <2>1. CASE ConnectorTask
    BY <2>1, PollKeeps, StepsOnKeeps, ReserveKeeps, PublishKeeps, ReportKeeps DEF ConnectorTask
  <2>2. CASE Writers
    BY <2>2, OfferWriters, RequestWriters, RowWriters, BidWriters DEF Writers
  <2>3. CASE Tick
    BY <2>3, TickKeeps
  <2>4. CASE \E l \in late : ReportLate(l)
    BY <2>4, ReportLateKeeps
  <2>5. CASE UNCHANGED outboxVars
    <3>1. OutboxTypeOK /\ UNCHANGED <<rows, conn, wire, late, used, time, offer, bid, asking, losses>>
      BY <2>5 DEF outboxVars, OutboxOK
    <3>2. Follows(rows, rows') /\ Honest(rows, rows')
      BY <3>1, SameRows
    <3>3. UsedT' /\ BidT' /\ RestT'
      BY <3>1, <3>2, TypesCarry
    <3>. QED
      BY <3>1, <3>2, <3>3, WriterStep
  <2>. QED
    BY <2>1, <2>2, <2>3, <2>4, <2>5 DEF OutboxNext
<1>. QED
  BY <1>1, OutboxInitOK, PTL DEF OutboxSpec

\* Every state of the outbox, of the connector's batch and of the quota is well
\* typed: no category ever holds more reservations than its places
\* (operational_rate_limits.reserve).
THEOREM OutboxTypeCorrect == OutboxSpec => []OutboxTypeOK
BY OutboxHolds, PTL DEF OutboxOK

\* A row of the market is taken up in its turn only
\* (list_outbound_dispatch, has_earlier_unpublished_market).
THEOREM TurnsAreKept == OutboxSpec => []TurnsKept
BY OutboxHolds, PTL DEF OutboxOK

\* The feed sees the offer and its changes in the order in which they were
\* made, whatever is lost, late or published again.
THEOREM FeedIsInOrder == OutboxSpec => []MarketInOrder
BY OutboxHolds, PTL DEF OutboxOK

\* What is recorded as PUBLISHED reached the broker (publish_backend_outbox).
THEOREM PublishedReachedBroker == OutboxSpec => []PublishedIsOnWire
BY OutboxHolds, PTL DEF OutboxOK
=============================================================================
