---------------------------- MODULE RequestCards ----------------------------
(* The cards over the composer that ask for something: the agent's
   questions (components/user-input-card.tsx) and its permissions
   (components/permission-queue.tsx).  A question takes one of its options,
   or several, or a text of one's own; the answers go out together when all
   are confirmed. *)
EXTENDS Integers, FiniteSets, Sequences

CONSTANTS
  Questions,   \* number of questions of the request
  Multi,       \* those that take several answers
  Options,     \* the options of a question
  OtherTexts,       \* what may be typed as another answer; "" is none
  Requests,    \* the permissions asked for, oldest first
  CardsBounds       \* bound: presses, typing, failures, pages turned

VARIABLES
  page,                  \* pageIndex
  selections, confirmed, otherValues,
  submitting,
  delivery,              \* what the events say of the request: "open", "submitted", "failed"
  posted,                \* answers on their way
  approved,              \* per question, what it showed when it was last confirmed
  permissions,           \* PermissionQueue: requests, oldest first
  submission, resolved,  \* the request being decided, and resolvedRequestID
  deciding,              \* decisions on their way
  decided,               \* requests whose decision the server took
  crossed,               \* requests during whose decision another one was answered
  cardsSpent

card == <<page, selections, confirmed, otherValues, submitting>>
answer == <<delivery, posted, approved>>
queue == <<permissions, submission, resolved, deciding, decided, crossed>>
cardsVars == <<card, answer, queue, cardsSpent>>

CardsSpends(kind) ==
  cardsSpent[kind] < CardsBounds[kind] /\ cardsSpent' = [cardsSpent EXCEPT ![kind] = @ + 1]
Free == cardsSpent' = cardsSpent

Asked == 1 .. Questions
NoRequest == 0

CardsInit ==
  /\ page = 1 /\ selections = [q \in Asked |-> {}] /\ confirmed = [q \in Asked |-> FALSE]
  /\ otherValues = [q \in Asked |-> ""] /\ submitting = FALSE
  /\ delivery = "open" /\ posted = {} /\ approved = [q \in Asked |-> {}]
  /\ permissions = Requests /\ submission = NoRequest /\ resolved = NoRequest
  /\ deciding = {} /\ decided = {} /\ crossed = {}
  /\ cardsSpent = [kind \in DOMAIN CardsBounds |-> 0]

-----------------------------------------------------------------------------
(* multiValues: the options chosen and the text typed, if any. *)
MultiValues(q) == (selections[q] \cap Options) \cup ({otherValues[q]} \ {""})
CardShows(q) == IF q \in Multi THEN MultiValues(q) ELSE selections[q]

Enabled == delivery = "open" /\ ~submitting

(* commitAnswer: to the first question that is not confirmed, or out. *)
Commit(values) ==
  LET chosen == [selections EXCEPT ![page] = values]
      sure == [confirmed EXCEPT ![page] = TRUE]
      open == {q \in Asked : ~sure[q]}
  IN  /\ values # {} /\ selections' = chosen /\ confirmed' = sure
      /\ approved' = [approved EXCEPT ![page] = values]
      /\ IF open # {}
         THEN /\ page' = CHOOSE q \in open : \A r \in open : q <= r
              /\ UNCHANGED <<submitting, posted>>
         ELSE submitting' = TRUE /\ posted' = posted \cup {chosen} /\ UNCHANGED page

(* Mutant: an answer that is changed stays confirmed. *)
KeepConfirmed == UNCHANGED confirmed
Unconfirm == confirmed' = [confirmed EXCEPT ![page] = FALSE]

Toggled(S, v) == IF v \in S THEN S \ {v} ELSE S \cup {v}
Choose(v) ==
  /\ Enabled /\ CardsSpends("presses")
  /\ IF page \in Multi
     THEN /\ selections' = [selections EXCEPT ![page] = Toggled(@, v)] /\ Unconfirm
          /\ UNCHANGED <<page, submitting, posted, approved>>
     ELSE Commit({v})
  /\ UNCHANGED <<otherValues, delivery, queue>>

TypeOther(text) ==
  /\ Enabled /\ text # otherValues[page] /\ CardsSpends("typing")
  /\ otherValues' = [otherValues EXCEPT ![page] = text]
  /\ IF page \in Multi THEN Unconfirm ELSE UNCHANGED confirmed
  /\ UNCHANGED <<page, selections, submitting, answer, queue>>

(* Enter in the text, a press on "Other", and the button of a question that
   takes several answers. *)
Confirm ==
  /\ Enabled /\ CardsSpends("presses")
  /\ Commit(IF page \in Multi THEN MultiValues(page) ELSE {otherValues[page]} \ {""})
  /\ UNCHANGED <<otherValues, delivery, queue>>

Turn(to) ==
  /\ to \in Asked /\ ~submitting /\ CardsSpends("turns") /\ page' = to
  /\ UNCHANGED <<selections, confirmed, otherValues, submitting, answer, queue>>

(* The server takes the first answer; its events close the card or say that the
   answer was not delivered. *)
Takes == delivery' = IF delivery = "open" THEN "submitted" ELSE delivery
Arrives(a) ==
  /\ a \in posted /\ Free /\ Takes /\ posted' = posted \ {a}
  /\ UNCHANGED <<card, approved, queue>>
(* The press can be made again, whether or not the server took the answer. *)
Fails(a) ==
  /\ a \in posted /\ CardsSpends("failures") /\ (Takes \/ UNCHANGED delivery)
  /\ posted' = posted \ {a} /\ submitting' = FALSE
  /\ UNCHANGED <<page, selections, confirmed, otherValues, approved, queue>>
NotDelivered ==
  /\ delivery = "submitted" /\ delivery' = "failed" /\ Free
  /\ UNCHANGED <<card, posted, approved, queue>>

-----------------------------------------------------------------------------
Oldest == Head(permissions)
Offered == permissions # <<>> /\ resolved # Oldest
CanDecide == Offered /\ submission # Oldest

Decide ==
  /\ CanDecide /\ CardsSpends("presses")
  /\ submission' = Oldest /\ deciding' = deciding \cup {Oldest}
  /\ UNCHANGED <<card, answer, permissions, resolved, decided, crossed>>

Crossing(r) == crossed' = crossed \cup ((deciding \cup decided) \ {r})
DecisionTaken(r) ==
  /\ r \in deciding /\ Free
  /\ deciding' = deciding \ {r} /\ decided' = decided \cup {r}
  /\ resolved' = r /\ Crossing(r)
  /\ UNCHANGED <<card, answer, permissions, submission>>
DecisionFails(r) ==
  /\ r \in deciding /\ CardsSpends("failures")
  /\ deciding' = deciding \ {r} /\ submission' = NoRequest /\ Crossing(r)
  /\ UNCHANGED <<card, answer, permissions, resolved, decided>>

(* A request decided here, elsewhere or by time is no longer asked. *)
Withdrawn ==
  /\ permissions # <<>> /\ Free /\ permissions' = Tail(permissions)
  /\ UNCHANGED <<card, answer, submission, resolved, deciding, decided, crossed>>

CardsNext ==
  \/ \E v \in Options : Choose(v)
  \/ \E text \in OtherTexts : TypeOther(text)
  \/ Confirm \/ Turn(page - 1) \/ Turn(page + 1) \/ NotDelivered
  \/ \E a \in posted : Arrives(a) \/ Fails(a)
  \/ Decide \/ Withdrawn \/ \E r \in deciding : DecisionTaken(r) \/ DecisionFails(r)
CardsSpec == CardsInit /\ [][CardsNext]_cardsVars

-----------------------------------------------------------------------------
SentIsConfirmed ==
  \A a \in posted : \A q \in Asked : a[q] = approved[q] /\ (submitting => a[q] = CardShows(q))

DecidedIsNotOffered == CanDecide => Oldest \notin (deciding \cup decided) \ crossed

(* The answers that go out are, question by question, what the card shows, and
   were confirmed as shown: going back and changing one asks for it again.  And
   a permission that was decided is not offered for another decision, unless the
   answer to another one came in between. *)
DecisionsAreTheUsers == SentIsConfirmed /\ DecidedIsNotOffered
=============================================================================
