----------------------------- MODULE Messaging -----------------------------
(***************************************************************************)
(* Messages to clients: WhatsApp (whatsapp_service) and e-mail             *)
(* (email_service), sent under an idempotency key, resent by hand, and     *)
(* reported on by the provider's webhooks; and WhatsApp messages received. *)
(*                                                                         *)
(* The two channels share no row: a behaviour is about one of them.        *)
(* WhatsApp commits the message and its key before it calls the provider,  *)
(* e-mail calls the provider inside the transaction that inserts both.     *)
(* The provider may take a message and its answer be lost; it reports on   *)
(* what it has taken in any order, any number of times.                    *)
(*                                                                         *)
(* A webhook carries one event.  The dry run, which answers without a      *)
(* provider, and what a message says are left out.                         *)
(***************************************************************************)
EXTENDS Integers, FiniteSets, TLC

CONSTANTS
    Message,              \* whatsapp_messages that are sent, or email_log rows
    Key, Fingerprint,     \* idempotency keys, and what is asked under them
    ProviderId,           \* ids the provider gives to what it takes
    Inbound, Captioned,   \* ids of messages received, those that have a text
    Sender, Client,       \* canonical phone number of each, by id and client
    Txn,                  \* requests that may be open at the same time
    None

ASSUME InboundAssumption == Captioned \subseteq Inbound
ASSUME PhoneAssumption == Inbound \subseteq DOMAIN Sender
ASSUME TxnAssumption == IsFiniteSet(Txn)

VARIABLES
    channel,   \* which service this behaviour is about
    message,   \* rows, None while absent
    key,       \* idempotency keys, None while absent
    uses,      \* messages made under each key since it last expired
    expired,   \* keys that have ever expired
    taken,     \* what the provider took: the message of each id, or None
    document,  \* status of the invoice or quotation that is sent
    received,  \* rows of each message received
    enquiry,   \* enquiries made from it, as the clients they are linked to
    txn,       \* open requests, None while free
    workers    \* how many requests are served at a time

rows == <<message, key, uses, expired, document, received, enquiry>>
vars == <<channel, rows, taken, txn, workers>>

WhatsAppMessageStatus == {"QUEUED", "SENT", "DELIVERED", "READ", "FAILED"}
EmailStatus == {"QUEUED", "SENT", "DELIVERED", "BOUNCED", "FAILED"}
WhatsAppMessageType == {"TEXT", "DOCUMENT"}

MessageRow == [type : WhatsAppMessageType, status : WhatsAppMessageStatus,
               provider_id : ProviderId \cup {None}]
EmailRow == [type : {"TEXT"}, status : EmailStatus, provider_id : ProviderId \cup {None}]
KeyRow == [fingerprint : Fingerprint, message : Message, old : BOOLEAN]

\* What requests keep from what they read until they are done.
SendRow == [op : {"reserve", "send"}, key : Key, fingerprint : Fingerprint,
            seen : KeyRow \cup {None}, type : WhatsAppMessageType, message : Message,
            was : {"QUEUED"}, answer : ProviderId \cup {"failure", None}]
ResendRow == [op : {"resend"}, message : Message, was : {"FAILED", "BOUNCED", "QUEUED"},
              answer : ProviderId \cup {"failure", None}]
ReportRow == [op : {"report"}, message : Message,
              status : WhatsAppMessageStatus \cup EmailStatus]
InboundRow == [op : {"inbound"}, id : Inbound, message : {None}]
Request == SendRow \cup ResendRow \cup ReportRow \cup InboundRow

ASSUME NoneAssumption ==
    None \notin Message \cup MessageRow \cup EmailRow \cup KeyRow \cup Request

Init ==
    /\ channel \in {"whatsapp", "email"}
    /\ message = [m \in Message |-> None]
    /\ key = [k \in Key |-> None]
    /\ uses = [k \in Key |-> 0]
    /\ expired = {}
    /\ taken = [i \in ProviderId |-> None]
    /\ document \in {"DRAFT", "SENT"}
    /\ received = [i \in Inbound |-> 0]
    /\ enquiry = [i \in Inbound |-> {}]
    /\ txn = [t \in Txn |-> None]
    /\ workers \in 1..Cardinality(Txn)

Free == Cardinality({t \in Txn : txn[t] # None}) < workers

Begin(t, request) ==
    /\ txn[t] = None /\ Free
    /\ txn' = [txn EXCEPT ![t] = request]
    /\ UNCHANGED <<channel, rows, taken, workers>>

End(t) == txn' = [txn EXCEPT ![t] = None] /\ UNCHANGED <<channel, taken, workers>>

Is(t, op) == txn[t] # None /\ txn[t].op = op

\* A lost client, a crash, or a constraint that fails: what is committed stays,
\* and so does what the provider took.
Abort(t) == txn[t] # None /\ End(t) /\ UNCHANGED rows

\* Ids are made up by the request.
Unused(m) ==
    message[m] = None /\ m \notin {txn[t].message : t \in {u \in Txn : txn[u] # None}}

\* Faulty: a resend locks nothing.
LockedNever(m, t) == FALSE

\* The row lock of a resend, held across the call to the provider.
Locked(m, t) ==
    \E u \in Txn \ {t} : channel = "whatsapp" /\ Is(u, "resend") /\ txn[u].message = m

-----------------------------------------------------------------------------
(* The document that is sent, and keys that grow old.                      *)

Sendable(type) == type = "DOCUMENT" => document = "SENT"

DocumentMoves(from, to) ==
    /\ Free /\ channel = "whatsapp" /\ document = from
    /\ document' = to
    /\ UNCHANGED <<channel, message, key, uses, expired, taken, received, enquiry, txn, workers>>

\* Forty-eight hours pass.  Only WhatsApp looks at the age of a key.
Expire(k) ==
    /\ Free /\ channel = "whatsapp" /\ key[k] # None /\ ~key[k].old
    /\ key' = [key EXCEPT ![k].old = TRUE]
    /\ uses' = [uses EXCEPT ![k] = 0]
    /\ expired' = expired \cup {k}
    /\ UNCHANGED <<channel, message, taken, document, received, enquiry, txn, workers>>

-----------------------------------------------------------------------------
(* Sending.                                                                *)

\* A live key answers by itself: with its message, or with a conflict.
Answers(k) == key[k] # None /\ (channel = "email" \/ ~key[k].old)

SendRead(t, k, f, m, type) ==
    /\ Unused(m) /\ ~Answers(k)
    /\ IF channel = "whatsapp" THEN Sendable(type) ELSE type = "TEXT"
    /\ Begin(t, [op |-> IF channel = "whatsapp" THEN "reserve" ELSE "send", key |-> k,
                 fingerprint |-> f, seen |-> key[k], type |-> type, message |-> m,
                 was |-> "QUEUED", answer |-> None])

Insert(t, status, id) ==
    LET k == txn[t].key
    IN  /\ message' = [message EXCEPT ![txn[t].message] =
             [type |-> txn[t].type, status |-> status, provider_id |-> id]]
        /\ key' = [key EXCEPT ![k] =
             [fingerprint |-> txn[t].fingerprint, message |-> txn[t].message, old |-> FALSE]]
        /\ uses' = [uses EXCEPT ![k] = @ + 1]
        /\ UNCHANGED <<expired, document, received, enquiry>>

\* Faulty: the key is written over.
KeyIsFreeAlways(t) == txn[t].key \in Key

\* A request that saw an expired key deletes whatever row is there now, unless
\* the delete had to wait for another one: then it deletes nothing.
KeyIsFree(t) == key[txn[t].key] = None \/ txn[t].seen # None

KeyIsTaken(t) == key[txn[t].key] # None /\ key[txn[t].key] # txn[t].seen

\* First transaction of WhatsApp.
Reserve(t) ==
    /\ Is(t, "reserve") /\ KeyIsFree(t)
    /\ Insert(t, "QUEUED", None)
    /\ txn' = [txn EXCEPT ![t].op = "send"]
    /\ UNCHANGED <<channel, taken, workers>>

\* The loser answers with the winner's message, or with a conflict.
ReserveLost(t) == Is(t, "reserve") /\ KeyIsTaken(t) /\ End(t) /\ UNCHANGED rows

Resendable(m) ==
    message[m].status \in
        IF channel = "whatsapp" THEN {"FAILED", "QUEUED"} ELSE {"FAILED", "BOUNCED", "QUEUED"}

ResendRead(t, m) ==
    /\ message[m] # None /\ ~Locked(m, t)
    /\ Resendable(m) /\ Sendable(message[m].type)
    /\ Begin(t, [op |-> "resend", message |-> m, was |-> message[m].status, answer |-> None])

\* i is the id the provider gives, None when it refuses; heard says whether the
\* answer arrives.
Answer(i, heard) == IF heard /\ i # None THEN i ELSE "failure"

Dispatch(t, i, heard) ==
    /\ Is(t, "send") \/ Is(t, "resend")
    /\ txn[t].answer = None
    /\ i # None => taken[i] = None
    /\ taken' = IF i = None THEN taken ELSE [taken EXCEPT ![i] = txn[t].message]
    /\ txn' = [txn EXCEPT ![t].answer = Answer(i, heard)]
    /\ UNCHANGED <<channel, rows, workers>>

Outcome(t) == IF txn[t].answer = "failure" THEN "FAILED" ELSE "SENT"

\* The object in memory writes what it changes: a FAILED row that fails again
\* writes no status.
Recorded(t, row) ==
    [row EXCEPT !.status = IF Outcome(t) = txn[t].was THEN @ ELSE Outcome(t),
                !.provider_id = IF Outcome(t) = "SENT" THEN txn[t].answer ELSE @]

\* Second transaction of a WhatsApp message, or the end of a resend.
Record(t) ==
    /\ \/ Is(t, "resend")
       \/ Is(t, "send") /\ channel = "whatsapp"
    /\ txn[t].answer # None /\ ~Locked(txn[t].message, t)
    /\ message' = [message EXCEPT ![txn[t].message] = Recorded(t, @)]
    /\ End(t) /\ UNCHANGED <<key, uses, expired, document, received, enquiry>>

\* The one transaction of an e-mail; a key that is taken aborts it.
RecordEmail(t) ==
    /\ Is(t, "send") /\ channel = "email" /\ txn[t].answer # None
    /\ KeyIsFree(t)
    /\ Insert(t, Outcome(t), IF Outcome(t) = "SENT" THEN txn[t].answer ELSE None)
    /\ End(t)

-----------------------------------------------------------------------------
(* Webhooks.                                                               *)

Rank == [QUEUED |-> 0, SENT |-> 1, DELIVERED |-> 2, READ |-> 3]

\* Faulty: a report that comes late is believed.
ReportedLate(current, target) == IF current = "FAILED" THEN current ELSE target

\* What a WhatsApp report makes of a status.
Reported(current, target) ==
    IF current = "FAILED" \/ target = "FAILED" THEN "FAILED"
    ELSE IF Rank[target] <= Rank[current] THEN current ELSE target

ReportRead(t, i, target) ==
    \E m \in Message :
        /\ message[m] # None /\ message[m].provider_id = i
        /\ LET status == IF channel = "whatsapp" THEN Reported(message[m].status, target)
                         ELSE target
           IN  /\ status # message[m].status
               /\ Begin(t, [op |-> "report", message |-> m, status |-> status])

Reports == IF channel = "whatsapp" THEN {"SENT", "DELIVERED", "READ", "FAILED"}
           ELSE {"DELIVERED", "BOUNCED", "FAILED"}

Report(t) ==
    /\ Is(t, "report") /\ ~Locked(txn[t].message, t)
    /\ message' = [message EXCEPT ![txn[t].message].status = txn[t].status]
    /\ End(t) /\ UNCHANGED <<key, uses, expired, document, received, enquiry>>

InboundRead(t, i) ==
    /\ channel = "whatsapp" /\ received[i] = 0
    /\ Begin(t, [op |-> "inbound", id |-> i, message |-> None])

\* The client, when exactly one has the number of the sender.
MatchedClient(i) ==
    LET matches == {c \in DOMAIN Client : Client[c] = Sender[i]}
    IN  IF Cardinality(matches) = 1 THEN matches ELSE {None}

\* Row and enquiry are saved together; a duplicate saves neither.
InboundDone(t) ==
    /\ Is(t, "inbound")
    /\ LET i == txn[t].id
       IN  IF received[i] = 0
           THEN /\ received' = [received EXCEPT ![i] = 1]
                /\ enquiry' = [enquiry EXCEPT ![i] = IF i \in Captioned THEN MatchedClient(i) ELSE @]
           ELSE UNCHANGED <<received, enquiry>>
    /\ End(t) /\ UNCHANGED <<message, key, uses, expired, document>>

-----------------------------------------------------------------------------
SendRequests(t) ==
    \/ \E k \in Key, f \in Fingerprint, m \in Message, type \in WhatsAppMessageType :
         SendRead(t, k, f, m, type)
    \/ Reserve(t) \/ ReserveLost(t) \/ Record(t) \/ RecordEmail(t)
    \/ \E m \in Message : ResendRead(t, m)
    \/ \E i \in ProviderId, heard \in BOOLEAN : Dispatch(t, i, heard)
    \/ Dispatch(t, None, TRUE)

Webhooks(t) ==
    \/ \E i \in ProviderId, target \in Reports : ReportRead(t, i, target)
    \/ Report(t)
    \/ \E i \in Inbound : InboundRead(t, i)
    \/ InboundDone(t)

Next ==
    \/ DocumentMoves("DRAFT", "SENT") \/ DocumentMoves("SENT", "CANCELLED")
    \/ \E k \in Key : Expire(k)
    \/ \E t \in Txn : SendRequests(t) \/ Webhooks(t) \/ Abort(t)

Spec == Init /\ [][Next]_vars

-----------------------------------------------------------------------------
(* Properties.                                                             *)

TypeOK ==
    /\ channel \in {"whatsapp", "email"}
    /\ message \in [Message -> (IF channel = "whatsapp" THEN MessageRow ELSE EmailRow) \cup {None}]
    /\ key \in [Key -> KeyRow \cup {None}]
    /\ uses \in [Key -> Nat] /\ expired \subseteq Key
    /\ taken \in [ProviderId -> Message \cup {None}]
    /\ document \in {"DRAFT", "SENT", "CANCELLED"}
    /\ received \in [Inbound -> Nat]
    /\ enquiry \in [Inbound -> SUBSET (DOMAIN Client \cup {None})]
    /\ txn \in [Txn -> Request \cup {None}]
    /\ workers \in 1..Cardinality(Txn)

\* A key makes one message until it expires, whatever overlaps; once keys have
\* expired, one request at a time.
OneMessagePerKey == \A k \in Key : workers = 1 \/ k \notin expired => uses[k] <= 1

Arrived == {"SENT", "DELIVERED", "READ"}

\* A message that counts as sent is not sent again by hand, whatever overlaps
\* (an e-mail: one request at a time): between the look at its status and the
\* provider's answer neither a webhook nor another resend changes it.
NotSentAgain ==
    [][\A t \in Txn : taken' # taken /\ txn'[t] # txn[t] /\ Is(t, "resend")
                        /\ (channel = "whatsapp" \/ workers = 1)
         => message[txn[t].message].status \notin Arrived]_vars

\* The comment at whatsapp_service.py:96: reports only ever move a message
\* forward, unless it failed; one request at a time.
Rising ==
    \A m \in Message :
        message[m] # None /\ message[m].status \in Arrived /\ message'[m].status # "FAILED"
            => Rank[message'[m].status] >= Rank[message[m].status]
PromotionIsMonotonic == [][workers = 1 /\ channel = "whatsapp" => Rising]_vars

\* Nothing of a draft or a cancelled document is sent, one request at a time:
\* neither by the first call nor by a resend of what failed before.
OnlyOpenDocumentsSent ==
    [][workers = 1 /\ channel = "whatsapp" /\ document # "SENT" =>
         \A i \in ProviderId : taken'[i] # taken[i] => message[taken'[i]].type = "TEXT"]_vars

\* A message received is one row, and its enquiry exists with it.
OneEnquiryPerInbound ==
    \A i \in Inbound :
        /\ received[i] <= 1
        /\ enquiry[i] # {} <=> received[i] = 1 /\ i \in Captioned

\* Rows have their types, and a key sent or a message received makes one.
OneRowEach == TypeOK /\ OneMessagePerKey /\ OneEnquiryPerInbound

\* Nothing is sent twice, and nothing that should not be sent.
SentRightly == NotSentAgain /\ OnlyOpenDocumentsSent

=============================================================================
