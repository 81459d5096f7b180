--------------------------- MODULE Notifications ---------------------------
(***************************************************************************)
(* Consent, preferences, notification intents and their delivery            *)
(* (domain/notifications.py), the send_notification command that drives     *)
(* them (agents/executor.py, agents/base.py) and the erasure of a donor's   *)
(* notification state (privacy_ops.py), in a process that may crash.        *)
(*                                                                          *)
(* All of it lives in the memory of one process; only the execution         *)
(* receipts of the send commands are stored.  The process is single         *)
(* threaded, so that while an adapter is on the network nothing but its     *)
(* answer, or a crash, can happen.                                          *)
(***************************************************************************)
EXTENDS Naturals, Providers

CONSTANTS
    Donors,
    Channels,      \* the channels in use, a set with "EMAIL" in it
    Sources,       \* published receipts a donor can be told about
    DonorOf,       \* the donor of a receipt
    ClassOf,       \* its message class: "MONEY_USED", "CORRECTION", "IMPACT_OCCURRED"
    Preferences,   \* the preference records donors choose from
    Hours,         \* the times of day, 0 .. h - 1
    MaxIntents,    \* bound on the intents created
    MaxEras        \* bound on the crashes and erasures a donor goes through

ASSUME NotificationsAssumption ==
    /\ "EMAIL" \in Channels /\ Sources # {}
    /\ DonorOf \in [Sources -> Donors]
    /\ ClassOf \in [Sources -> {"MONEY_USED", "CORRECTION", "IMPACT_OCCURRED"}]
    /\ MaxIntents \in Nat /\ MaxEras \in Nat

VARIABLES
    adapters,      \* the adapter of each channel; all "down" between processes
    consents,      \* ws.consents
    preferences,   \* ws.preferences
    intents,       \* ws.intents and ws.intents_by_dedup, by dedup key
    deliveries,    \* ws.deliveries
    seen,          \* CommandExecutor._seen_keys
    call,          \* the call the process is in
    saved,         \* stored execution receipts of send commands, and the
                   \* e-mail adapter of the process that stored each (history)
    ids,           \* intent ids used so far
    mailbox,       \* what the providers have taken (outside the program)
    era,           \* crashes and erasures the donor has been through (history)
    refused        \* where the donor's last word was no (history)

memory == <<adapters, consents, preferences, intents, deliveries, seen, call>>
vars == <<memory, saved, ids, mailbox, era, refused>>

NotificationIntentStatus ==
    {"CREATED", "BLOCKED_NO_CONSENT", "BLOCKED_PREFERENCE",
     "DEFERRED_QUIET_HOURS", "DELIVERED", "FAILED", "SUPERSEDED",
     "PERMANENT_FAILURE"}
Addresses == Donors \X Channels

\* The dedup key.  Organization and template version are fixed, donor, message
\* class and source type are functions of the receipt, which never changes.
Keys == Sources \X Channels
AddressOf(key) == <<DonorOf[key[1]], key[2]>>

NoIntent == [id |-> 0, status |-> "none"]
NotificationIntent == [id: 1 .. MaxIntents, status: NotificationIntentStatus]
NotificationDelivery == [key: Keys, id: 1 .. MaxIntents, success: BOOLEAN]
NoPreference == [enabled |-> FALSE, topics |-> {}, quiet |-> <<>>, set |-> FALSE]
\* The preference that goes with a consent made up by a fixture adapter.
FixturePreference ==
    [enabled |-> TRUE, topics |-> {"MONEY_USED", "CORRECTION"}, quiet |-> <<>>,
     set |-> TRUE]
Idle == [stage |-> "idle", key |-> CHOOSE k \in Keys : TRUE, by |-> "host"]

TypeOK ==
    /\ adapters \in [Channels -> Backends \cup {"none", "down"}]
    /\ consents \in [Addresses -> {"none", "granted", "revoked"}]
    /\ preferences \in [Addresses -> Preferences \cup {NoPreference, FixturePreference}]
    /\ intents \in [Keys -> NotificationIntent \cup {NoIntent}]
    /\ deliveries \subseteq NotificationDelivery
    /\ seen \subseteq Sources
    /\ call \in [stage: {"idle", "wire", "store"}, key: Keys, by: {"host", "send"}]
    /\ saved \subseteq [src: Sources, by: Backends]
    /\ ids \in 0 .. MaxIntents
    /\ mailbox \subseteq [key: Keys, id: 1 .. MaxIntents, era: Nat]
    /\ era \in [Donors -> 0 .. MaxEras]
    /\ refused \subseteq Addresses

Init == /\ adapters = [c \in Channels |-> "down"]
        /\ consents = [a \in Addresses |-> "none"]
        /\ preferences = [a \in Addresses |-> NoPreference]
        /\ intents = [k \in Keys |-> NoIntent]
        /\ deliveries = {} /\ seen = {} /\ call = Idle
        /\ saved = {} /\ ids = 0 /\ mailbox = {}
        /\ era = [d \in Donors |-> 0]
        /\ refused = {}

Stored == {r.src : r \in saved}
StoreReceipt(src) == saved' = saved \cup {[src |-> src, by |-> adapters["EMAIL"]]}

Ready == adapters["EMAIL"] # "down" /\ call = Idle

(***************************************************************************)
(* The process starts.  The host binds adapters before it does anything     *)
(* else, or binds none: then every channel has an in-process one.           *)
(***************************************************************************)
AtMostOne(fields) == {{}} \cup {{f} : f \in fields}

configure_notification_adapters ==
    /\ adapters["EMAIL"] = "down"
    /\ \E email \in Email \cup {"fixture_email"},
          push \in Push \cup {"fixture_push"}, pushed \in BOOLEAN :
         \E wrong \in AtMostOne(Fields(email)), wrongPush \in AtMostOne(Fields(push)) :
           LET opened == open_email_adapter(email, wrong)
               openedPush == open_push_adapter(push, wrongPush)
           IN  /\ opened # "error" /\ (pushed => openedPush # "error")
               /\ adapters' = [c \in Channels |->
                                 IF c = "EMAIL" THEN opened
                                 ELSE IF c = "PUSH" /\ pushed THEN openedPush
                                 ELSE "none"]
    /\ UNCHANGED <<consents, preferences, intents, deliveries, seen, call,
                   saved, ids, mailbox, era, refused>>

default_adapters ==
    /\ adapters["EMAIL"] = "down"
    /\ adapters' = [c \in Channels |-> "in_process"]
    /\ UNCHANGED <<consents, preferences, intents, deliveries, seen, call,
                   saved, ids, mailbox, era, refused>>

(***************************************************************************)
(* Consent and preferences.                                                 *)
(***************************************************************************)
record_consent(a, granted) ==
    /\ Ready
    /\ consents' = [consents EXCEPT ![a] = IF granted THEN "granted" ELSE "revoked"]
    /\ refused' = IF granted THEN refused \ {a} ELSE refused \cup {a}
    /\ UNCHANGED <<adapters, preferences, intents, deliveries, seen, call,
                   saved, ids, mailbox, era>>

set_preference(a, pref) ==
    /\ Ready
    /\ preferences' = [preferences EXCEPT ![a] = pref]
    /\ UNCHANGED <<adapters, consents, intents, deliveries, seen, call,
                   saved, ids, mailbox, era, refused>>

_has_consent(cs, a) == cs[a] = "granted"

\* With no record, e-mail is allowed and the other channels are not; an empty
\* topic list allows every topic.
_pref_allows(ps, key) ==
    LET pref == ps[AddressOf(key)] IN
    IF ~pref.set THEN key[2] = "EMAIL"
    ELSE /\ pref.enabled
         /\ pref.topics = {} \/ ClassOf[key[1]] \in pref.topics

\* quiet is <<start, end>>, end excluded, and wraps round midnight.
_in_quiet_hours(quiet, hour) ==
    /\ quiet # <<>>
    /\ LET start == quiet[1]
           end == quiet[2]
       IN  IF start <= end THEN start <= hour /\ hour < end
           ELSE start <= hour \/ hour < end

(***************************************************************************)
(* evaluate_intent: at most one intent for a dedup key, delivered at once   *)
(* when consent, preference and quiet hours allow it.                       *)
(***************************************************************************)
NewStatus(cs, ps, key, hour) ==
    IF ~_has_consent(cs, AddressOf(key)) THEN "BLOCKED_NO_CONSENT"
    ELSE IF ~_pref_allows(ps, key) THEN "BLOCKED_PREFERENCE"
    ELSE IF _in_quiet_hours(ps[AddressOf(key)].quiet, hour)
           THEN "DEFERRED_QUIET_HOURS"
    ELSE "CREATED"

\* What the caller does with the intent it gets back: the send command fails
\* unless it is DELIVERED, and then only its receipt is left to store.
Returned(key, by, status) ==
    IF by = "send" /\ status = "DELIVERED"
      THEN [stage |-> "store", key |-> key, by |-> by]
      ELSE Idle

\* Is the intent that exists for the key the answer?
Existing_Retries(intent) == intent.status \in {"DELIVERED", "SUPERSEDED"}
Existing(intent) == intent # NoIntent

evaluate_intent(cs, ps, key, by, deliver) ==
    \/ /\ Existing(intents[key])
       /\ call' = Returned(key, by, intents[key].status)
       /\ UNCHANGED <<intents, ids>>
    \/ /\ ~Existing(intents[key])
       /\ ids < MaxIntents
       /\ ids' = ids + 1
       /\ \E hour \in Hours :
            LET status == NewStatus(cs, ps, key, hour) IN
            /\ intents' = [intents EXCEPT ![key] = [id |-> ids + 1, status |-> status]]
            /\ call' = IF status = "CREATED" /\ deliver
                         THEN [stage |-> "wire", key |-> key, by |-> by]
                         ELSE Returned(key, by, status)

\* The host's own calls, for receipts of either kind and on any channel.
evaluate_for_use_of_funds(src, channel, deliver) ==
    /\ Ready
    /\ ClassOf[src] \in {"MONEY_USED", "CORRECTION"}
    /\ evaluate_intent(consents, preferences, <<src, channel>>, "host", deliver)
    /\ UNCHANGED <<adapters, consents, preferences, deliveries, seen, saved,
                   mailbox, era, refused>>

evaluate_for_impact(src, channel, deliver) ==
    /\ Ready
    /\ ClassOf[src] = "IMPACT_OCCURRED"
    /\ evaluate_intent(consents, preferences, <<src, channel>>, "host", deliver)
    /\ UNCHANGED <<adapters, consents, preferences, deliveries, seen, saved,
                   mailbox, era, refused>>

(***************************************************************************)
(* The send_notification command.  It is executed on a human approval, with *)
(* a preview that matches the receipt (any other attempt fails and changes  *)
(* nothing).  A stored receipt answers a repeated command, and so does a    *)
(* key the process has seen.                                                *)
(***************************************************************************)
\* Only adapters that stay in the process make up a consent, and only for a
\* donor who has none on record.
BootstrapsConsent_AnyAdapter(a) == consents[a] = "none"
BootstrapsConsent(a) ==
    adapters["EMAIL"] \in {"fixture_email", "in_process"} /\ consents[a] = "none"

_send_notification(src) ==
    LET key == <<src, "EMAIL">>
        a == AddressOf(key)
        cs == IF BootstrapsConsent(a) THEN [consents EXCEPT ![a] = "granted"]
              ELSE consents
        ps == IF BootstrapsConsent(a)
                THEN [preferences EXCEPT ![a] = FixturePreference]
                ELSE preferences
    IN /\ Ready
       /\ ClassOf[src] \in {"MONEY_USED", "CORRECTION"}
       /\ src \notin Stored \cup seen
       /\ consents' = cs /\ preferences' = ps
       /\ evaluate_intent(cs, ps, key, "send", TRUE)
       /\ UNCHANGED <<adapters, deliveries, seen, saved, mailbox, era, refused>>

\* The execution receipt is stored; or the store fails, the command is FAILED
\* and its key stays among the keys seen.
_store_receipt(stored) ==
    /\ call.stage = "store"
    /\ call' = Idle
    /\ seen' = seen \cup {call.key[1]}
    /\ IF stored THEN StoreReceipt(call.key[1]) ELSE UNCHANGED saved
    /\ UNCHANGED <<adapters, consents, preferences, intents, deliveries, ids,
                   mailbox, era, refused>>

\* A key the process has seen is SKIPPED, which is stored as well.
execute_skipped(src) ==
    /\ Ready
    /\ src \in seen \ Stored
    /\ StoreReceipt(src)
    /\ UNCHANGED <<memory, ids, mailbox, era, refused>>

(***************************************************************************)
(* _deliver: the adapter's attempt and what is recorded of it.  An adapter  *)
(* that raises leaves the intent CREATED, with no delivery.                 *)
(***************************************************************************)
StatusAfter_Raw(verdict) == IF verdict = "success" THEN "DELIVERED" ELSE verdict
StatusAfter(verdict) ==
    IF verdict = "success" THEN "DELIVERED"
    ELSE IF verdict = "permanent" THEN "PERMANENT_FAILURE"
    ELSE "FAILED"

Recorded(key, verdict) ==
    /\ intents' = [intents EXCEPT ![key].status = StatusAfter(verdict)]
    /\ deliveries' = deliveries \cup
         {[key |-> key, id |-> intents[key].id, success |-> verdict = "success"]}
    /\ call' = Returned(key, call.by, StatusAfter(verdict))

Message(key) == [key |-> key, id |-> intents[key].id, era |-> era[DonorOf[key[1]]]]

Taken(took, key) ==
    IF took /\ adapters[key[2]] \in Production THEN {Message(key)} ELSE {}

deliver_none ==
    /\ call.stage = "wire"
    /\ adapters[call.key[2]] = "none"
    /\ Recorded(call.key, "temporary")
    /\ UNCHANGED <<adapters, consents, preferences, seen, saved, ids, mailbox,
                   era, refused>>

_deliver ==
    /\ call.stage = "wire"
    /\ adapters[call.key[2]] # "none"
    /\ \E reply \in Replies(adapters[call.key[2]]) :
         /\ \E took \in MayHaveTaken(reply) :
              mailbox' = mailbox \cup Taken(took, call.key)
         /\ \/ /\ Verdict(reply) # "raises"
               /\ Recorded(call.key, Verdict(reply))
            \/ /\ Verdict(reply) = "raises"
               /\ call' = Idle
               /\ UNCHANGED <<intents, deliveries>>
    /\ UNCHANGED <<adapters, consents, preferences, seen, saved, ids, era, refused>>

(***************************************************************************)
(* Erasure of a donor: consent is revoked on the channels the workspace     *)
(* knows for the donor, preferences go, and the history goes too or its     *)
(* intents are marked SUPERSEDED.                                           *)
(***************************************************************************)
KnownChannels(d) == {a \in {d} \X Channels : consents[a] # "none" \/ preferences[a].set}
KeysOf(d) == {k \in Keys : DonorOf[k[1]] = d}

RevokedFor(d) ==
    [a \in Addresses |-> IF a \in KnownChannels(d) THEN "revoked" ELSE consents[a]]

DeliveriesWithout_None(d) == deliveries
DeliveriesWithout(d) == {v \in deliveries : v.key \notin KeysOf(d)}

erase_donor_notification_state(d, erase_history) ==
    /\ Ready
    /\ era[d] < MaxEras
    /\ preferences' = [a \in Addresses |->
                         IF a[1] = d THEN NoPreference ELSE preferences[a]]
    /\ consents' = RevokedFor(d)
    /\ \/ /\ erase_history
          /\ deliveries' = DeliveriesWithout(d)
          /\ intents' = [k \in Keys |-> IF k \in KeysOf(d) THEN NoIntent ELSE intents[k]]
          /\ era' = [era EXCEPT ![d] = @ + 1]
       \/ /\ ~erase_history
          /\ intents' = [k \in Keys |->
                           IF k \in KeysOf(d) /\ intents[k] # NoIntent
                             THEN [intents[k] EXCEPT !.status = "SUPERSEDED"]
                             ELSE intents[k]]
          /\ UNCHANGED <<deliveries, era>>
    /\ refused' = refused \cup ({d} \X Channels)
    /\ UNCHANGED <<adapters, seen, call, saved, ids, mailbox>>

(***************************************************************************)
(* The process dies; a message on the wire may have been taken.             *)
(***************************************************************************)
crash ==
    /\ adapters["EMAIL"] # "down"
    /\ \A d \in Donors : era[d] < MaxEras
    /\ \E took \in BOOLEAN :
         mailbox' = mailbox \cup
           (IF call.stage = "wire" /\ adapters[call.key[2]] # "none"
              THEN Taken(took, call.key) ELSE {})
    /\ adapters' = [c \in Channels |-> "down"]
    /\ consents' = [a \in Addresses |-> "none"]
    /\ preferences' = [a \in Addresses |-> NoPreference]
    /\ intents' = [k \in Keys |-> NoIntent]
    /\ deliveries' = {} /\ seen' = {} /\ call' = Idle
    /\ era' = [d \in Donors |-> era[d] + 1]
    /\ UNCHANGED <<saved, ids, refused>>

Next ==
    \/ configure_notification_adapters \/ default_adapters
    \/ \E a \in Addresses : \/ \E granted \in BOOLEAN : record_consent(a, granted)
                            \/ \E pref \in Preferences : set_preference(a, pref)
    \/ \E src \in Sources, channel \in Channels, deliver \in BOOLEAN :
         \/ evaluate_for_use_of_funds(src, channel, deliver)
         \/ evaluate_for_impact(src, channel, deliver)
    \/ \E src \in Sources : _send_notification(src) \/ execute_skipped(src)
    \/ \E stored \in BOOLEAN : _store_receipt(stored)
    \/ deliver_none \/ _deliver
    \/ \E d \in Donors, erase_history \in BOOLEAN :
         erase_donor_notification_state(d, erase_history)
    \/ crash

Spec == Init /\ [][Next]_vars

(***************************************************************************)
(* Properties.                                                              *)
(***************************************************************************)

\* Consent is decided before the network (SECURITY.md: "Missing or revoked
\* consent blocks delivery before recipient resolution or network access"):
\* when a provider takes a message, the donor's consent is on record, and the
\* donor's last word on that channel, through erasures and restarts, was not no.
NoIsNo ==
    [][\A m \in mailbox' \ mailbox :
         /\ consents[AddressOf(m.key)] = "granted"
         /\ AddressOf(m.key) \notin refused]_vars

\* evaluate_intent creates at most one intent for a dedup key, whatever becomes
\* of its delivery: providers take two messages for the same receipt and
\* channel only across a crash or an erasure, which forget the intent.
RepeatNeedsNewEra ==
    \A m, n \in mailbox : m.key = n.key /\ m.era = n.era => m = n

\* A send receipt is stored only after the provider took the message: when the
\* process that stored it had bound a production e-mail backend, that backend
\* has a message for the receipt, whatever failed, crashed or was erased between.
SavedMeansTaken ==
    \A r \in saved : r.by \in Email => \E m \in mailbox : m.key = <<r.src, "EMAIL">>

\* deliveries and intents are kept by different statements: every delivery
\* belongs to the intent of its key, and is a success exactly when that intent
\* is DELIVERED, unless an erasure marked the intent SUPERSEDED.
DeliveriesMatchIntents ==
    \A v \in deliveries :
       /\ intents[v.key].id = v.id
       /\ intents[v.key].status # "SUPERSEDED" =>
            v.success = (intents[v.key].status = "DELIVERED")
=============================================================================
