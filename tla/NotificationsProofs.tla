------------------------- MODULE NotificationsProofs ------------------------
(***************************************************************************)
(* Theorems about consent, intents and deliveries, for every set of donors,*)
(* channels, receipts and preferences.                                     *)
(***************************************************************************)
EXTENDS Notifications, TLAPS

-----------------------------------------------------------------------------
(* The inductive invariant *)

\* A production e-mail backend that is bound has a message for the receipt.
MailTaken(src) ==
    adapters["EMAIL"] \in Email => \E m \in mailbox : m.key = <<src, "EMAIL">>

\* The e-mail adapter is one of the e-mail kind, and a process that is down has
\* no memory.
AdapterInv ==
    /\ adapters["EMAIL"] \in Email \cup {"fixture_email", "in_process", "down"}
    /\ adapters["EMAIL"] = "down" =>
         /\ call = Idle /\ seen = {} /\ deliveries = {}
         /\ \A k \in Keys : intents[k] = NoIntent

\* A message on the wire is for a donor who consented, and nothing came of its
\* intent before; a receipt to be stored is of a message that was taken.
CallInv ==
    /\ call.stage = "wire" =>
         /\ intents[call.key].status = "CREATED"
         /\ consents[AddressOf(call.key)] = "granted"
         /\ call.by = "send" => call.key[2] = "EMAIL"
         /\ \A v \in deliveries : v.key # call.key
         /\ \A m \in mailbox : m.key = call.key => m.era # era[DonorOf[call.key[1]]]
    /\ call.stage = "store" => call.key[2] = "EMAIL" /\ MailTaken(call.key[1])

\* A consent made up for a donor who once said no stays in the process.
ConsentInv ==
    \A a \in refused : consents[a] = "granted" =>
       a[2] = "EMAIL" /\ adapters["EMAIL"] \in {"fixture_email", "in_process"}

\* A message of the present era has an intent, which evaluate_intent finds.
MailInv ==
    \A m \in mailbox :
       /\ m.era <= era[DonorOf[m.key[1]]]
       /\ m.era = era[DonorOf[m.key[1]]] => intents[m.key] # NoIntent

\* What answers a send command, a key seen or a DELIVERED intent, is of a
\* message that was taken.
SeenInv ==
    /\ \A src \in seen : MailTaken(src)
    /\ \A src \in Sources :
         intents[<<src, "EMAIL">>].status = "DELIVERED" => MailTaken(src)

NInv ==
    /\ TypeOK /\ AdapterInv /\ CallInv /\ ConsentInv /\ MailInv /\ SeenInv
    /\ RepeatNeedsNewEra /\ SavedMeansTaken /\ DeliveriesMatchIntents

-----------------------------------------------------------------------------
(* Keys, calls and statuses *)

CallType == [stage: {"idle", "wire", "store"}, key: Keys, by: {"host", "send"}]

\* A dedup key is a receipt and a channel.
LEMMA KeyParts ==
    ASSUME NEW k \in Keys
    PROVE  /\ k[1] \in Sources /\ k[2] \in Channels /\ k = <<k[1], k[2]>>
           /\ AddressOf(k) \in Addresses /\ AddressOf(k)[1] = DonorOf[k[1]]
           /\ AddressOf(k)[2] = k[2] /\ DonorOf[k[1]] \in Donors
BY NotificationsAssumption DEF Keys, AddressOf, Addresses

\* A receipt has an e-mail key.
LEMMA EmailKey ==
    ASSUME NEW src \in Sources
    PROVE  <<src, "EMAIL">> \in Keys
BY NotificationsAssumption DEF Keys

\* The idle process is in no call.
LEMMA IdleType == Idle \in CallType /\ Idle.stage = "idle"
PROOF
  <1>1. Keys # {}
    BY NotificationsAssumption, EmailKey
  <1>2. (CHOOSE k \in Keys : TRUE) \in Keys
    BY <1>1
  <1> QED
    BY <1>2 DEF Idle, CallType

\* A missing intent has no id and no status.
LEMMA NoIntentIsNone ==
    /\ NoIntent.status = "none" /\ NoIntent.id = 0 /\ NoIntent \notin NotificationIntent
BY NotificationsAssumption DEF NoIntent, NotificationIntent

\* A new intent is never delivered when it is made, and has its donor's consent
\* when it is to be delivered.
LEMMA NewStatusFacts ==
    ASSUME NEW cs, NEW ps, NEW key, NEW hour
    PROVE  LET st == NewStatus(cs, ps, key, hour) IN
           /\ st \in NotificationIntentStatus /\ st # "DELIVERED"
           /\ st = "CREATED" => cs[AddressOf(key)] = "granted"
BY DEF NewStatus, NotificationIntentStatus, _has_consent

\* What a call is after the intent was returned to its caller.
LEMMA ReturnedFacts ==
    ASSUME NEW key \in Keys, NEW by \in {"host", "send"}, NEW status
    PROVE  LET c == Returned(key, by, status) IN
           /\ c \in CallType /\ c.stage # "wire"
           /\ c.stage = "store" => by = "send" /\ status = "DELIVERED" /\ c.key = key
PROOF
  <1>1. CASE by = "send" /\ status = "DELIVERED"
    BY <1>1 DEF Returned, CallType
  <1>2. CASE ~(by = "send" /\ status = "DELIVERED")
    BY <1>2, IdleType DEF Returned
  <1> QED
    BY <1>1, <1>2

\* The parts of the type invariant.
LEMMA Types ==
    ASSUME TypeOK
    PROVE  /\ call \in CallType /\ call.key \in Keys /\ call.by \in {"host", "send"}
           /\ consents \in [Addresses -> {"none", "granted", "revoked"}]
           /\ intents \in [Keys -> NotificationIntent \cup {NoIntent}]
           /\ \A m \in mailbox : m.key \in Keys /\ m.era \in Nat /\ m.id \in 1 .. MaxIntents
           /\ \A v \in deliveries : v.key \in Keys /\ v.id \in 1 .. MaxIntents
           /\ \A d \in Donors : era[d] \in Nat
BY NotificationsAssumption DEF TypeOK, CallType, NotificationDelivery

-----------------------------------------------------------------------------
(* The process starts, the donor speaks *)

\* A process that starts has no memory to be wrong about.
LEMMA StartStep ==
    ASSUME NInv, adapters["EMAIL"] = "down",
           adapters' \in [Channels -> Backends \cup {"none", "down"}],
           adapters'["EMAIL"] \in Email \cup {"fixture_email", "in_process"},
           UNCHANGED <<consents, preferences, intents, deliveries, seen, call,
                       saved, ids, mailbox, era, refused>>
    PROVE  NInv'
PROOF
  <1>1. /\ TypeOK /\ AdapterInv /\ CallInv /\ ConsentInv /\ MailInv /\ SeenInv
        /\ RepeatNeedsNewEra /\ SavedMeansTaken /\ DeliveriesMatchIntents
    BY DEF NInv
  <1>2. /\ call = Idle /\ call.stage = "idle" /\ seen = {} /\ deliveries = {}
        /\ \A k \in Keys : intents[k].status = "none"
    BY <1>1, IdleType, NoIntentIsNone DEF AdapterInv
  <1>3. adapters'["EMAIL"] # "down"
    BY DEF Email
  <1>4. TypeOK'
    BY <1>1 DEF TypeOK
  <1>5. AdapterInv' /\ CallInv'
    BY <1>2, <1>3 DEF AdapterInv, CallInv
  <1>6. ConsentInv'
    BY <1>1 DEF ConsentInv
  <1>7. SeenInv'
    <2>1. \A src \in Sources : intents[<<src, "EMAIL">>].status = "none"
      BY <1>2, EmailKey
    <2> QED
      BY <1>2, <2>1 DEF SeenInv
  <1>8. MailInv' /\ RepeatNeedsNewEra' /\ SavedMeansTaken' /\ DeliveriesMatchIntents'
    BY <1>1 DEF MailInv, RepeatNeedsNewEra, SavedMeansTaken, DeliveriesMatchIntents
  <1> QED
    BY <1>4, <1>5, <1>6, <1>7, <1>8 DEF NInv

\* The host binds adapters.
LEMMA ConfigureStep ==
    ASSUME NInv, configure_notification_adapters \/ default_adapters
    PROVE  NInv'
PROOF
  <1>1. "EMAIL" \in Channels
    BY NotificationsAssumption
  <1>2. CASE default_adapters
    <2>1. adapters' = [c \in Channels |-> "in_process"]
      BY <1>2 DEF default_adapters
    <2>2. /\ adapters' \in [Channels -> Backends \cup {"none", "down"}]
          /\ adapters'["EMAIL"] = "in_process"
      BY <1>1, <2>1 DEF Backends, Fixtures
    <2> QED
      BY <1>2, <2>2, StartStep DEF default_adapters
  <1>3. CASE configure_notification_adapters
    <2> DEFINE Bound(email, push, pushed, wrong, wrongPush) ==
            /\ open_email_adapter(email, wrong) # "error"
            /\ pushed => open_push_adapter(push, wrongPush) # "error"
            /\ adapters' = [c \in Channels |->
                              IF c = "EMAIL" THEN open_email_adapter(email, wrong)
                              ELSE IF c = "PUSH" /\ pushed
                                     THEN open_push_adapter(push, wrongPush)
                              ELSE "none"]
    <2>0. PICK email \in Email \cup {"fixture_email"}, push \in Push \cup {"fixture_push"},
               pushed \in BOOLEAN :
            \E wrong \in AtMostOne(Fields(email)), wrongPush \in AtMostOne(Fields(push)) :
               Bound(email, push, pushed, wrong, wrongPush)
      BY <1>3 DEF configure_notification_adapters
    <2>1. PICK wrong \in AtMostOne(Fields(email)), wrongPush \in AtMostOne(Fields(push)) :
            Bound(email, push, pushed, wrong, wrongPush)
      BY <2>0
    <2>2. open_email_adapter(email, wrong) = email
      BY <2>1 DEF open_email_adapter
    <2>3. pushed => open_push_adapter(push, wrongPush) = push
      BY <2>1 DEF open_push_adapter
    <2>4. email \in Backends /\ push \in Backends
      BY DEF Backends, Production, Fixtures
    <2>5. /\ adapters' \in [Channels -> Backends \cup {"none", "down"}]
          /\ adapters'["EMAIL"] = email
      BY <1>1, <2>1, <2>2, <2>3, <2>4
    <2> QED
      BY <1>3, <2>5, StartStep DEF configure_notification_adapters
  <1> QED
    BY <1>2, <1>3

\* The donor's word, or an erasure, changes consent and preference: no call is
\* under way, and where the last word is no there is no consent.
LEMMA WordStep ==
    ASSUME NInv, Ready,
           consents' \in [Addresses -> {"none", "granted", "revoked"}],
           preferences' \in [Addresses -> Preferences \cup {NoPreference, FixturePreference}],
           refused' \subseteq Addresses,
           ConsentInv',
           UNCHANGED <<adapters, intents, deliveries, seen, call, saved, ids, mailbox, era>>
    PROVE  NInv'
PROOF
  <1>1. /\ TypeOK /\ AdapterInv /\ CallInv /\ MailInv /\ SeenInv
        /\ RepeatNeedsNewEra /\ SavedMeansTaken /\ DeliveriesMatchIntents
    BY DEF NInv
  <1>2. call.stage = "idle"
    BY IdleType DEF Ready
  <1>3. TypeOK'
    BY <1>1 DEF TypeOK
  <1>4. AdapterInv' /\ CallInv'
    BY <1>1, <1>2 DEF AdapterInv, CallInv
  <1>5. MailInv' /\ RepeatNeedsNewEra' /\ SavedMeansTaken' /\ DeliveriesMatchIntents'
    BY <1>1 DEF MailInv, RepeatNeedsNewEra, SavedMeansTaken, DeliveriesMatchIntents
  <1>6. SeenInv'
    BY <1>1 DEF SeenInv, MailTaken
  <1> QED
    BY <1>3, <1>4, <1>5, <1>6 DEF NInv

\* Consent is given or withdrawn.
LEMMA ConsentStep ==
    ASSUME NInv, NEW a \in Addresses, NEW granted \in BOOLEAN, record_consent(a, granted)
    PROVE  NInv'
PROOF
  <1>1. TypeOK /\ ConsentInv
    BY DEF NInv
  <1>2. /\ Ready
        /\ UNCHANGED <<adapters, preferences, intents, deliveries, seen, call,
                       saved, ids, mailbox, era>>
    BY DEF record_consent
  <1>3. \/ consents' = [consents EXCEPT ![a] = "granted"] /\ refused' = refused \ {a}
        \/ consents' = [consents EXCEPT ![a] = "revoked"] /\ refused' = refused \cup {a}
    BY Zenon DEF record_consent
  <1>4. /\ consents' \in [Addresses -> {"none", "granted", "revoked"}]
        /\ refused' \subseteq Addresses
        /\ preferences' \in [Addresses -> Preferences \cup {NoPreference, FixturePreference}]
    BY <1>1, <1>2, <1>3 DEF TypeOK
  <1>5. ConsentInv'
    BY <1>1, <1>2, <1>3 DEF ConsentInv, TypeOK
  <1> QED
    BY <1>2, <1>4, <1>5, WordStep

\* A preference is set.
LEMMA PreferenceStep ==
    ASSUME NInv, NEW a \in Addresses, NEW pref \in Preferences, set_preference(a, pref)
    PROVE  NInv'
PROOF
  <1>1. TypeOK /\ ConsentInv
    BY DEF NInv
  <1>2. /\ Ready /\ preferences' = [preferences EXCEPT ![a] = pref]
        /\ UNCHANGED <<adapters, consents, intents, deliveries, seen, call,
                       saved, ids, mailbox, era, refused>>
    BY DEF set_preference
  <1>3. /\ consents' \in [Addresses -> {"none", "granted", "revoked"}]
        /\ refused' \subseteq Addresses
        /\ preferences' \in [Addresses -> Preferences \cup {NoPreference, FixturePreference}]
    BY <1>1, <1>2 DEF TypeOK
  <1>4. ConsentInv'
    BY <1>1, <1>2 DEF ConsentInv
  <1> QED
    BY <1>2, <1>3, <1>4, WordStep

-----------------------------------------------------------------------------
(* Intents *)

\* An intent is looked up or made: nothing was ever recorded or taken for a new
\* one in this era, and the caller gets a DELIVERED one only after a message
\* was taken.
LEMMA EvaluateStep ==
    ASSUME NInv, Ready, NEW key \in Keys, NEW by \in {"host", "send"}, NEW deliver,
           by = "send" => key[2] = "EMAIL",
           consents' \in [Addresses -> {"none", "granted", "revoked"}],
           preferences' \in [Addresses -> Preferences \cup {NoPreference, FixturePreference}],
           evaluate_intent(consents', preferences', key, by, deliver),
           ConsentInv',
           UNCHANGED <<adapters, deliveries, seen, saved, mailbox, era, refused>>
    PROVE  NInv'
PROOF
  <1>1. /\ TypeOK /\ AdapterInv /\ CallInv /\ MailInv /\ SeenInv
        /\ RepeatNeedsNewEra /\ SavedMeansTaken /\ DeliveriesMatchIntents
    BY DEF NInv
  <1>2. adapters'["EMAIL"] # "down"
    BY DEF Ready
  <1>3. AdapterInv'
    BY <1>1, <1>2 DEF AdapterInv
  <1>4. RepeatNeedsNewEra' /\ SavedMeansTaken'
    BY <1>1 DEF RepeatNeedsNewEra, SavedMeansTaken
  <1>5. \A src : MailTaken(src)' <=> MailTaken(src)
    BY DEF MailTaken
  <1>6. by = "send" => key = <<key[1], "EMAIL">> /\ key[1] \in Sources
    BY KeyParts
  <1>7. intents \in [Keys -> NotificationIntent \cup {NoIntent}]
    BY <1>1, Types
  <1>8. CASE /\ Existing(intents[key])
             /\ call' = Returned(key, by, intents[key].status)
             /\ UNCHANGED <<intents, ids>>
    <2>1. /\ call' \in CallType /\ call'.stage # "wire"
          /\ call'.stage = "store" =>
                by = "send" /\ intents[key].status = "DELIVERED" /\ call'.key = key
      BY <1>8, ReturnedFacts
    <2>2. TypeOK'
      BY <1>1, <1>8, <2>1 DEF TypeOK, CallType
    <2>3. CallInv'
      <3>1. ASSUME call'.stage = "store"
            PROVE  call'.key[2] = "EMAIL" /\ MailTaken(call.key[1])'
        <4>1. MailTaken(key[1])
          BY <1>1, <1>6, <2>1, <3>1 DEF SeenInv
        <4>2. MailTaken(call.key[1])' <=> MailTaken(key[1])
          BY <2>1, <3>1 DEF MailTaken
        <4> QED
          BY <2>1, <3>1, <4>1, <4>2
      <3> QED
        BY <2>1, <3>1 DEF CallInv
    <2>4. MailInv' /\ SeenInv' /\ DeliveriesMatchIntents'
      BY <1>1, <1>5, <1>8 DEF MailInv, SeenInv, DeliveriesMatchIntents
    <2> QED
      BY <1>3, <1>4, <2>2, <2>3, <2>4 DEF NInv
  <1>9. ASSUME ~Existing(intents[key]), ids < MaxIntents, ids' = ids + 1, NEW hour \in Hours,
               LET status == NewStatus(consents', preferences', key, hour) IN
               /\ intents' = [intents EXCEPT ![key] = [id |-> ids + 1, status |-> status]]
               /\ call' = IF status = "CREATED" /\ deliver
                            THEN [stage |-> "wire", key |-> key, by |-> by]
                            ELSE Returned(key, by, status)
        PROVE  NInv'
    <2>1. PICK st : st = NewStatus(consents', preferences', key, hour)
      OBVIOUS
    <2>2. /\ st \in NotificationIntentStatus /\ st # "DELIVERED"
          /\ st = "CREATED" => consents'[AddressOf(key)] = "granted"
      BY <2>1, NewStatusFacts
    <2>3. PICK new : new = [id |-> ids + 1, status |-> st]
      OBVIOUS
    <2>4. intents' = [intents EXCEPT ![key] = new]
      BY <1>9, <2>1, <2>3
    <2>5. ids + 1 \in 1 .. MaxIntents
      BY <1>1, <1>9, NotificationsAssumption DEF TypeOK
    <2>6. new \in NotificationIntent /\ new.status = st
      BY <2>2, <2>3, <2>5 DEF NotificationIntent
    <2>7. /\ intents' \in [Keys -> NotificationIntent \cup {NoIntent}]
          /\ intents'[key] = new /\ \A k \in Keys \ {key} : intents'[k] = intents[k]
      BY <1>7, <2>4, <2>6
    <2>8. intents[key] = NoIntent
      BY <1>9 DEF Existing
    <2>9. \/ /\ st = "CREATED"
             /\ call' = [stage |-> "wire", key |-> key, by |-> by]
          \/ call' = Returned(key, by, st)
      BY <1>9, <2>1
    <2>10. /\ call' \in CallType /\ call'.stage # "store"
           /\ call'.stage = "wire" => st = "CREATED" /\ call'.key = key /\ call'.by = by
      BY <2>2, <2>9, ReturnedFacts DEF CallType
    <2>11. TypeOK'
      BY <1>1, <1>9, <2>5, <2>7, <2>10 DEF TypeOK, CallType
    <2>12. \A v \in deliveries : v.key # key
      BY <1>1, <2>8, NoIntentIsNone, Types DEF DeliveriesMatchIntents
    <2>13. \A m \in mailbox : m.key = key => m.era # era[DonorOf[key[1]]]
      BY <1>1, <2>8 DEF MailInv
    <2>14. CallInv'
      <3> SUFFICES ASSUME call'.stage = "wire"
                   PROVE  CallInv'
        BY <2>10 DEF CallInv
      <3>1. call'.key = key /\ call'.by = by /\ st = "CREATED"
        BY <2>10
      <3>2. /\ intents'[call'.key].status = "CREATED"
            /\ call'.by = "send" => call'.key[2] = "EMAIL"
        BY <2>6, <2>7, <3>1
      <3>3. (consents[AddressOf(call.key)])' = "granted"
        BY <2>2, <3>1 DEF AddressOf
      <3>4. /\ \A v \in deliveries' : v.key # call'.key
            /\ \A m \in mailbox' : m.key = call'.key => m.era # era'[DonorOf[call'.key[1]]]
        BY <2>12, <2>13, <3>1
      <3> QED
        BY <2>10, <3>2, <3>3, <3>4 DEF CallInv
    <2>15. MailInv'
      <3>1. \A m \in mailbox : m.key \in Keys
        BY <1>1, Types
      <3>2. new # NoIntent
        BY <2>6, NoIntentIsNone
      <3> QED
        BY <1>1, <2>7, <3>1, <3>2 DEF MailInv
    <2>16. SeenInv'
      <3>1. \A src \in Sources : intents'[<<src, "EMAIL">>].status = "DELIVERED" =>
                                 intents[<<src, "EMAIL">>].status = "DELIVERED"
        BY <2>2, <2>6, <2>7, EmailKey
      <3> QED
        BY <1>1, <1>5, <3>1 DEF SeenInv
    <2>17. DeliveriesMatchIntents'
      <3>1. \A v \in deliveries : intents'[v.key] = intents[v.key]
        BY <1>1, <2>7, <2>12, Types
      <3> QED
        BY <1>1, <3>1 DEF DeliveriesMatchIntents
    <2> QED
      BY <1>3, <1>4, <2>11, <2>14, <2>15, <2>16, <2>17 DEF NInv
  <1> QED
    BY <1>8, <1>9 DEF evaluate_intent

\* The host's own calls.
LEMMA HostStep ==
    ASSUME NInv, NEW src \in Sources, NEW channel \in Channels, NEW deliver \in BOOLEAN,
           evaluate_for_use_of_funds(src, channel, deliver)
             \/ evaluate_for_impact(src, channel, deliver)
    PROVE  NInv'
PROOF
  <1>1. TypeOK /\ ConsentInv
    BY DEF NInv
  <1>2. /\ Ready
        /\ evaluate_intent(consents, preferences, <<src, channel>>, "host", deliver)
        /\ UNCHANGED <<adapters, consents, preferences, deliveries, seen, saved,
                       mailbox, era, refused>>
    BY DEF evaluate_for_use_of_funds, evaluate_for_impact
  <1>3. consents' = consents /\ preferences' = preferences
    BY <1>2
  <1>4. evaluate_intent(consents', preferences', <<src, channel>>, "host", deliver)
    BY <1>2, <1>3
  <1>5. /\ consents' \in [Addresses -> {"none", "granted", "revoked"}]
        /\ preferences' \in [Addresses -> Preferences \cup {NoPreference, FixturePreference}]
    BY <1>1, <1>2 DEF TypeOK
  <1>6. ConsentInv'
    BY <1>1, <1>2 DEF ConsentInv
  <1>7. <<src, channel>> \in Keys
    BY DEF Keys
  <1> QED
    BY <1>2, <1>4, <1>5, <1>6, <1>7, EvaluateStep

\* The send command; an adapter that stays in the process makes up a consent.
LEMMA SendStep ==
    ASSUME NInv, NEW src \in Sources, _send_notification(src)
    PROVE  NInv'
PROOF
  <1> DEFINE key == <<src, "EMAIL">>
             a == AddressOf(key)
  <1>1. TypeOK /\ ConsentInv
    BY DEF NInv
  <1>2. key \in Keys /\ key[2] = "EMAIL" /\ a \in Addresses /\ a[2] = "EMAIL"
    BY EmailKey, KeyParts
  <1>3. /\ Ready
        /\ evaluate_intent(consents', preferences', key, "send", TRUE)
        /\ UNCHANGED <<adapters, deliveries, seen, saved, mailbox, era, refused>>
    BY DEF _send_notification
  <1>4. \/ UNCHANGED <<consents, preferences>>
        \/ /\ BootstrapsConsent(a)
           /\ consents' = [consents EXCEPT ![a] = "granted"]
           /\ preferences' = [preferences EXCEPT ![a] = FixturePreference]
    BY DEF _send_notification
  <1> HIDE DEF key, a
  <1>5. /\ consents' \in [Addresses -> {"none", "granted", "revoked"}]
        /\ preferences' \in [Addresses -> Preferences \cup {NoPreference, FixturePreference}]
    BY <1>1, <1>2, <1>4 DEF TypeOK
  <1>6. ConsentInv'
    BY <1>1, <1>2, <1>3, <1>4 DEF ConsentInv, BootstrapsConsent, TypeOK
  <1> QED
    BY <1>2, <1>3, <1>5, <1>6, EvaluateStep

\* The execution receipt is stored, or a key seen is skipped.
LEMMA StoreStep ==
    ASSUME NInv, NEW src \in Sources,
           \/ \E stored \in BOOLEAN : _store_receipt(stored) /\ src = call.key[1]
           \/ execute_skipped(src)
    PROVE  NInv'
PROOF
  <1>1. /\ TypeOK /\ AdapterInv /\ CallInv /\ ConsentInv /\ MailInv /\ SeenInv
        /\ RepeatNeedsNewEra /\ SavedMeansTaken /\ DeliveriesMatchIntents
    BY DEF NInv
  <1>2. MailTaken(src) /\ adapters["EMAIL"] # "down"
    <2>1. CASE execute_skipped(src)
      BY <1>1, <2>1 DEF execute_skipped, SeenInv, Ready
    <2>2. CASE \E stored \in BOOLEAN : _store_receipt(stored) /\ src = call.key[1]
      <3>1. call.stage = "store" /\ src = call.key[1]
        BY <2>2 DEF _store_receipt
      <3> QED
        BY <1>1, <3>1, IdleType DEF CallInv, AdapterInv
    <2> QED
      BY <2>1, <2>2
  <1> DEFINE new == [src |-> src, by |-> adapters["EMAIL"]]
  <1>3. /\ saved' = saved \cup {new} \/ saved' = saved
        /\ seen' = seen \cup {src} \/ seen' = seen
        /\ call' = Idle
        /\ UNCHANGED <<adapters, consents, preferences, intents, deliveries, ids,
                       mailbox, era, refused>>
    BY DEF _store_receipt, execute_skipped, StoreReceipt, memory, Ready
  <1>4. new \in [src: Sources, by: Backends]
    BY <1>1, <1>2 DEF AdapterInv, Backends, Production, Fixtures
  <1>5. new.src = src /\ new.by = adapters["EMAIL"]
    OBVIOUS
  <1> HIDE DEF new
  <1>6. TypeOK'
    BY <1>1, <1>3, <1>4, IdleType DEF TypeOK, CallType
  <1>7. AdapterInv' /\ CallInv'
    BY <1>1, <1>2, <1>3, IdleType DEF AdapterInv, CallInv
  <1>8. SeenInv'
    BY <1>1, <1>2, <1>3 DEF SeenInv, MailTaken
  <1>9. SavedMeansTaken'
    BY <1>1, <1>2, <1>3, <1>5 DEF SavedMeansTaken, MailTaken
  <1>10. ConsentInv' /\ MailInv' /\ RepeatNeedsNewEra' /\ DeliveriesMatchIntents'
    BY <1>1, <1>3 DEF ConsentInv, MailInv, RepeatNeedsNewEra, DeliveriesMatchIntents
  <1> QED
    BY <1>6, <1>7, <1>8, <1>9, <1>10 DEF NInv

-----------------------------------------------------------------------------
(* Delivery *)

\* The intent on the wire, and the message it would become.
LEMMA OnTheWire ==
    ASSUME NInv, call.stage = "wire"
    PROVE  /\ call.key \in Keys /\ intents[call.key] \in NotificationIntent
           /\ intents[call.key] # NoIntent /\ intents[call.key].id \in 1 .. MaxIntents
           /\ Message(call.key) \in [key: Keys, id: 1 .. MaxIntents, era: Nat]
           /\ Message(call.key).key = call.key
           /\ Message(call.key).era = era[DonorOf[call.key[1]]]
PROOF
  <1>1. TypeOK /\ CallInv
    BY DEF NInv
  <1>2. call.key \in Keys /\ intents[call.key].status = "CREATED"
    BY <1>1, Types DEF CallInv
  <1>3. intents[call.key] \in NotificationIntent /\ intents[call.key] # NoIntent
    BY <1>1, <1>2, NoIntentIsNone DEF TypeOK
  <1>4. intents[call.key].id \in 1 .. MaxIntents
    BY <1>3 DEF NotificationIntent
  <1>5. era[DonorOf[call.key[1]]] \in Nat
    BY <1>1, <1>2, KeyParts, Types
  <1> QED
    BY <1>2, <1>3, <1>4, <1>5 DEF Message

\* A message that is taken off the wire is the first of its era.
LEMMA TakenStep ==
    ASSUME NInv, call.stage = "wire",
           mailbox' \in {mailbox, mailbox \cup {Message(call.key)}}
    PROVE  /\ mailbox' \subseteq [key: Keys, id: 1 .. MaxIntents, era: Nat]
           /\ RepeatNeedsNewEra' /\ mailbox \subseteq mailbox'
           /\ \A m \in mailbox' : m \in mailbox \/ m = Message(call.key)
           /\ \A m \in mailbox' : m.era <= era[DonorOf[m.key[1]]]
PROOF
  <1>1. TypeOK /\ CallInv /\ RepeatNeedsNewEra /\ MailInv
    BY DEF NInv
  <1> DEFINE new == Message(call.key)
  <1>2. /\ new \in [key: Keys, id: 1 .. MaxIntents, era: Nat]
        /\ new.key = call.key /\ new.era = era[DonorOf[call.key[1]]] /\ new.era \in Nat
    BY OnTheWire
  <1>3. \A m \in mailbox : m.key = call.key => m.era # new.era
    BY <1>1, <1>2 DEF CallInv
  <1> HIDE DEF new
  <1>4. mailbox' = mailbox \/ mailbox' = mailbox \cup {new}
    BY DEF new
  <1>5. RepeatNeedsNewEra'
    BY <1>1, <1>2, <1>3, <1>4 DEF RepeatNeedsNewEra
  <1>6. \A m \in mailbox' : m.era <= era[DonorOf[m.key[1]]]
    BY <1>1, <1>2, <1>4 DEF MailInv
  <1>7. mailbox' \subseteq [key: Keys, id: 1 .. MaxIntents, era: Nat]
    BY <1>1, <1>2, <1>4 DEF TypeOK
  <1> QED
    BY <1>4, <1>5, <1>6, <1>7 DEF new

\* The attempt is recorded.
LEMMA RecordStep ==
    ASSUME NInv, call.stage = "wire", NEW verdict,
           mailbox' \in {mailbox, mailbox \cup {Message(call.key)}},
           verdict = "success" /\ adapters[call.key[2]] \in Production =>
              Message(call.key) \in mailbox',
           Recorded(call.key, verdict),
           UNCHANGED <<adapters, consents, preferences, seen, saved, ids, era, refused>>
    PROVE  NInv'
PROOF
  <1>1. /\ TypeOK /\ AdapterInv /\ CallInv /\ ConsentInv /\ MailInv /\ SeenInv
        /\ RepeatNeedsNewEra /\ SavedMeansTaken /\ DeliveriesMatchIntents
    BY DEF NInv
  <1>2. PICK key : key = call.key
    OBVIOUS
  <1>3. /\ key \in Keys /\ intents[key] \in NotificationIntent
        /\ intents[key].id \in 1 .. MaxIntents
        /\ Message(call.key).key = key
    BY <1>2, OnTheWire
  <1>4. PICK st : st = StatusAfter(verdict)
    OBVIOUS
  <1>5. st \in NotificationIntentStatus /\ (st = "DELIVERED" <=> verdict = "success")
        /\ st # "SUPERSEDED"
    BY <1>4 DEF StatusAfter, NotificationIntentStatus
  <1>6. PICK new : new = [intents[key] EXCEPT !.status = st]
    OBVIOUS
  <1>7. /\ new \in NotificationIntent /\ new.status = st /\ new.id = intents[key].id
        /\ new # NoIntent
    BY <1>3, <1>5, <1>6, NoIntentIsNone DEF NotificationIntent
  <1>8. intents \in [Keys -> NotificationIntent \cup {NoIntent}]
    BY <1>1, Types
  <1>9. intents' = [intents EXCEPT ![key] = new]
    BY <1>2, <1>4, <1>6 DEF Recorded
  <1>10. /\ intents' \in [Keys -> NotificationIntent \cup {NoIntent}]
         /\ intents'[key] = new /\ \A k \in Keys \ {key} : intents'[k] = intents[k]
    BY <1>3, <1>7, <1>8, <1>9
  <1>11. PICK v : v = [key |-> key, id |-> intents[key].id, success |-> verdict = "success"]
    OBVIOUS
  <1>12. /\ v \in NotificationDelivery /\ v.key = key /\ v.id = intents[key].id
         /\ v.success = (verdict = "success")
    BY <1>3, <1>11 DEF NotificationDelivery
  <1>13. deliveries' = deliveries \cup {v} /\ call' = Returned(key, call.by, st)
    BY <1>2, <1>4, <1>11 DEF Recorded
  <1>14. /\ call' \in CallType /\ call'.stage # "wire"
         /\ call'.stage = "store" => call.by = "send" /\ st = "DELIVERED" /\ call'.key = key
    BY <1>1, <1>3, <1>13, ReturnedFacts, Types
  <1>15. /\ mailbox' \subseteq [key: Keys, id: 1 .. MaxIntents, era: Nat]
         /\ RepeatNeedsNewEra' /\ mailbox \subseteq mailbox'
         /\ \A m \in mailbox' : m \in mailbox \/ m = Message(call.key)
         /\ \A m \in mailbox' : m.era <= era[DonorOf[m.key[1]]]
    BY TakenStep
  <1>16. TypeOK'
    BY <1>1, <1>10, <1>12, <1>13, <1>14, <1>15 DEF TypeOK, CallType
  <1>17. adapters["EMAIL"] # "down"
    BY <1>1, IdleType DEF AdapterInv
  <1>18. \A src : MailTaken(src) => MailTaken(src)'
    BY <1>15 DEF MailTaken
  <1>19. ASSUME st = "DELIVERED", NEW src, key = <<src, "EMAIL">>
         PROVE  MailTaken(src)'
    <2>1. key[2] = "EMAIL"
      BY <1>19
    <2>2. adapters["EMAIL"] \in Email => Message(call.key) \in mailbox'
      BY <1>2, <1>5, <1>19, <2>1 DEF Production
    <2> QED
      BY <1>3, <1>19, <2>2 DEF MailTaken
  <1>20. AdapterInv'
    BY <1>1, <1>17 DEF AdapterInv
  <1>21. CallInv'
    <2> SUFFICES ASSUME call'.stage = "store"
                 PROVE  call'.key[2] = "EMAIL" /\ MailTaken(call.key[1])'
      BY <1>14 DEF CallInv
    <2>1. key[2] = "EMAIL" /\ call'.key = key /\ st = "DELIVERED"
      BY <1>1, <1>2, <1>14 DEF CallInv
    <2>2. MailTaken(key[1])'
      BY <1>3, <1>19, <2>1, KeyParts
    <2>3. MailTaken(call.key[1])' <=> MailTaken(key[1])'
      BY <2>1 DEF MailTaken
    <2> QED
      BY <2>1, <2>2, <2>3
  <1>22. ConsentInv'
    BY <1>1 DEF ConsentInv
  <1>23. MailInv'
    <2>1. \A m \in mailbox' : m.key \in Keys
      BY <1>15
    <2>2. \A m \in mailbox' : m.era = era[DonorOf[m.key[1]]] => intents'[m.key] # NoIntent
      BY <1>1, <1>3, <1>7, <1>10, <1>15, <2>1 DEF MailInv
    <2> QED
      BY <1>15, <2>2 DEF MailInv
  <1>24. SeenInv'
    <2>1. ASSUME NEW src \in Sources, intents'[<<src, "EMAIL">>].status = "DELIVERED"
          PROVE  MailTaken(src)'
      <3>1. CASE <<src, "EMAIL">> = key
        BY <1>7, <1>10, <1>19, <2>1, <3>1
      <3>2. CASE <<src, "EMAIL">> # key
        BY <1>1, <1>10, <1>18, <2>1, <3>2, EmailKey DEF SeenInv
      <3> QED
        BY <3>1, <3>2
    <2>2. \A src \in seen : MailTaken(src)'
      BY <1>1, <1>18 DEF SeenInv
    <2> QED
      BY <2>1, <2>2 DEF SeenInv
  <1>25. SavedMeansTaken'
    BY <1>1, <1>15 DEF SavedMeansTaken
  <1>26. DeliveriesMatchIntents'
    <2>1. \A w \in deliveries : w.key # key /\ w.key \in Keys
      BY <1>1, <1>2, Types DEF CallInv
    <2>2. \A w \in deliveries : intents'[w.key] = intents[w.key]
      BY <1>10, <2>1
    <2>3. v.success = (intents'[v.key].status = "DELIVERED") /\ intents'[v.key].id = v.id
      BY <1>5, <1>7, <1>10, <1>12
    <2> QED
      BY <1>1, <1>13, <2>2, <2>3 DEF DeliveriesMatchIntents
  <1> QED
    BY <1>15, <1>16, <1>20, <1>21, <1>22, <1>23, <1>24, <1>25, <1>26 DEF NInv

\* An adapter that raises leaves the intent as it was.
LEMMA RaiseStep ==
    ASSUME NInv, call.stage = "wire", call' = Idle,
           mailbox' \in {mailbox, mailbox \cup {Message(call.key)}},
           UNCHANGED <<adapters, consents, preferences, intents, deliveries, seen,
                       saved, ids, era, refused>>
    PROVE  NInv'
PROOF
  <1>1. /\ TypeOK /\ AdapterInv /\ ConsentInv /\ MailInv /\ SeenInv
        /\ SavedMeansTaken /\ DeliveriesMatchIntents
    BY DEF NInv
  <1>2. /\ mailbox' \subseteq [key: Keys, id: 1 .. MaxIntents, era: Nat]
        /\ RepeatNeedsNewEra' /\ mailbox \subseteq mailbox'
        /\ \A m \in mailbox' : m \in mailbox \/ m = Message(call.key)
        /\ \A m \in mailbox' : m.era <= era[DonorOf[m.key[1]]]
    BY TakenStep
  <1>3. TypeOK'
    BY <1>1, <1>2, IdleType DEF TypeOK, CallType
  <1>4. AdapterInv' /\ CallInv'
    BY <1>1, IdleType DEF AdapterInv, CallInv
  <1>5. MailInv'
    BY <1>1, <1>2, OnTheWire DEF MailInv
  <1>6. SeenInv' /\ SavedMeansTaken'
    BY <1>1, <1>2 DEF SeenInv, MailTaken, SavedMeansTaken
  <1>7. ConsentInv' /\ DeliveriesMatchIntents'
    BY <1>1 DEF ConsentInv, DeliveriesMatchIntents
  <1> QED
    BY <1>2, <1>3, <1>4, <1>5, <1>6, <1>7 DEF NInv

\* The attempt of the adapter.
LEMMA DeliverStep ==
    ASSUME NInv, deliver_none \/ _deliver
    PROVE  NInv'
PROOF
  <1>1. CASE deliver_none
    BY <1>1, RecordStep DEF deliver_none
  <1>2. CASE _deliver
    <2>1. PICK reply, took :
            /\ took \in MayHaveTaken(reply) /\ call.stage = "wire"
            /\ mailbox' = mailbox \cup Taken(took, call.key)
            /\ \/ Recorded(call.key, Verdict(reply))
               \/ call' = Idle /\ UNCHANGED <<intents, deliveries>>
            /\ UNCHANGED <<adapters, consents, preferences, seen, saved, ids, era, refused>>
      BY <1>2 DEF _deliver
    <2>2. Taken(took, call.key) \in {{}, {Message(call.key)}}
      BY DEF Taken
    <2>3. mailbox' \in {mailbox, mailbox \cup {Message(call.key)}}
      BY <2>1, <2>2
    <2>4. ASSUME Verdict(reply) = "success", adapters[call.key[2]] \in Production
          PROVE  Message(call.key) \in mailbox'
      <3>1. reply = "accepted"
        BY <2>4 DEF Verdict
      <3>2. took = TRUE
        BY <2>1, <3>1 DEF MayHaveTaken
      <3>3. Taken(took, call.key) = {Message(call.key)}
        BY <2>4, <3>2 DEF Taken
      <3> QED
        BY <2>1, <3>3
    <2>5. CASE Recorded(call.key, Verdict(reply))
      BY <2>1, <2>3, <2>4, <2>5, RecordStep
    <2>6. CASE call' = Idle /\ UNCHANGED <<intents, deliveries>>
      BY <2>1, <2>3, <2>6, RaiseStep
    <2> QED
      BY <2>1, <2>5, <2>6
  <1> QED
    BY <1>1, <1>2

-----------------------------------------------------------------------------
(* Erasure and crashes *)

\* Erasure leaves the donor without consent on any channel.
LEMMA ErasedConsent ==
    ASSUME TypeOK, ConsentInv, NEW d \in Donors, consents' = RevokedFor(d),
           refused' = refused \cup ({d} \X Channels), UNCHANGED adapters
    PROVE  /\ consents' \in [Addresses -> {"none", "granted", "revoked"}]
           /\ refused' \subseteq Addresses /\ ConsentInv'
PROOF
  <1>1. consents \in [Addresses -> {"none", "granted", "revoked"}] /\ refused \subseteq Addresses
    BY DEF TypeOK
  <1>2. consents' \in [Addresses -> {"none", "granted", "revoked"}]
    BY <1>1 DEF RevokedFor
  <1>3. \A a \in Addresses : a[1] = d => a \in {d} \X Channels
    BY DEF Addresses
  <1>4. \A a \in {d} \X Channels : consents'[a] # "granted"
    <2> SUFFICES ASSUME NEW a \in {d} \X Channels
                 PROVE  consents'[a] # "granted"
      OBVIOUS
    <2>1. a \in Addresses
      BY DEF Addresses
    <2>2. consents'[a] = IF a \in KnownChannels(d) THEN "revoked" ELSE consents[a]
      BY <2>1 DEF RevokedFor
    <2>3. consents[a] = "granted" => a \in KnownChannels(d)
      BY DEF KnownChannels
    <2> QED
      BY <2>2, <2>3
  <1>5. \A a \in Addresses : consents'[a] = "granted" => consents[a] = "granted"
    BY DEF RevokedFor
  <1>6. refused' \subseteq Addresses
    BY <1>1 DEF Addresses
  <1>7. ConsentInv'
    BY <1>1, <1>4, <1>5 DEF ConsentInv
  <1> QED
    BY <1>2, <1>6, <1>7

\* A donor's notification state is erased, with its history or without.
LEMMA EraseStep ==
    ASSUME NInv, NEW d \in Donors, NEW erase_history \in BOOLEAN,
           erase_donor_notification_state(d, erase_history)
    PROVE  NInv'
PROOF
  <1>1. /\ TypeOK /\ AdapterInv /\ CallInv /\ ConsentInv /\ MailInv /\ SeenInv
        /\ RepeatNeedsNewEra /\ SavedMeansTaken /\ DeliveriesMatchIntents
    BY DEF NInv
  <1>2. /\ Ready /\ era[d] < MaxEras
        /\ preferences' = [a \in Addresses |-> IF a[1] = d THEN NoPreference ELSE preferences[a]]
        /\ consents' = RevokedFor(d) /\ refused' = refused \cup ({d} \X Channels)
        /\ UNCHANGED <<adapters, seen, call, saved, ids, mailbox>>
    BY DEF erase_donor_notification_state
  <1>3. call.stage = "idle" /\ adapters["EMAIL"] # "down"
    BY <1>2, IdleType DEF Ready
  <1>4. /\ consents' \in [Addresses -> {"none", "granted", "revoked"}]
        /\ refused' \subseteq Addresses /\ ConsentInv'
    BY <1>1, <1>2, ErasedConsent
  <1>5. preferences' \in [Addresses -> Preferences \cup {NoPreference, FixturePreference}]
    BY <1>1, <1>2 DEF TypeOK
  <1>6. AdapterInv' /\ CallInv'
    BY <1>1, <1>2, <1>3 DEF AdapterInv, CallInv
  <1>7. RepeatNeedsNewEra' /\ SavedMeansTaken'
    BY <1>1, <1>2 DEF RepeatNeedsNewEra, SavedMeansTaken
  <1>8. intents \in [Keys -> NotificationIntent \cup {NoIntent}]
        /\ era \in [Donors -> 0 .. MaxEras]
    BY <1>1 DEF TypeOK
  <1>9. \A src : MailTaken(src)' <=> MailTaken(src)
    BY <1>2 DEF MailTaken
  <1>10. \A m \in mailbox : m.key \in Keys /\ DonorOf[m.key[1]] \in Donors /\ m.era \in Nat
    BY <1>1, KeyParts, Types
  <1>11. CASE /\ deliveries' = DeliveriesWithout(d)
              /\ intents' = [k \in Keys |-> IF k \in KeysOf(d) THEN NoIntent ELSE intents[k]]
              /\ era' = [era EXCEPT ![d] = era[d] + 1]
    <2>1. intents' \in [Keys -> NotificationIntent \cup {NoIntent}]
      BY <1>8, <1>11
    <2>2. era' \in [Donors -> 0 .. MaxEras] /\ era'[d] = era[d] + 1
          /\ \A c \in Donors \ {d} : era'[c] = era[c]
      BY <1>2, <1>8, <1>11, NotificationsAssumption
    <2>3. deliveries' \subseteq deliveries
          /\ \A v \in deliveries' : v.key \notin KeysOf(d)
      BY <1>11 DEF DeliveriesWithout
    <2>4. TypeOK'
      BY <1>1, <1>2, <1>4, <1>5, <2>1, <2>2, <2>3 DEF TypeOK
    <2>5. MailInv'
      <3> SUFFICES ASSUME NEW m \in mailbox
                   PROVE  /\ m.era <= era'[DonorOf[m.key[1]]]
                          /\ m.era = era'[DonorOf[m.key[1]]] => intents'[m.key] # NoIntent
        BY <1>2 DEF MailInv
      <3>1. /\ m.era <= era[DonorOf[m.key[1]]]
            /\ m.era = era[DonorOf[m.key[1]]] => intents[m.key] # NoIntent
        BY <1>1 DEF MailInv
      <3>2. CASE DonorOf[m.key[1]] = d
        <4>1. era[d] \in Nat /\ m.era \in Nat /\ era'[d] = era[d] + 1
          BY <1>8, <1>10, <2>2
        <4> QED
          BY <3>1, <3>2, <4>1
      <3>3. CASE DonorOf[m.key[1]] # d
        <4>1. m.key \in Keys /\ m.key \notin KeysOf(d)
          BY <1>10, <3>3 DEF KeysOf
        <4>2. intents'[m.key] = intents[m.key] /\ era'[DonorOf[m.key[1]]] = era[DonorOf[m.key[1]]]
          BY <1>10, <1>11, <2>2, <3>3, <4>1
        <4> QED
          BY <3>1, <4>2
      <3> QED
        BY <3>2, <3>3
    <2>6. SeenInv'
      <3>1. \A src \in Sources : intents'[<<src, "EMAIL">>].status = "DELIVERED" =>
                                 intents[<<src, "EMAIL">>].status = "DELIVERED"
        BY <1>11, EmailKey, NoIntentIsNone
      <3> QED
        BY <1>1, <1>2, <1>9, <3>1 DEF SeenInv
    <2>7. DeliveriesMatchIntents'
      <3>1. \A v \in deliveries' : intents'[v.key] = intents[v.key]
        BY <1>1, <1>11, <2>3, Types
      <3> QED
        BY <1>1, <2>3, <3>1 DEF DeliveriesMatchIntents
    <2> QED
      BY <1>4, <1>6, <1>7, <2>4, <2>5, <2>6, <2>7 DEF NInv
  <1>12. CASE /\ intents' = [k \in Keys |->
                               IF k \in KeysOf(d) /\ intents[k] # NoIntent
                                 THEN [intents[k] EXCEPT !.status = "SUPERSEDED"]
                                 ELSE intents[k]]
              /\ UNCHANGED <<deliveries, era>>
    <2>1. ASSUME NEW k \in Keys
          PROVE  \/ intents'[k] = intents[k]
                 \/ /\ intents'[k] \in NotificationIntent /\ intents[k] # NoIntent
                    /\ intents'[k].id = intents[k].id
                    /\ intents'[k].status = "SUPERSEDED"
      <3>1. CASE ~(k \in KeysOf(d) /\ intents[k] # NoIntent)
        BY <1>12, <3>1
      <3>2. CASE k \in KeysOf(d) /\ intents[k] # NoIntent
        <4>1. intents'[k] = [intents[k] EXCEPT !.status = "SUPERSEDED"]
          BY <1>12, <3>2
        <4>2. intents[k] \in NotificationIntent
          BY <1>8, <3>2
        <4> QED
          BY <3>2, <4>1, <4>2 DEF NotificationIntent, NotificationIntentStatus
      <3> QED
        BY <3>1, <3>2
    <2>2. intents' \in [Keys -> NotificationIntent \cup {NoIntent}]
      <3>1. \A k \in Keys : intents'[k] \in NotificationIntent \cup {NoIntent}
        BY <1>8, <2>1
      <3>2. intents' = [k \in Keys |-> intents'[k]]
        BY <1>12
      <3> QED
        BY <3>1, <3>2
    <2>3. TypeOK'
      BY <1>1, <1>2, <1>4, <1>5, <1>12, <2>2 DEF TypeOK
    <2>4. MailInv'
      <3>1. \A k \in Keys : intents[k] # NoIntent => intents'[k] # NoIntent
        BY <2>1, NoIntentIsNone
      <3> QED
        BY <1>1, <1>2, <1>10, <1>12, <3>1 DEF MailInv
    <2>5. SeenInv'
      <3>1. \A src \in Sources : intents'[<<src, "EMAIL">>].status = "DELIVERED" =>
                                 intents[<<src, "EMAIL">>].status = "DELIVERED"
        BY <2>1, EmailKey
      <3> QED
        BY <1>1, <1>2, <1>9, <3>1 DEF SeenInv
    <2>6. DeliveriesMatchIntents'
      <3>1. \A v \in deliveries : \/ intents'[v.key] = intents[v.key]
                                  \/ /\ intents'[v.key].id = intents[v.key].id
                                     /\ intents'[v.key].status = "SUPERSEDED"
        BY <1>1, <2>1, Types
      <3> QED
        BY <1>1, <1>12, <3>1 DEF DeliveriesMatchIntents
    <2> QED
      BY <1>4, <1>6, <1>7, <2>3, <2>4, <2>5, <2>6 DEF NInv
  <1> QED
    BY <1>11, <1>12 DEF erase_donor_notification_state

\* What a crash may do to the mailbox.
LEMMA CrashMail ==
    ASSUME crash
    PROVE  \/ mailbox' = mailbox
           \/ /\ call.stage = "wire" /\ adapters[call.key[2]] \in Production
              /\ mailbox' = mailbox \cup {Message(call.key)}
BY DEF crash, Taken

\* The process dies, with a message on the wire or without.
LEMMA CrashStep ==
    ASSUME NInv, crash
    PROVE  NInv'
PROOF
  <1>1. /\ TypeOK /\ AdapterInv /\ CallInv /\ ConsentInv /\ MailInv /\ SeenInv
        /\ RepeatNeedsNewEra /\ SavedMeansTaken /\ DeliveriesMatchIntents
    BY DEF NInv
  <1>2. /\ \A d \in Donors : era[d] < MaxEras
        /\ adapters' = [c \in Channels |-> "down"]
        /\ consents' = [a \in Addresses |-> "none"]
        /\ preferences' = [a \in Addresses |-> NoPreference]
        /\ intents' = [k \in Keys |-> NoIntent]
        /\ deliveries' = {} /\ seen' = {} /\ call' = Idle
        /\ era' = [d \in Donors |-> era[d] + 1]
        /\ UNCHANGED <<saved, ids, refused>>
    BY DEF crash
  <1>3. adapters'["EMAIL"] = "down"
    BY <1>2, NotificationsAssumption
  <1>4. /\ mailbox' \subseteq [key: Keys, id: 1 .. MaxIntents, era: Nat]
        /\ RepeatNeedsNewEra' /\ mailbox \subseteq mailbox'
        /\ \A m \in mailbox' : m.era <= era[DonorOf[m.key[1]]]
    <2>1. CASE mailbox' = mailbox
      BY <1>1, <2>1 DEF TypeOK, RepeatNeedsNewEra, MailInv
    <2>2. CASE call.stage = "wire" /\ mailbox' = mailbox \cup {Message(call.key)}
      BY <2>2, TakenStep
    <2> QED
      BY <2>1, <2>2, CrashMail
  <1>5. era' \in [Donors -> 0 .. MaxEras]
    BY <1>1, <1>2, NotificationsAssumption DEF TypeOK
  <1>6. TypeOK'
    BY <1>1, <1>2, <1>4, <1>5, IdleType DEF TypeOK, CallType
  <1>7. AdapterInv' /\ CallInv'
    BY <1>2, <1>3, IdleType DEF AdapterInv, CallInv
  <1>8. ConsentInv'
    BY <1>1, <1>2 DEF ConsentInv, TypeOK
  <1>9. MailInv'
    <2> SUFFICES ASSUME NEW m \in mailbox'
                 PROVE  m.era < era'[DonorOf[m.key[1]]]
      BY <1>4, <1>5, KeyParts, NotificationsAssumption DEF MailInv
    <2>1. m.key \in Keys /\ m.era \in Nat /\ m.era <= era[DonorOf[m.key[1]]]
      BY <1>4
    <2>2. DonorOf[m.key[1]] \in Donors
      BY <2>1, KeyParts
    <2>3. era[DonorOf[m.key[1]]] \in Nat
      BY <1>1, <2>2, Types
    <2>4. era'[DonorOf[m.key[1]]] = era[DonorOf[m.key[1]]] + 1
      BY <1>2, <2>2
    <2> QED
      BY <2>1, <2>3, <2>4
  <1>10. SeenInv'
    <2>1. \A src \in Sources : intents'[<<src, "EMAIL">>].status = "none"
      BY <1>2, EmailKey, NoIntentIsNone
    <2> QED
      BY <1>2, <2>1 DEF SeenInv
  <1>11. SavedMeansTaken' /\ DeliveriesMatchIntents'
    BY <1>1, <1>2, <1>4 DEF SavedMeansTaken, DeliveriesMatchIntents
  <1> QED
    BY <1>4, <1>6, <1>7, <1>8, <1>9, <1>10, <1>11 DEF NInv

-----------------------------------------------------------------------------
(* The theorems *)

\* The inductive invariant holds always.
LEMMA NInvAlways == Spec => []NInv
PROOF
  <1>1. Init => NInv
    <2> SUFFICES ASSUME Init
                 PROVE  NInv
      OBVIOUS
    <2>1. TypeOK
      BY NotificationsAssumption, IdleType DEF Init, TypeOK, CallType
    <2>2. AdapterInv /\ CallInv
      BY NotificationsAssumption, IdleType DEF Init, AdapterInv, CallInv
    <2>3. SeenInv
      <3>1. \A src \in Sources : intents[<<src, "EMAIL">>].status = "none"
        BY EmailKey, NoIntentIsNone DEF Init
      <3> QED
        BY <3>1 DEF Init, SeenInv
    <2>4. ConsentInv /\ MailInv /\ RepeatNeedsNewEra /\ SavedMeansTaken /\ DeliveriesMatchIntents
      BY DEF Init, ConsentInv, MailInv, RepeatNeedsNewEra, SavedMeansTaken,
             DeliveriesMatchIntents
    <2> QED
      BY <2>1, <2>2, <2>3, <2>4 DEF NInv
  <1>2. NInv /\ [Next]_vars => NInv'
    <2> SUFFICES ASSUME NInv, [Next]_vars
                 PROVE  NInv'
      OBVIOUS
    <2>1. CASE UNCHANGED vars
      BY <2>1 DEF vars, memory, NInv, TypeOK, AdapterInv, CallInv, ConsentInv, MailInv,
                  SeenInv, MailTaken, RepeatNeedsNewEra, SavedMeansTaken,
                  DeliveriesMatchIntents
    <2>2. CASE configure_notification_adapters \/ default_adapters
      BY <2>2, ConfigureStep
    <2>3. CASE \E a \in Addresses : \/ \E granted \in BOOLEAN : record_consent(a, granted)
                                    \/ \E pref \in Preferences : set_preference(a, pref)
      BY <2>3, ConsentStep, PreferenceStep
    <2>4. CASE \E src \in Sources, channel \in Channels, deliver \in BOOLEAN :
                 \/ evaluate_for_use_of_funds(src, channel, deliver)
                 \/ evaluate_for_impact(src, channel, deliver)
      BY <2>4, HostStep
    <2>5. CASE \E src \in Sources : _send_notification(src)
      BY <2>5, SendStep
    <2>6. CASE \E src \in Sources : execute_skipped(src)
      BY <2>6, StoreStep
    <2>7. CASE \E stored \in BOOLEAN : _store_receipt(stored)
      <3>1. call.key[1] \in Sources
        BY KeyParts, Types DEF NInv
      <3> QED
        BY <2>7, <3>1, StoreStep
    <2>8. CASE deliver_none \/ _deliver
      BY <2>8, DeliverStep
    <2>9. CASE \E d \in Donors, erase_history \in BOOLEAN :
                 erase_donor_notification_state(d, erase_history)
      BY <2>9, EraseStep
    <2>10. CASE crash
      BY <2>10, CrashStep
    <2> QED
      BY <2>1, <2>2, <2>3, <2>4, <2>5, <2>6, <2>7, <2>8, <2>9, <2>10 DEF Next
  <1> QED
    BY <1>1, <1>2, PTL DEF Spec

\* Type correctness of the notification workspace, through erasures and crashes.
THEOREM NotificationsTypeCorrect == Spec => []TypeOK
PROOF
  <1>1. NInv => TypeOK
    BY DEF NInv
  <1> QED
    BY <1>1, NInvAlways, PTL

\* Providers take a second message for a receipt and channel only across a crash
\* or an erasure of the donor's history.
THEOREM RepeatNeedsNewEraHolds == Spec => []RepeatNeedsNewEra
PROOF
  <1>1. NInv => RepeatNeedsNewEra
    BY DEF NInv
  <1> QED
    BY <1>1, NInvAlways, PTL

\* A stored send receipt of a production e-mail backend has its message.
THEOREM SavedMeansTakenHolds == Spec => []SavedMeansTaken
PROOF
  <1>1. NInv => SavedMeansTaken
    BY DEF NInv
  <1> QED
    BY <1>1, NInvAlways, PTL

\* ws.deliveries and ws.intents agree about every attempt.
THEOREM DeliveriesMatchIntentsHolds == Spec => []DeliveriesMatchIntents
PROOF
  <1>1. NInv => DeliveriesMatchIntents
    BY DEF NInv
  <1> QED
    BY <1>1, NInvAlways, PTL

\* No provider takes a message for a donor without consent on record, or whose
\* last word on the channel was no, across erasures and restarts.
THEOREM NoIsNoHolds == Spec => NoIsNo
PROOF
  <1> DEFINE P == \A m \in mailbox' \ mailbox :
                    /\ consents[AddressOf(m.key)] = "granted"
                    /\ AddressOf(m.key) \notin refused
  <1>1. ASSUME NInv, call.stage = "wire", adapters[call.key[2]] \in Production
        PROVE  /\ consents[AddressOf(call.key)] = "granted"
               /\ AddressOf(call.key) \notin refused
    <2>1. consents[AddressOf(call.key)] = "granted" /\ call.key \in Keys /\ ConsentInv
      BY <1>1, Types DEF NInv, CallInv
    <2>2. AddressOf(call.key)[2] = call.key[2]
      BY <2>1, KeyParts
    <2>3. adapters[call.key[2]] \notin {"fixture_email", "in_process"}
      BY <1>1 DEF Production, Email, Push
    <2> QED
      BY <2>1, <2>2, <2>3 DEF ConsentInv
  <1>2. ASSUME NInv, Next, NEW m \in mailbox' \ mailbox
        PROVE  call.stage = "wire" /\ adapters[call.key[2]] \in Production /\ m.key = call.key
    <2>1. CASE crash
      BY <1>2, <2>1, CrashMail, OnTheWire
    <2>2. CASE _deliver
      <3>1. PICK took : mailbox' = mailbox \cup Taken(took, call.key) /\ call.stage = "wire"
        BY <2>2 DEF _deliver
      <3>2. adapters[call.key[2]] \in Production /\ m = Message(call.key)
        BY <3>1 DEF Taken
      <3> QED
        BY <1>2, <3>1, <3>2, OnTheWire
    <2>3. crash \/ _deliver \/ UNCHANGED mailbox
      BY <1>2 DEF Next, configure_notification_adapters, default_adapters, record_consent,
                  set_preference, evaluate_for_use_of_funds, evaluate_for_impact,
                  _send_notification, execute_skipped, _store_receipt, deliver_none,
                  erase_donor_notification_state
    <2> QED
      BY <2>1, <2>2, <2>3
  <1>3. NInv /\ [Next]_vars => [P]_vars
    <2> SUFFICES ASSUME NInv, Next, NEW m \in mailbox' \ mailbox
                 PROVE  consents[AddressOf(m.key)] = "granted" /\ AddressOf(m.key) \notin refused
      OBVIOUS
    <2> QED
      BY <1>1, <1>2
  <1>4. Spec => [][P]_vars
    BY <1>3, NInvAlways, PTL DEF Spec
  <1> QED
    BY <1>4 DEF NoIsNo

=============================================================================
