-------------------------- MODULE CorrectedImpact --------------------------
(***************************************************************************)
(* Corrections and impact receipts in one process: a correction takes away  *)
(* the verified expense that an impact receipt rests on, and a restart      *)
(* brings back the ledger of the log but none of the impact records.        *)
(***************************************************************************)
EXTENDS Corrections

CONSTANTS
    Attributions,   \* who is attributed to which expense: [donor, expense, allocation]
    Programs, Assets, Events, AssetExpense, Links, MaxPublished

ASSUME AttributionsAssumption == \A a \in Attributions : a.expense \in Ids

VARIABLES attributions, programs, assets, impact_events, impact_receipts, published

I == INSTANCE Impact WITH expenses <- ledger.expenses

workspace == <<programs, assets, impact_events, impact_receipts, published>>
allVars == <<vars, attributions, workspace>>

ComposedInit == Init /\ attributions = <<>> /\ I!ImpactInit

\* publish_use_of_funds_receipt: attributes a donor to a verified expense and
\* logs the ledger as it is.
attribute(a) ==
    /\ job = NoJob
    /\ \A i \in DOMAIN attributions : attributions[i] # a
    /\ ledger.expenses[a.expense] = "APPROVED"
    /\ attributions' = Append(attributions, a)
    /\ logged' = ledger
    /\ UNCHANGED <<rows, signals, taken, receipts, ledger, log_keys, job, crashes, workspace>>

restart ==
    /\ open_workspace
    /\ programs' = {}
    /\ assets' = [a \in Assets |-> "none"]
    /\ impact_events' = [v \in Events |-> I!NoEvent]
    /\ impact_receipts' = {}
    /\ UNCHANGED <<attributions, published>>

ComposedNext ==
    \/ Running /\ UNCHANGED <<attributions, workspace>>
    \/ \E a \in Attributions : attribute(a)
    \/ job = NoJob /\ I!ImpactNext /\ UNCHANGED <<vars, attributions>>
    \/ restart

ComposedSpec == ComposedInit /\ [][ComposedNext]_allVars

-----------------------------------------------------------------------------
\* A donor is told once about an event and a fund: publish_impact_receipts that
\* raised half way, was called again, or was called for an event submitted anew
\* never publishes a second receipt.
OneImpactReceipt ==
    \A r, s \in impact_receipts :
        r.donor = s.donor /\ r.event = s.event /\ r.allocation = s.allocation => r = s

\* No impact receipt is published on money that the log shows as taken back:
\* some expense the donor paid for through that fund is not corrected there,
\* whatever attempts failed and whatever was lost in a restart.
ImpactNotOnCorrected ==
    [][\A r \in impact_receipts' \ impact_receipts :
         \E i \in DOMAIN attributions :
            LET a == attributions[i] IN
            /\ a.donor = r.donor /\ a.allocation = r.allocation
            /\ logged.expenses[a.expense] \notin {"REVERSED", "SUPERSEDED"}]_allVars
=============================================================================
