------------------------------- MODULE Impact -------------------------------
(***************************************************************************)
(* ImpactService (domain/impact.py): programs, funded assets, impact events *)
(* and the IMPACT receipts published for the donors whose money paid for    *)
(* the expenses behind an event.  Its actions read the ledger and never     *)
(* change it; its own records live in the memory of the process.            *)
(***************************************************************************)
EXTENDS Naturals, Sequences, FiniteSets

CONSTANTS
    Programs, Assets, Events,
    AssetExpense,   \* the expense a funded asset was bought with
    Links,          \* what an event may be linked to: [expenses, assets]
    MaxPublished    \* bound: receipts published

VARIABLES
    expenses,           \* ledger.expenses: the state of each, only read
    attributions,       \* ledger.attributions, in the order made, only read
    programs, assets,   \* ws.programs; the lifecycle in ws.assets
    impact_events,      \* ws.impact_events: state and links of each
    impact_receipts,    \* ws.impact_receipts: donor, event, allocation, and a
                        \* serial that stands for the id
    published           \* receipts ever published (history)

NoEvent == [state |-> "none", links |-> {}]
ImpactInit ==
    /\ programs = {}
    /\ assets = [a \in Assets |-> "none"]
    /\ impact_events = [v \in Events |-> NoEvent]
    /\ impact_receipts = {}
    /\ published = 0

VERIFIED_EXPENSE_STATES == {"APPROVED", "RECONCILED"}

register_program(p) ==
    /\ programs' = programs \cup {p}
    /\ UNCHANGED <<assets, impact_events, impact_receipts, published>>

\* Registering again puts an asset back to its first lifecycle state.
register_funded_asset(a) ==
    /\ expenses[AssetExpense[a]] \in VERIFIED_EXPENSE_STATES
    /\ assets' = [assets EXCEPT ![a] = "PROCURED"]
    /\ UNCHANGED <<programs, impact_events, impact_receipts, published>>

deploy_asset(a) ==
    /\ assets[a] # "none"
    /\ assets' = [assets EXCEPT ![a] = "DEPLOYED"]
    /\ UNCHANGED <<programs, impact_events, impact_receipts, published>>

\* A submission replaces an event of the same id, a VERIFIED one as well.
submit_impact_event(v, links) ==
    /\ programs # {}
    /\ \A a \in links.assets : assets[a] # "none"
    /\ \A e \in links.expenses : expenses[e] # "ABSENT"
    /\ impact_events' = [impact_events EXCEPT ![v] = [state |-> "SUBMITTED", links |-> links]]
    /\ UNCHANGED <<programs, assets, impact_receipts, published>>

verify_impact_event(v) ==
    /\ impact_events[v].state = "SUBMITTED"
    /\ impact_events' = [impact_events EXCEPT ![v].state = "VERIFIED"]
    /\ UNCHANGED <<programs, assets, impact_receipts, published>>

LinkedExpenses(links) == links.expenses \cup {AssetExpense[a] : a \in links.assets}

\* Mutant: the state of the expense is not looked at.
Eligible_AnyState(attr, links) == attr.expense \in LinkedExpenses(links)
Eligible(attr, links) ==
    /\ attr.expense \in LinkedExpenses(links)
    /\ expenses[attr.expense] \in VERIFIED_EXPENSE_STATES

\* Mutant: receipts of an earlier call are not looked up.
_find_live_impact_None(donor, v, allocation) == {}
_find_live_impact(donor, v, allocation) ==
    {r \in impact_receipts : /\ r.donor = donor /\ r.event = v
                             /\ r.allocation = allocation}

\* The positions of the attributions that count: the first eligible one of
\* each donor and allocation, in the order made.
Counted(links) ==
    {i \in DOMAIN attributions :
       /\ Eligible(attributions[i], links)
       /\ ~\E j \in 1 .. i - 1 :
             /\ Eligible(attributions[j], links)
             /\ attributions[j].donor = attributions[i].donor
             /\ attributions[j].allocation = attributions[i].allocation}

\* The loop stores a receipt per counted attribution and raises at the first
\* that has one already: the receipts before it stay, the ones after it are
\* not made.
Reached(v, links) ==
    {i \in Counted(links) :
       \A j \in Counted(links) : j <= i =>
          _find_live_impact(attributions[j].donor, v,
                            attributions[j].allocation) = {}}

publish_impact_receipts(v) ==
    /\ impact_events[v].state = "VERIFIED"
    /\ LET links == impact_events[v].links
           made == Reached(v, links)
       IN  /\ LinkedExpenses(links) # {}
           /\ published + Cardinality(made) <= MaxPublished
           /\ published' = published + Cardinality(made)
           /\ impact_receipts' = impact_receipts \cup
                {[donor |-> attributions[i].donor, event |-> v,
                  allocation |-> attributions[i].allocation,
                  serial |-> published + Cardinality({j \in made : j <= i})] : i \in made}
    /\ UNCHANGED <<programs, assets, impact_events>>

ImpactNext ==
    \/ \E p \in Programs : register_program(p)
    \/ \E a \in Assets : register_funded_asset(a) \/ deploy_asset(a)
    \/ \E v \in Events : \/ \E links \in Links : submit_impact_event(v, links)
                         \/ verify_impact_event(v)
                         \/ publish_impact_receipts(v)
=============================================================================
