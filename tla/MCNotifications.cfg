SPECIFICATION Spec
CONSTANTS
    d1 = d1
    spent = spent
    helped = helped
    Donors = {d1}
    Channels = {"EMAIL", "PUSH"}
    Sources = {spent, helped}
    DonorOf <- MCDonorOf
    ClassOf <- MCClassOf
    Preferences <- MCPreferences
    Hours = {0, 2}
    MaxIntents = 2
    MaxEras = 1
INVARIANTS
    TypeOK
    RepeatNeedsNewEra
    
    DeliveriesMatchIntents

    
CHECK_DEADLOCK FALSE
