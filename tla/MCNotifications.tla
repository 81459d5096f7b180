-------------------------- MODULE MCNotifications --------------------------
(* One donor, a use-of-funds receipt and an impact receipt, two channels.    *)
EXTENDS Notifications, TLC

CONSTANTS d1, spent, helped

MCDonorOf == spent :> d1 @@ helped :> d1
MCClassOf == spent :> "MONEY_USED" @@ helped :> "IMPACT_OCCURRED"

\* A donor who wants everything but at night, and one who turned it off.
MCPreferences ==
    {[enabled |-> TRUE, topics |-> {}, quiet |-> <<3, 1>>, set |-> TRUE],
     [enabled |-> TRUE, topics |-> {"IMPACT_OCCURRED"}, quiet |-> <<>>, set |-> TRUE]}

\* The quiet hours are the hours from start on, round the clock, up to end.
ASSUME QuietHoursWrap ==
    \A start, end, hour \in 0 .. 3 :
       _in_quiet_hours(<<start, end>>, hour) <=>
         (hour + 4 - start) % 4 < (end + 4 - start) % 4
=============================================================================
