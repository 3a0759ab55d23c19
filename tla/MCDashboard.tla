---------------------------- MODULE MCDashboard ----------------------------
EXTENDS Dashboard, TLC

\* Nothing compares projects or endpoints but for equality.
Symmetry == Permutations(Projects) \cup Permutations(Endpoints)

\* The screen of the deliveries, and the other three: each run opens its own.
DeliveriesInit == Init /\ page = "deliveries"
OtherScreensInit == Init /\ page # "deliveries"

DeliveriesSpec == DeliveriesInit /\ [][Next]_vars
OtherScreensSpec == OtherScreensInit /\ [][Next]_vars
=============================================================================
