------------------------------ MODULE MCModules -----------------------------
(* Parts on small instances: two settings and two writers of them, three sockets of
   the dashboard and two of the phone, two tabs that nothing tells apart. *)
EXTENDS Parts, TLC

SettingsKeys == ("w1" :> {"a", "b"}) @@ ("w2" :> {"b"})
Sockets == ("d1" :> "dashboard") @@ ("d2" :> "dashboard") @@ ("d3" :> "dashboard")
             @@ ("m1" :> "mobile") @@ ("m2" :> "mobile")
TabSymmetry == Permutations(Tab)
=============================================================================
