---------------------------- MODULE ControlLease ----------------------------
(***************************************************************************)
(* WatcherRelayControlLease (OpenPocketViewCore) on the phone, as one      *)
(* watcher, "me", sees it: who may control the camera, and for how long a  *)
(* watcher that dropped out while it held control may come back for it.    *)
(***************************************************************************)
EXTENDS Integers

CONSTANT ParkWindow   \* 20 s

ASSUME LeaseAssumption == ParkWindow \in Nat \ {0}

Lease == [holder : {"host", "me", "other"},   \* holderWatcherID
          parked : 0 .. ParkWindow]           \* what is left of my parked lease; 0 none

HostHolds == [holder |-> "host", parked |-> 0]

Grant(who) == [holder |-> who, parked |-> 0]

\* reclaim and clear: the phone's operator takes control back, or the holder gives it up.
Reclaim == HostHolds

\* My socket dropped.
Park(l) == IF l.holder = "me" THEN [holder |-> "host", parked |-> ParkWindow] ELSE l

\* I came back with the watcherID I left with.
Claim(l) == IF l.parked > 0 THEN Grant("me") ELSE l

ParkedSecondPasses(l) == [l EXCEPT !.parked = IF @ > 0 THEN @ - 1 ELSE 0]

=============================================================================
