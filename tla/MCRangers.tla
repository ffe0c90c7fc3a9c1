------------------------------ MODULE MCRangers ------------------------------
(* Small instances of Rangers for TLC.                                       *)
EXTENDS Rangers, TLC

\* Targets in front of the edge of the robot and behind it, and the farthest
\* whose pulse fits 16 bits.
MCTargets == ("hc-sr04" :> {2, 20, 45, 400}) @@ ("mb10xx" :> {20, 45, 300, 566})
               @@ ("lidar" :> {5, 45, 3276}) @@ ("fc-51" :> {})

\* Nothing answers: pulseIn gives up and returns 0, or the sensor ends its
\* pulse by itself.
MCNoEcho == ("hc-sr04" :> {0, 38000}) @@ ("mb10xx" :> {0, 37500})
              @@ ("lidar" :> {0}) @@ ("fc-51" :> {})

\* The ends of the ranges for which the MB10xx and the lidar are sold.
MCFarTargets == ("mb10xx" :> {45, 645}) @@ ("lidar" :> {45, 4000})

MCFarNoEcho == ("mb10xx" :> {0}) @@ ("lidar" :> {0})

=============================================================================
