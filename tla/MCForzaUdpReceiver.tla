------------------------ MODULE MCForzaUdpReceiver ------------------------
(***************************************************************************)
(* The receiver on a small set of packets: one plain packet, varied where    *)
(* the decoder tells values apart.                                          *)
(***************************************************************************)
EXTENDS ForzaUdpReceiver

Plain == [len |-> 324, raceOn |-> TRUE, maxRpm |-> 8500, rpm |-> 1800,
          accel |-> 1, sledSpeed |-> 10000, speed |-> 10000, power |-> 500,
          tire |-> 104, fuel |-> 50, distance |-> 7, best |-> 0, last |-> 0,
          current |-> 42, time |-> 43, lap |-> 1, position |-> 4,
          gear |-> 2, steer |-> 0]

\* Lengths on both sides of the sled's reads and of the two layouts.
Lengths == {43, 44, 310, 311, 323, 324}

OfEveryLength == {[Plain EXCEPT !.len = n] : n \in Lengths}

\* What the sled is asked: 650 km/h lies between 180555 and 180556 mm/s.
Sleds == {[Plain EXCEPT !.len = 325, !.sledSpeed = w[1], !.rpm = w[2]] :
            w \in {<<2, 25000>>, <<180555, 0>>, <<180556, 0>>, <<NonFinite, 0>>,
                   <<0, 25001>>}}

Vehicles ==
    {[Plain EXCEPT !.speed = v, !.rpm = v, !.power = v, !.tire = v, !.fuel = v,
                   !.distance = v, !.accel = v, !.gear = w[1], !.steer = w[2]] :
        v \in {-5, 2, 101, NonFinite}, w \in {<<0, -128>>, <<11, 127>>}}

Races ==
    {[Plain EXCEPT !.raceOn = on, !.lap = w[1], !.position = w[2],
                   !.best = t[1], !.current = t[2], !.time = t[3]] :
        on \in BOOLEAN, w \in {<<0, 4>>, <<1, 0>>, <<1, 4>>},
        t \in {<<0, 42, 0>>, <<94, 0, 0>>, <<NonFinite, 0, 43>>}}

AllPackets == OfEveryLength \cup Sleds \cup Vehicles \cup Races
=============================================================================
