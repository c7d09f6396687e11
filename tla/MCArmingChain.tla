-------------------------------- MODULE MCArmingChain --------------------------------
\* A robot of two devices for TLC: a servo hat and an IMU, or a second hat.
EXTENDS ArmingChain

Hats     == [d \in {"hat", "other"} |-> "servo hat"]
HatAndImu == [Hats EXCEPT !["other"] = "imu"]

\* Each spelling of the namespace (the root, a robot with and without slashes,
\* a robot of a fleet) with a list: both devices, one of them, both of one kind.
MCConfigurations ==
  { [listed |-> <<"hat", "other">>, identity |-> HatAndImu,
     spelling |-> <<"/", "robot", "/">>,          slashed |-> TRUE],
    [listed |-> <<"hat", "other">>, identity |-> Hats,
     spelling |-> <<"robot">>,                    slashed |-> TRUE],
    [listed |-> <<"other">>,        identity |-> HatAndImu,
     spelling |-> <<"/", "fleet", "/", "robot">>, slashed |-> FALSE],
    [listed |-> <<"other">>,        identity |-> Hats,
     spelling |-> <<>>,                           slashed |-> FALSE],
    [listed |-> <<"hat">>,          identity |-> HatAndImu,
     spelling |-> <<"/">>,                        slashed |-> FALSE] }

\* README.md: ros2 launch robot_framework_ros2 orchestrator.launch.py robot_namespace:=robot
MCNamedRobot ==
  { [listed |-> <<"hat">>, identity |-> [d \in {"hat"} |-> "servo hat"],
     spelling |-> <<"robot">>, slashed |-> FALSE] }

===============================================================================
