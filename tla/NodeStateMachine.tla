--------------------------- MODULE NodeStateMachine ---------------------------
(***************************************************************************)
(* What the documentation promises of a node's life: the state machine of  *)
(* include/robot_framework_ros2/doc/puml/NodeStateMachineDiagram.puml.     *)
(* A node may stop in any state (its process ends), so there is no         *)
(* fairness here.  BaseNode is shown to implement this specification.      *)
(***************************************************************************)

VARIABLE state

States == {"UNKNOWN", "INITIALIZED", "START", "RUNNING", "PAUSED", "FINISHED"}

\* The arrows of the diagram.
Edge == { <<"UNKNOWN", "INITIALIZED">>,   \* init()
          <<"INITIALIZED", "START">>,     \* start()
          <<"START", "RUNNING">>,
          <<"RUNNING", "PAUSED">>,
          <<"PAUSED", "RUNNING">>,
          <<"RUNNING", "START">>,         \* reset()
          <<"RUNNING", "FINISHED">> }

Init == state = "UNKNOWN"

Next == <<state, state'>> \in Edge

Spec == Init /\ [][Next]_state

===============================================================================
