-------------------------------- MODULE TopicNames --------------------------------
(***************************************************************************)
(* How a node names its topics (core/BaseNode/BaseNode.cpp): the robot     *)
(* namespace that baseLoadConfig() keeps, and getNamespacedTopic().  A     *)
(* string is the sequence of its slashes and of the words between them.    *)
(***************************************************************************)
EXTENDS Integers, Sequences

Slash == "/"

\* The positions of s that do not hold a slash.
WordsOf(s) == { i \in 1..Len(s) : s[i] # Slash }

\* s without its last, or without its first, slashes.
TrimEnd(s)   == SubSeq(s, 1, CHOOSE n \in 0..Len(s) : /\ \A i \in WordsOf(s) : i <= n
                                                      /\ n \in WordsOf(s) \cup {0})
TrimStart(s) == SubSeq(s, CHOOSE n \in 1..Len(s) + 1 : /\ \A i \in WordsOf(s) : i >= n
                                                       /\ n \in WordsOf(s) \cup {Len(s) + 1},
                       Len(s))

\* m_robotNamespace for the parameter robot_namespace.  A parameter of slashes
\* only is the root, kept as the empty string; an empty one becomes a slash.
LoadedNamespace(parameter) ==
  LET trimmed == TrimEnd(parameter)
  IN  IF trimmed = <<>> /\ parameter # <<>> THEN <<>>
      ELSE IF trimmed = <<>> \/ trimmed[1] # Slash THEN <<Slash>> \o trimmed
      ELSE trimmed

\* getNamespacedTopic
NamespacedTopic(robotNamespace, topic) ==
  LET root     == TrimEnd(robotNamespace)
      relative == TrimStart(topic)
  IN  IF relative # <<>> THEN root \o <<Slash>> \o relative
      ELSE IF root = <<>> THEN <<Slash>> ELSE root

\* ROS 2 itself (external): the namespace a launch file pushes, the topic
\* "~/name" of a node in it, and a name that a node uses as it is.
RosNamespace(parameter) ==
  IF TrimStart(TrimEnd(parameter)) = <<>> THEN <<>>
  ELSE <<Slash>> \o TrimStart(TrimEnd(parameter))
PrivateTopic(namespace, node, name) == namespace \o <<Slash, node, Slash, name>>
Resolved(namespace, name) ==
  IF name[1] = Slash THEN name ELSE namespace \o <<Slash>> \o name

\* A name that ROS 2 accepts: absolute, no empty word and no slash at its end.
IsTopicName(s) ==
  /\ Len(s) > 1 /\ s[1] = Slash /\ s[Len(s)] # Slash
  /\ \A i \in 1..Len(s) - 1 : (s[i] = Slash) # (s[i+1] = Slash)

===============================================================================
