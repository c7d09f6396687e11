------------------------------- MODULE ArmingChainProofs -------------------------------
(***************************************************************************)
(* Theorems about ArmingChain for every set of devices and configurations, *)
(* every depth of the queues and every number of deaths: an ARMED command  *)
(* follows a report of every listed node, as long as the list fits in the  *)
(* byte that the manager keeps of its length, and the names that the nodes *)
(* put together meet, as long as the namespace has no empty word.          *)
(***************************************************************************)
EXTENDS ArmingChain, SequenceTheorems, FiniteSetTheorems, WellFoundedInduction, TLAPS

AllVars == <<config, hears, connected, up, able, ready, statuses, state, reports, commands,
             shown, reported, changes, deaths>>

LEMMA VarsAreAll == UNCHANGED vars => UNCHANGED AllVars
BY DEF vars, AllVars, configVars, deviceVars, managerVars, commandVars, boundVars

Word == STRING \cup Devices \cup {Slash, "ready_to_arm", "arm_command"}

-----------------------------------------------------------------------------
(* The names: two topics of status that are equal are of one device.       *)

\* A set of positions that is not empty has a greatest and a least member.
LEMMA GreatestOf ==
  ASSUME NEW k \in Nat, NEW T, T \subseteq 1..k, T # {}
  PROVE  \E i \in T : \A j \in T : j <= i
<1> DEFINE D == { n \in Nat : k - n \in T }
<1>1. ASSUME NEW j \in T PROVE j \in 1..k /\ k - j \in D
  <2>1. j \in 1..k
    BY <1>1
  <2>2. k - j \in Nat /\ k - (k - j) = j
    BY <2>1
  <2>3. QED
    BY <2>1, <2>2, <1>1
<1>2. D # {} /\ D \subseteq Nat
  BY <1>1
<1>3. PICK d \in D : \A e \in D : ~(<<e, d>> \in OpToRel(<, Nat))
  BY <1>2, NatLessThanWellFounded, WFMin
<1>4. ASSUME NEW e \in D PROVE d <= e
  <2>1. d \in Nat /\ e \in Nat
    BY <1>2, <1>4
  <2>2. ~(e < d)
    BY <1>3, <1>4, <2>1 DEF OpToRel
  <2>3. QED
    BY <2>1, <2>2
<1>5. k - d \in T /\ d \in Nat
  OBVIOUS
<1>6. ASSUME NEW j \in T PROVE j <= k - d
  <2>1. d <= k - j /\ j \in 1..k
    BY <1>1, <1>4, <1>6
  <2>2. QED
    BY <1>5, <2>1
<1>7. QED
  BY <1>5, <1>6

\* Trimming the end of a name leaves a name.
LEMMA TrimEndWord ==
  ASSUME NEW s \in Seq(Word)
  PROVE  TrimEnd(s) \in Seq(Word)
<1> DEFINE P(n) == (\A i \in WordsOf(s) : i <= n) /\ n \in WordsOf(s) \cup {0}
<1>1. WordsOf(s) \subseteq 1..Len(s) /\ Len(s) \in Nat
  BY DEF WordsOf
<1>2. \E n \in 0..Len(s) : P(n)
  <2>1. CASE WordsOf(s) = {}
    BY <2>1, <1>1
  <2>2. CASE WordsOf(s) # {}
    BY <2>2, <1>1, GreatestOf
  <2>3. QED
    BY <2>1, <2>2
<1> DEFINE last == CHOOSE n \in 0..Len(s) : P(n)
<1>3. last \in 0..Len(s)
  BY <1>2
<1>4. TrimEnd(s) = SubSeq(s, 1, last)
  BY DEF TrimEnd
<1> HIDE DEF last
<1>5. last \in Int /\ \A i \in 1..last : s[i] \in Word
  BY <1>1, <1>3
<1>6. QED
  BY <1>4, <1>5, SubSeqProperties

\* So does trimming its start.
LEMMA TrimStartWord ==
  ASSUME NEW s \in Seq(Word)
  PROVE  TrimStart(s) \in Seq(Word)
<1> DEFINE P(n) == (\A i \in WordsOf(s) : i >= n) /\ n \in WordsOf(s) \cup {Len(s) + 1}
<1>1. WordsOf(s) \subseteq 1..Len(s) /\ Len(s) \in Nat
  BY DEF WordsOf
<1>2. \E n \in 1..Len(s) + 1 : P(n)
  <2>1. CASE WordsOf(s) = {}
    BY <2>1, <1>1
  <2>2. CASE WordsOf(s) # {}
    <3>1. WordsOf(s) \subseteq Nat
      BY <1>1
    <3>2. PICK n \in WordsOf(s) : \A e \in WordsOf(s) : ~(<<e, n>> \in OpToRel(<, Nat))
      BY <2>2, <3>1, NatLessThanWellFounded, WFMin
    <3>3. ASSUME NEW e \in WordsOf(s) PROVE e >= n
      <4>1. e \in Nat /\ n \in Nat
        BY <3>1
      <4>2. ~(<<e, n>> \in OpToRel(<, Nat))
        BY <3>2
      <4>3. ~(e < n)
        BY <4>1, <4>2 DEF OpToRel
      <4>4. QED
        BY <4>1, <4>3
    <3>4. QED
      BY <1>1, <3>3
  <2>3. QED
    BY <2>1, <2>2
<1> DEFINE first == CHOOSE n \in 1..Len(s) + 1 : P(n)
<1>3. first \in 1..Len(s) + 1
  BY <1>2
<1>4. TrimStart(s) = SubSeq(s, first, Len(s))
  BY DEF TrimStart
<1> HIDE DEF first
<1>5. first \in Int /\ \A i \in first..Len(s) : s[i] \in Word
  BY <1>1, <1>3
<1>6. QED
  BY <1>1, <1>4, <1>5, SubSeqProperties

\* Trimming the start of a node's name as it is configured leaves the name.
LEMMA TrimStartConfigured ==
  ASSUME NEW d, d # Slash, NEW s, s = <<d>> \/ s = <<Slash, d>>
  PROVE  TrimStart(s) = <<d>>
<1> DEFINE P(n) == (\A i \in WordsOf(s) : i >= n) /\ n \in WordsOf(s) \cup {Len(s) + 1}
           first == CHOOSE n \in 1..Len(s) + 1 : P(n)
<1>1. TrimStart(s) = SubSeq(s, first, Len(s))
  BY DEF TrimStart
<1>2. WordsOf(s) = {Len(s)} /\ Len(s) \in {1, 2} /\ s[Len(s)] = d
  <2>1. CASE s = <<d>>
    <3>1. Len(s) = 1 /\ s[1] = d /\ 1..Len(s) = {1}
      BY <2>1
    <3>2. QED
      BY <3>1 DEF WordsOf
  <2>2. CASE s = <<Slash, d>>
    <3>1. Len(s) = 2 /\ s[1] = Slash /\ s[2] = d /\ 1..Len(s) = {1, 2}
      BY <2>2
    <3>2. QED
      BY <3>1 DEF WordsOf
  <2>3. QED
    BY <2>1, <2>2
<1>3. P(Len(s)) /\ \A n \in 1..Len(s) + 1 : P(n) => n = Len(s)
  BY <1>2
<1>4. first = Len(s)
  BY <1>2, <1>3
<1> HIDE DEF first
<1>5. SubSeq(s, Len(s), Len(s)) = <<d>>
  <2> DEFINE l == Len(s)
  <2>1. l \in Int /\ s[l] = d /\ \A i \in l..l : s[i] \in {d}
    BY <1>2
  <2> HIDE DEF l
  <2>2. /\ SubSeq(s, l, l) \in Seq({d}) /\ Len(SubSeq(s, l, l)) = 1
        /\ SubSeq(s, l, l)[1] = d
    BY <2>1, SubSeqProperties
  <2> DEFINE t == SubSeq(s, l, l)
  <2>3. t \in Seq({d}) /\ Len(t) = 1 /\ t[1] = d
    BY <2>2
  <2> HIDE DEF t
  <2>4. <<d>> \in Seq({d}) /\ Len(<<d>>) = 1 /\ <<d>>[1] = d
    OBVIOUS
  <2>5. t = <<d>>
    BY <2>3, <2>4, SeqEqual
  <2>6. QED
    BY <2>5 DEF t, l
<1>6. QED
  BY <1>1, <1>4, <1>5

\* The word before the last two of a name.
LEMMA ThirdLast ==
  ASSUME NEW root \in Seq(Word), NEW m \in Word, NEW x \in Word, NEW y \in Word, NEW z \in Word
  PROVE  LET s == ((root \o <<x>>) \o <<m>>) \o <<y, z>>
         IN  Len(s) = Len(root) + 4 /\ s[Len(root) + 2] = m
<1>1. root \o <<x>> \in Seq(Word) /\ Len(root \o <<x>>) = Len(root) + 1
  BY ConcatProperties
<1>2. /\ (root \o <<x>>) \o <<m>> \in Seq(Word)
      /\ Len((root \o <<x>>) \o <<m>>) = Len(root) + 2
      /\ ((root \o <<x>>) \o <<m>>)[Len(root) + 2] = m
  BY <1>1
<1>3. Len(root) \in Nat /\ <<y, z>> \in Seq(Word) /\ Len(<<y, z>>) = 2
  OBVIOUS
<1> DEFINE t == (root \o <<x>>) \o <<m>>
<1>4. t \in Seq(Word) /\ Len(t) = Len(root) + 2 /\ t[Len(root) + 2] = m
  BY <1>2
<1> HIDE DEF t
<1>5. Len(t \o <<y, z>>) = Len(root) + 4 /\ (t \o <<y, z>>)[Len(root) + 2] = m
  BY <1>3, <1>4, ConcatProperties
<1>6. QED
  BY <1>5 DEF t

LEMMA SlashIsWord == Slash \in Word /\ "ready_to_arm" \in Word
BY DEF Word

LEMMA NamespaceWord ==
  ASSUME NEW s \in Seq(STRING)
  PROVE  LoadedNamespace(s) \in Seq(Word) /\ RosNamespace(s) \in Seq(Word)
<1>1. s \in Seq(Word)
  BY SeqMonotonic DEF Word
<1>2. TrimEnd(s) \in Seq(Word) /\ TrimStart(TrimEnd(s)) \in Seq(Word)
  BY <1>1, TrimEndWord, TrimStartWord
<1>3. <<Slash>> \in Seq(Word) /\ <<>> \in Seq(Word)
  BY SlashIsWord
<1>4. <<Slash>> \o TrimEnd(s) \in Seq(Word) /\ <<Slash>> \o TrimStart(TrimEnd(s)) \in Seq(Word)
  BY <1>2, <1>3, ConcatProperties
<1>5. QED
  BY <1>2, <1>3, <1>4 DEF LoadedNamespace, RosNamespace

\* The manager hears no device but those of its list.
LEMMA HeardAreListed ==
  ASSUME config \in Configurations
  PROVE  Heard \subseteq Listed
<1> SUFFICES ASSUME NEW d \in Devices, NEW m \in Listed, MonitoredTopic(m) = StatusTopic(d)
             PROVE  m = d
  BY DEF Heard
<1>1. config.spelling \in Seq(STRING) /\ config.listed \in Seq(Devices)
  BY ConfigurationsAssumption
<1>2. m \in Devices
  BY <1>1 DEF Listed, Range
<1> DEFINE root == TrimEnd(RobotNamespace)
           ns   == RosNamespace(config.spelling)
<1>3. root \in Seq(Word) /\ ns \in Seq(Word)
  BY <1>1, NamespaceWord, TrimEndWord DEF RobotNamespace
<1>4. TrimStart(Configured(m)) = <<m>> /\ <<m>> # <<>>
  <2>1. m # Slash
    BY <1>2, DevicesAssumption
  <2>2. QED
    BY <2>1, TrimStartConfigured DEF Configured
<1>5. NamespacedTopic(RobotNamespace, Configured(m)) = (root \o <<Slash>>) \o <<m>>
  BY <1>4 DEF NamespacedTopic
<1>6. MonitoredTopic(m) = ((root \o <<Slash>>) \o <<m>>) \o <<Slash, "ready_to_arm">>
  BY <1>5 DEF MonitoredTopic
<1>7. StatusTopic(d) = ns \o <<Slash, d, Slash, "ready_to_arm">>
  BY DEF StatusTopic, PrivateTopic
<1> HIDE DEF root, ns
<1>8. /\ d \in Word /\ m \in Word /\ Slash \in Word /\ "ready_to_arm" \in Word
      /\ Len(root) \in Nat /\ Len(ns) \in Nat
  <2>1. d \in Word /\ m \in Word
    BY <1>2 DEF Word
  <2>2. QED
    BY <1>3, <2>1, SlashIsWord
<1>9. Len(MonitoredTopic(m)) = Len(root) + 4 /\ MonitoredTopic(m)[Len(root) + 2] = m
  BY <1>3, <1>6, <1>8, ThirdLast
<1>10. Len(StatusTopic(d)) = Len(ns) + 4 /\ StatusTopic(d)[Len(ns) + 2] = d
  <2> DEFINE tail == <<Slash, d, Slash, "ready_to_arm">>
  <2>1. tail \in Seq(Word) /\ Len(tail) = 4 /\ tail[2] = d
    BY <1>8
  <2> HIDE DEF tail
  <2>2. Len(ns \o tail) = Len(ns) + Len(tail)
        /\ \A i \in 1..Len(ns) + Len(tail) :
             (ns \o tail)[i] = IF i <= Len(ns) THEN ns[i] ELSE tail[i - Len(ns)]
    BY <1>3, <2>1, ConcatProperties
  <2>4. Len(ns) + 2 \in 1..Len(ns) + Len(tail) /\ ~(Len(ns) + 2 <= Len(ns))
        /\ Len(ns) + 2 - Len(ns) = 2
    BY <1>8, <2>1
  <2>3. QED
    BY <1>7, <2>1, <2>2, <2>4 DEF tail
<1>11. QED
  BY <1>8, <1>9, <1>10

-----------------------------------------------------------------------------
(* Where the topics meet.                                                  *)

\* No two slashes and no two words of s stand beside each other.
Alternates(s) == \A i \in 1..Len(s) - 1 : (s[i] = Slash) # (s[i+1] = Slash)

\* Every robot_namespace considered is spelled without an empty word.
WellSpelled == \A c \in Configurations : Alternates(c.spelling)

\* The root of a namespace: empty, or a name with a slash before it and none after it.
IsRoot(r) == r = <<>> \/ (Len(r) > 1 /\ r[1] = Slash /\ r[Len(r)] # Slash)

\* What TrimEnd leaves ends in the last word.
LEMMA TrimEndIs ==
  ASSUME NEW s \in Seq(Word), NEW n \in 0..Len(s), n = 0 \/ s[n] # Slash,
         \A i \in n + 1..Len(s) : s[i] = Slash
  PROVE  TrimEnd(s) = SubSeq(s, 1, n)
<1> DEFINE P(k) == (\A i \in WordsOf(s) : i <= k) /\ k \in WordsOf(s) \cup {0}
<1>1. Len(s) \in Nat /\ n \in Nat
  OBVIOUS
<1>2. P(n)
  BY <1>1 DEF WordsOf
<1>3. \A k \in 0..Len(s) : P(k) => k = n
  BY <1>1, <1>2 DEF WordsOf
<1>4. n = CHOOSE k \in 0..Len(s) : P(k)
  BY <1>2, <1>3
<1>5. QED
  BY <1>4 DEF TrimEnd

\* What TrimStart leaves begins with the first word.
LEMMA TrimStartIs ==
  ASSUME NEW s \in Seq(Word), NEW n \in 1..Len(s) + 1, n = Len(s) + 1 \/ s[n] # Slash,
         \A i \in 1..n - 1 : s[i] = Slash
  PROVE  TrimStart(s) = SubSeq(s, n, Len(s))
<1> DEFINE P(k) == (\A i \in WordsOf(s) : i >= k) /\ k \in WordsOf(s) \cup {Len(s) + 1}
<1>1. Len(s) \in Nat /\ n \in Nat
  OBVIOUS
<1>2. P(n)
  BY <1>1 DEF WordsOf
<1>3. \A k \in 1..Len(s) + 1 : P(k) => k = n
  BY <1>1, <1>2 DEF WordsOf
<1>4. n = CHOOSE k \in 1..Len(s) + 1 : P(k)
  BY <1>2, <1>3
<1>5. QED
  BY <1>4 DEF TrimStart

\* The end of a well-spelled name loses one slash at most.
LEMMA TrimEndAlternates ==
  ASSUME NEW s \in Seq(Word), Alternates(s)
  PROVE  LET t == TrimEnd(s)
         IN  t \in Seq(Word) /\ Alternates(t) /\ (t = <<>> \/ t[Len(t)] # Slash)
<1>1. Len(s) \in Nat
  OBVIOUS
<1>2. PICK n \in 0..Len(s) : /\ n = 0 \/ s[n] # Slash
                             /\ \A i \in n + 1..Len(s) : s[i] = Slash
  <2>1. CASE s = <<>> \/ s[Len(s)] # Slash
    <3>1. \A i \in Len(s) + 1..Len(s) : s[i] = Slash
      BY <1>1
    <3>2. QED
      BY <1>1, <2>1, <3>1
  <2>2. CASE s # <<>> /\ s[Len(s)] = Slash
    <3>1. Len(s) - 1 \in 0..Len(s) /\ Len(s) - 1 + 1 = Len(s)
      BY <1>1, <2>2
    <3>2. Len(s) - 1 = 0 \/ s[Len(s) - 1] # Slash
      BY <1>1, <2>2, <3>1 DEF Alternates
    <3>3. \A i \in (Len(s) - 1) + 1..Len(s) : s[i] = Slash
      BY <1>1, <2>2, <3>1
    <3>4. QED
      BY <3>1, <3>2, <3>3
  <2>3. QED
    BY <2>1, <2>2
<1>3. TrimEnd(s) = SubSeq(s, 1, n)
  BY <1>2, TrimEndIs
<1>4. /\ SubSeq(s, 1, n) \in Seq(Word) /\ Len(SubSeq(s, 1, n)) = n
      /\ \A i \in 1..n : SubSeq(s, 1, n)[i] = s[i]
  <2>1. n \in Int /\ \A i \in 1..n : s[i] \in Word
    BY <1>1
  <2>2. QED
    BY <1>1, <2>1, SubSeqProperties
<1> DEFINE t == SubSeq(s, 1, n)
<1>5. t \in Seq(Word) /\ Len(t) = n /\ \A i \in 1..n : t[i] = s[i]
  BY <1>4
<1> HIDE DEF t
<1>6. Alternates(t)
  BY <1>1, <1>5 DEF Alternates
<1>7. t = <<>> \/ t[Len(t)] # Slash
  BY <1>1, <1>2, <1>5
<1>8. QED
  BY <1>3, <1>5, <1>6, <1>7 DEF t

\* A trimmed name with or without the slash before it gets one.
LEMMA SlashBefore ==
  ASSUME NEW t \in Seq(Word), t # <<>>, Alternates(t), t[Len(t)] # Slash
  PROVE  /\ TrimStart(t) # <<>>
         /\ <<Slash>> \o TrimStart(t) = IF t[1] = Slash THEN t ELSE <<Slash>> \o t
<1>1. Len(t) \in Nat \ {0}
  OBVIOUS
<1>2. CASE t[1] # Slash
  <2>1. TrimStart(t) = SubSeq(t, 1, Len(t))
    <3>1. 1 \in 1..Len(t) + 1 /\ \A i \in 1..1 - 1 : t[i] = Slash
      BY <1>1
    <3>2. QED
      BY <1>2, <3>1, TrimStartIs
  <2>2. TrimStart(t) = t
    BY <2>1, SubSeqFull
  <2>3. QED
    BY <1>2, <2>2
<1>3. CASE t[1] = Slash
  <2>1. Len(t) > 1
    BY <1>1, <1>3
  <2>2. t[2] # Slash
    BY <1>1, <1>3, <2>1 DEF Alternates
  <2>3. TrimStart(t) = SubSeq(t, 2, Len(t))
    <3>1. 2 \in 1..Len(t) + 1 /\ \A i \in 1..2 - 1 : t[i] = Slash
      BY <1>1, <1>3, <2>1
    <3>2. QED
      BY <2>2, <3>1, TrimStartIs
  <2>4. TrimStart(t) = Tail(t)
    BY <2>3, TailIsSubSeq
  <2>5. Tail(t) # <<>> /\ <<Slash>> \o Tail(t) = t
    <3>1. /\ Tail(t) \in Seq(Word) /\ Len(Tail(t)) = Len(t) - 1
          /\ \A i \in 1..Len(t) - 1 : Tail(t)[i] = t[i + 1]
      BY <1>1
    <3>2. <<Slash>> \in Seq(Word) /\ Len(<<Slash>>) = 1 /\ <<Slash>>[1] = Slash
      BY SlashIsWord
    <3> DEFINE u == Tail(t)
               v == <<Slash>>
    <3>3. /\ u \in Seq(Word) /\ Len(u) = Len(t) - 1
          /\ \A i \in 1..Len(t) - 1 : u[i] = t[i + 1]
          /\ v \in Seq(Word) /\ Len(v) = 1 /\ v[1] = Slash
      BY <3>1, <3>2
    <3> HIDE DEF u, v
    <3>4. /\ v \o u \in Seq(Word) /\ Len(v \o u) = Len(v) + Len(u)
          /\ \A i \in 1..Len(v) + Len(u) :
               (v \o u)[i] = IF i <= Len(v) THEN v[i] ELSE u[i - Len(v)]
      <4>1. v \in Seq(Word) /\ u \in Seq(Word)
        BY <3>3
      <4>2. QED
        BY <4>1, ConcatProperties, Zenon
    <3>5. Len(v \o u) = Len(t)
      BY <1>1, <3>3, <3>4
    <3>6. \A i \in 1..Len(t) : (v \o u)[i] = t[i]
      BY <1>1, <1>3, <3>3, <3>4
    <3>7. v \o u = t
      BY <3>4, <3>5, <3>6, SeqEqual
    <3>8. u # <<>>
      BY <1>1, <2>1, <3>3
    <3>9. QED
      BY <3>7, <3>8 DEF u, v
  <2>6. QED
    BY <1>3, <2>4, <2>5
<1>4. QED
  BY <1>2, <1>3

\* A slash before a name that has none makes it a root.
LEMMA SlashedIsRoot ==
  ASSUME NEW t \in Seq(Word), t # <<>>, Alternates(t), t[Len(t)] # Slash
  PROVE  LET r == IF t[1] = Slash THEN t ELSE <<Slash>> \o t
         IN  r \in Seq(Word) /\ r # <<>> /\ IsRoot(r) /\ Alternates(r)
<1>1. Len(t) \in Nat \ {0}
  OBVIOUS
<1>2. CASE t[1] = Slash
  BY <1>1, <1>2 DEF IsRoot
<1>3. CASE t[1] # Slash
  <2>1. <<Slash>> \in Seq(Word) /\ Len(<<Slash>>) = 1 /\ <<Slash>>[1] = Slash
    BY SlashIsWord
  <2> DEFINE v == <<Slash>>
             r == v \o t
  <2>2. v \in Seq(Word) /\ Len(v) = 1 /\ v[1] = Slash
    BY <2>1
  <2> HIDE DEF v
  <2>3. /\ r \in Seq(Word) /\ Len(r) = 1 + Len(t)
        /\ \A i \in 1..1 + Len(t) : r[i] = IF i <= 1 THEN v[i] ELSE t[i - 1]
    BY <2>2, ConcatProperties
  <2> HIDE DEF r
  <2>4. r[1] = Slash /\ r[Len(r)] # Slash /\ Len(r) > 1
    BY <1>1, <2>2, <2>3
  <2>5. Alternates(r)
    <3> SUFFICES ASSUME NEW i \in 1..Len(r) - 1 PROVE (r[i] = Slash) # (r[i+1] = Slash)
      BY DEF Alternates
    <3>1. CASE i = 1
      <4>1. r[i+1] = t[1]
        BY <1>1, <2>3, <3>1
      <4>2. QED
        BY <1>3, <2>4, <3>1, <4>1
    <3>2. CASE i # 1
      <4> DEFINE j == i - 1
      <4>1. j \in 1..Len(t) - 1 /\ i = j + 1 /\ i + 1 - 1 = j + 1
            /\ i \in 1..1 + Len(t) /\ i + 1 \in 1..1 + Len(t) /\ ~(i <= 1) /\ ~(i + 1 <= 1)
        BY <1>1, <2>3, <3>2
      <4>2. r[i] = t[j] /\ r[i+1] = t[j+1]
        BY <2>3, <4>1
      <4>3. (t[j] = Slash) # (t[j+1] = Slash)
        BY <4>1 DEF Alternates
      <4>4. QED
        BY <4>2, <4>3
    <3>3. QED
      BY <3>1, <3>2
  <2>6. r \in Seq(Word) /\ r # <<>> /\ IsRoot(r) /\ Alternates(r)
    BY <1>1, <2>3, <2>4, <2>5 DEF IsRoot
  <2>7. QED
    BY <1>3, <2>6 DEF r, v
<1>4. QED
  BY <1>2, <1>3

\* The namespace that a node keeps, without the slash at its end, is the one
\* that ROS 2 gives it.
LEMMA RootsAgree ==
  ASSUME NEW s \in Seq(STRING), Alternates(s)
  PROVE  LET r == RosNamespace(s)
         IN  /\ TrimEnd(LoadedNamespace(s)) = r
             /\ r \in Seq(Word) /\ IsRoot(r) /\ Alternates(r)
<1>1. s \in Seq(Word)
  BY SeqMonotonic DEF Word
<1> DEFINE t == TrimEnd(s)
<1>2. t \in Seq(Word) /\ Alternates(t) /\ (t = <<>> \/ t[Len(t)] # Slash)
  BY <1>1, TrimEndAlternates
<1>3. CASE t = <<>>
  <2>1. LoadedNamespace(s) \in { <<>>, <<Slash>> }
    BY <1>3 DEF LoadedNamespace
  <2>2. TrimEnd(LoadedNamespace(s)) = <<>>
    <3>1. ASSUME NEW u \in { <<>>, <<Slash>> } PROVE TrimEnd(u) = <<>>
      <4>1. u \in Seq(Word) /\ 0 \in 0..Len(u) /\ \A i \in 0 + 1..Len(u) : u[i] = Slash
        <5>1. CASE u = <<>>
          <6>1. Len(u) = 0 /\ 0 + 1..0 = {} /\ 0 \in 0..0 /\ u \in Seq(Word)
            BY <5>1
          <6>2. QED
            BY <6>1
        <5>2. CASE u = <<Slash>>
          <6>1. Len(u) = 1 /\ 0 + 1..1 = {1} /\ 0 \in 0..1 /\ u \in Seq(Word) /\ u[1] = Slash
            BY <5>2, SlashIsWord
          <6>2. QED
            BY <6>1
        <5>3. QED
          BY <5>1, <5>2
      <4>2. TrimEnd(u) = SubSeq(u, 1, 0)
        BY <4>1, TrimEndIs
      <4>3. QED
        BY <4>1, <4>2, SubSeqEmpty
    <3>2. QED
      BY <2>1, <3>1
  <2>3. TrimStart(t) = <<>>
    <3> HIDE DEF t
    <3>1. Len(t) = 0 /\ 1 \in 1..Len(t) + 1 /\ 1 = Len(t) + 1 /\ 1..1 - 1 = {}
      BY <1>3
    <3>2. TrimStart(t) = SubSeq(t, 1, Len(t))
      BY <1>2, <3>1, TrimStartIs
    <3>3. QED
      BY <3>1, <3>2, SubSeqEmpty
  <2>4. RosNamespace(s) = <<>>
    BY <2>3 DEF RosNamespace
  <2>5. IsRoot(<<>>) /\ Alternates(<<>>) /\ <<>> \in Seq(Word)
    BY DEF IsRoot, Alternates
  <2>6. QED
    BY <2>2, <2>4, <2>5
<1>4. CASE t # <<>>
  <2> DEFINE r == IF t[1] = Slash THEN t ELSE <<Slash>> \o t
  <2>1. r \in Seq(Word) /\ r # <<>> /\ IsRoot(r) /\ Alternates(r)
    BY <1>2, <1>4, SlashedIsRoot
  <2>2. RosNamespace(s) = r
    BY <1>2, <1>4, SlashBefore DEF RosNamespace
  <2>3. LoadedNamespace(s) = r
    BY <1>4 DEF LoadedNamespace
  <2> HIDE DEF r
  <2>4. TrimEnd(r) = r
    <3>1. Len(r) \in Nat /\ Len(r) \in 0..Len(r) /\ r[Len(r)] # Slash
          /\ \A i \in Len(r) + 1..Len(r) : r[i] = Slash
      BY <2>1 DEF IsRoot
    <3>2. TrimEnd(r) = SubSeq(r, 1, Len(r))
      BY <2>1, <3>1, TrimEndIs
    <3>3. QED
      BY <2>1, <3>2, SubSeqFull
  <2>5. QED
    BY <2>1, <2>2, <2>3, <2>4
<1>5. QED
  BY <1>3, <1>4

\* A slash and a word after a root are a name that ROS 2 accepts, and a root.
LEMMA WordAfterRoot ==
  ASSUME NEW r \in Seq(Word), IsRoot(r), Alternates(r), NEW w \in Word, w # Slash
  PROVE  LET u == r \o <<Slash, w>>
         IN  u \in Seq(Word) /\ IsRoot(u) /\ Alternates(u) /\ IsTopicName(u)
<1> DEFINE v == <<Slash, w>>
           u == r \o v
<1>1. v \in Seq(Word) /\ Len(v) = 2 /\ v[1] = Slash /\ v[2] = w
  BY SlashIsWord
<1> HIDE DEF v
<1>2. Len(r) \in Nat
  OBVIOUS
<1>3. /\ u \in Seq(Word) /\ Len(u) = Len(r) + 2
      /\ \A i \in 1..Len(r) + 2 : u[i] = IF i <= Len(r) THEN r[i] ELSE v[i - Len(r)]
  <2>1. v \in Seq(Word)
    BY <1>1
  <2>2. /\ u \in Seq(Word) /\ Len(u) = Len(r) + Len(v)
        /\ \A i \in 1..Len(r) + Len(v) : u[i] = IF i <= Len(r) THEN r[i] ELSE v[i - Len(r)]
    BY <2>1, ConcatProperties, Zenon
  <2>3. Len(v) = 2
    BY <1>1
  <2>4. QED
    BY <2>2, <2>3
<1> HIDE DEF u
<1>4. u[1] = Slash
  <2>1. CASE r = <<>>
    BY <1>1, <1>3, <2>1
  <2>2. CASE r # <<>>
    BY <1>2, <1>3, <2>2 DEF IsRoot
  <2>3. QED
    BY <2>1, <2>2
<1>5. u[Len(u)] = w /\ u[Len(r) + 1] = Slash /\ Len(u) > 1
  BY <1>1, <1>2, <1>3
<1>6. Alternates(u)
  <2> SUFFICES ASSUME NEW i \in 1..Len(u) - 1 PROVE (u[i] = Slash) # (u[i+1] = Slash)
    BY DEF Alternates
  <2>1. CASE i < Len(r)
    <3>1. i \in 1..Len(r) - 1 /\ u[i] = r[i] /\ u[i+1] = r[i+1]
      BY <1>2, <1>3, <2>1
    <3>2. QED
      BY <3>1 DEF Alternates
  <2>2. CASE i = Len(r)
    <3>1. u[i] = r[Len(r)] /\ r # <<>> /\ u[i+1] = Slash
      BY <1>2, <1>3, <1>5, <2>2
    <3>2. QED
      BY <3>1 DEF IsRoot
  <2>3. CASE i > Len(r)
    <3>1. i = Len(r) + 1 /\ i + 1 = Len(u)
      BY <1>2, <1>3, <2>3
    <3>2. QED
      BY <3>1, <1>5
  <2>4. QED
    BY <1>2, <2>1, <2>2, <2>3
<1>7. IsTopicName(u)
  BY <1>4, <1>5, <1>6 DEF IsTopicName, Alternates
<1>8. u \in Seq(Word) /\ IsRoot(u) /\ Alternates(u) /\ IsTopicName(u)
  BY <1>3, <1>4, <1>5, <1>6, <1>7 DEF IsRoot
<1>9. QED
  BY <1>8 DEF u, v

\* A sequence that holds the members of p and then those of q is p \o q.
LEMMA ConcatIs ==
  ASSUME NEW p \in Seq(Word), NEW q \in Seq(Word), NEW s \in Seq(Word),
         Len(s) = Len(p) + Len(q),
         \A i \in 1..Len(p) : s[i] = p[i],
         \A i \in 1..Len(q) : s[Len(p) + i] = q[i]
  PROVE  p \o q = s
<1>1. /\ p \o q \in Seq(Word) /\ Len(p \o q) = Len(p) + Len(q)
      /\ \A i \in 1..Len(p) + Len(q) :
           (p \o q)[i] = IF i <= Len(p) THEN p[i] ELSE q[i - Len(p)]
  BY ConcatProperties, Zenon
<1> DEFINE c == p \o q
<1>2. /\ c \in Seq(Word) /\ Len(c) = Len(p) + Len(q)
      /\ \A i \in 1..Len(p) + Len(q) : c[i] = IF i <= Len(p) THEN p[i] ELSE q[i - Len(p)]
  BY <1>1
<1> HIDE DEF c
<1>3. Len(p) \in Nat /\ Len(q) \in Nat
  OBVIOUS
<1>4. ASSUME NEW i \in 1..Len(c) PROVE c[i] = s[i]
  <2>1. CASE i <= Len(p)
    BY <1>2, <1>3, <2>1
  <2>2. CASE ~(i <= Len(p))
    <3>1. i - Len(p) \in 1..Len(q) /\ Len(p) + (i - Len(p)) = i
      BY <1>2, <1>3, <2>2
    <3>2. s[Len(p) + (i - Len(p))] = q[i - Len(p)]
      BY <3>1
    <3>3. QED
      BY <1>2, <2>2, <3>1, <3>2
  <2>3. QED
    BY <2>1, <2>2
<1>5. c = s
  BY <1>2, <1>4, SeqEqual
<1>6. QED
  BY <1>5 DEF c

LEMMA SlashThenWord ==
  ASSUME NEW r \in Seq(Word), NEW w \in Word
  PROVE  (r \o <<Slash>>) \o <<w>> = r \o <<Slash, w>>
<1> DEFINE p == <<Slash>>
           q == <<w>>
           s == <<Slash, w>>
<1>1. /\ p \in Seq(Word) /\ Len(p) = 1 /\ p[1] = Slash
      /\ q \in Seq(Word) /\ Len(q) = 1 /\ q[1] = w
      /\ s \in Seq(Word) /\ Len(s) = 2 /\ s[1] = Slash /\ s[2] = w
  <2>1. p \in Seq(Word) /\ Len(p) = 1 /\ p[1] = Slash
    BY SlashIsWord
  <2>2. q \in Seq(Word) /\ Len(q) = 1 /\ q[1] = w
    OBVIOUS
  <2>3. s \in Seq(Word) /\ Len(s) = 2 /\ s[1] = Slash /\ s[2] = w
    BY SlashIsWord
  <2>4. QED
    BY <2>1, <2>2, <2>3
<1> HIDE DEF p, q, s
<1>2. p \o q = s
  <2>1. \A i \in 1..Len(p) : s[i] = p[i]
    BY <1>1
  <2>2. \A i \in 1..Len(q) : s[Len(p) + i] = q[i]
    BY <1>1
  <2>3. Len(s) = Len(p) + Len(q)
    BY <1>1
  <2>4. p \in Seq(Word) /\ q \in Seq(Word) /\ s \in Seq(Word)
    BY <1>1
  <2>5. QED
    BY <2>1, <2>2, <2>3, <2>4, ConcatIs
<1>3. (r \o p) \o q = r \o s
  <2>1. p \in Seq(Word) /\ q \in Seq(Word)
    BY <1>1
  <2>2. (r \o p) \o q = r \o (p \o q)
    BY <2>1, ConcatAssociative
  <2>3. QED
    BY <1>2, <2>2, Zenon
<1>4. QED
  BY <1>3 DEF p, q, s

\* The name of a node or of a topic, put together with the namespace.
LEMMA NamespacedTopicIs ==
  ASSUME config \in Configurations, WellSpelled, NEW w \in Word, w # Slash
  PROVE  LET r == RosNamespace(config.spelling)
             u == NamespacedTopic(RobotNamespace, Configured(w))
         IN  /\ r \in Seq(Word) /\ u = r \o <<Slash, w>>
             /\ u \in Seq(Word) /\ IsRoot(u) /\ Alternates(u) /\ IsTopicName(u)
<1> DEFINE r == RosNamespace(config.spelling)
<1>1. config.spelling \in Seq(STRING) /\ Alternates(config.spelling)
  BY ConfigurationsAssumption DEF WellSpelled
<1>2. TrimEnd(RobotNamespace) = r /\ r \in Seq(Word) /\ IsRoot(r) /\ Alternates(r)
  BY <1>1, RootsAgree DEF RobotNamespace
<1>3. TrimStart(Configured(w)) = <<w>> /\ <<w>> # <<>>
  BY TrimStartConfigured DEF Configured
<1>4. NamespacedTopic(RobotNamespace, Configured(w)) = (r \o <<Slash>>) \o <<w>>
  BY <1>2, <1>3 DEF NamespacedTopic
<1> HIDE DEF r
<1>5. NamespacedTopic(RobotNamespace, Configured(w)) = r \o <<Slash, w>>
  BY <1>2, <1>4, SlashThenWord
<1>6. QED
  BY <1>2, <1>5, WordAfterRoot DEF r

\* The topic that the manager listens to is the one that the node publishes.
LEMMA StatusTopicsAgree ==
  ASSUME config \in Configurations, WellSpelled, NEW d \in Devices
  PROVE  MonitoredTopic(d) = StatusTopic(d) /\ IsTopicName(MonitoredTopic(d))
<1> DEFINE r == RosNamespace(config.spelling)
           u == NamespacedTopic(RobotNamespace, Configured(d))
<1>1. d \in Word /\ d # Slash /\ "ready_to_arm" \in Word /\ "ready_to_arm" # Slash
  BY DevicesAssumption DEF Word, Slash
<1>2. /\ r \in Seq(Word) /\ u = r \o <<Slash, d>>
      /\ u \in Seq(Word) /\ IsRoot(u) /\ Alternates(u)
  BY <1>1, NamespacedTopicIs
<1>3. MonitoredTopic(d) = u \o <<Slash, "ready_to_arm">>
  BY DEF MonitoredTopic
<1>4. StatusTopic(d) = r \o <<Slash, d, Slash, "ready_to_arm">>
  BY DEF StatusTopic, PrivateTopic
<1> HIDE DEF r, u
<1>5. IsTopicName(MonitoredTopic(d))
  BY <1>1, <1>2, <1>3, WordAfterRoot
<1>6. (r \o <<Slash, d>>) \o <<Slash, "ready_to_arm">> = r \o <<Slash, d, Slash, "ready_to_arm">>
  <2> DEFINE p == <<Slash, d>>
             q == <<Slash, "ready_to_arm">>
             s == <<Slash, d, Slash, "ready_to_arm">>
  <2>1. /\ p \in Seq(Word) /\ Len(p) = 2 /\ p[1] = Slash /\ p[2] = d
        /\ q \in Seq(Word) /\ Len(q) = 2 /\ q[1] = Slash /\ q[2] = "ready_to_arm"
        /\ s \in Seq(Word) /\ Len(s) = 4
        /\ s[1] = Slash /\ s[2] = d /\ s[3] = Slash /\ s[4] = "ready_to_arm"
    <3>1. p \in Seq(Word) /\ Len(p) = 2 /\ p[1] = Slash /\ p[2] = d
      BY <1>1, SlashIsWord
    <3>2. q \in Seq(Word) /\ Len(q) = 2 /\ q[1] = Slash /\ q[2] = "ready_to_arm"
      BY <1>1, SlashIsWord
    <3>3. s \in Seq(Word) /\ Len(s) = 4
      BY <1>1, SlashIsWord
    <3>4. s[1] = Slash /\ s[2] = d /\ s[3] = Slash /\ s[4] = "ready_to_arm"
      OBVIOUS
    <3>5. QED
      BY <3>1, <3>2, <3>3, <3>4
  <2> HIDE DEF p, q, s
  <2>2. p \o q = s
    <3>1. \A i \in 1..Len(p) : s[i] = p[i]
      BY <2>1
    <3>2. \A i \in 1..Len(q) : s[Len(p) + i] = q[i]
      BY <2>1
    <3>3. Len(s) = Len(p) + Len(q)
      BY <2>1
    <3>4. p \in Seq(Word) /\ q \in Seq(Word) /\ s \in Seq(Word)
      BY <2>1
    <3>5. QED
      BY <3>1, <3>2, <3>3, <3>4, ConcatIs
  <2>3. (r \o p) \o q = r \o s
    <3>1. r \in Seq(Word) /\ p \in Seq(Word) /\ q \in Seq(Word)
      BY <1>2, <2>1
    <3>2. (r \o p) \o q = r \o (p \o q)
      BY <3>1, ConcatAssociative
    <3>3. QED
      BY <2>2, <3>2, Zenon
  <2>4. QED
    BY <2>3 DEF p, q, s
<1>7. QED
  BY <1>2, <1>3, <1>4, <1>5, <1>6

LEMMA CommandTopicIsName ==
  ASSUME config \in Configurations, WellSpelled
  PROVE  IsTopicName(CommandTopic)
<1>1. "arm_command" \in Word /\ "arm_command" # Slash
  <2>1. "arm_command" # "/"
    OBVIOUS
  <2>2. "arm_command" # Slash
    BY <2>1 DEF Slash
  <2>3. "arm_command" \in Word
    BY DEF Word
  <2>4. QED
    BY <2>2, <2>3
<1>2. QED
  BY <1>1, NamespacedTopicIs DEF CommandTopic

LEMMA ListedAreHeard ==
  ASSUME config \in Configurations, WellSpelled
  PROVE  Heard = Listed
<1>1. Heard \subseteq Listed
  BY HeardAreListed
<1>2. ASSUME NEW d \in Listed PROVE d \in Heard
  <2>1. config.listed \in Seq(Devices)
    BY ConfigurationsAssumption
  <2>2. d \in Devices
    BY <2>1, <1>2 DEF Listed, Range
  <2>3. MonitoredTopic(d) = StatusTopic(d)
    BY <2>2, StatusTopicsAgree
  <2>4. QED
    BY <1>2, <2>2, <2>3 DEF Heard
<1>3. QED
  BY <1>1, <1>2

\* Whatever the devices, their list and the namespace are, and with or without
\* slashes around the namespace and before the configured topics, the manager
\* hears every node of its list and no other.
THEOREM NamesAgree ==
  ASSUME WellSpelled
  PROVE  Spec => []TopicsMeet
<1> DEFINE Inv == config \in Configurations /\ hears = Listed
<1>1. Init => Inv
  BY ListedAreHeard DEF Init
<1>2. Inv /\ [Next]_vars => Inv'
  <2> SUFFICES ASSUME Inv, [Next]_vars PROVE Inv'
    OBVIOUS
  <2>1. config' = config /\ hears' = hears
    BY DEF vars, configVars, Next, Device, LaunchDevice, UpdateDevice, TakeReadiness,
       PublishReadiness, TakeReport, LaunchManager, UpdateManager, RequestArmed, RequestDisarmed,
       PublishCommand, LaunchMonitor, TakeCommand, Die
  <2>2. QED
    BY <2>1 DEF Listed
<1>3. Inv => TopicsMeet
  BY StatusTopicsAgree, CommandTopicIsName DEF TopicsMeet
<1>4. QED
  BY <1>1, <1>2, <1>3, PTL DEF Spec

-----------------------------------------------------------------------------
(* The queues.                                                             *)

\* A delivery keeps the type and the depth of a queue, and adds no message but
\* the one delivered.
LEMMA DeliveredQueue ==
  ASSUME NEW S, NEW q \in Seq(S), NEW m \in S, Len(q) <= Depth
  PROVE  /\ Delivered(q, m) \in Seq(S) /\ Len(Delivered(q, m)) <= Depth
         /\ \A k \in 1..Len(Delivered(q, m)) :
              Delivered(q, m)[k] \in {m} \cup { q[j] : j \in 1..Len(q) }
<1> DEFINE longer == Append(q, m)
<1>1. /\ longer \in Seq(S) /\ Len(longer) = Len(q) + 1 /\ Len(q) \in Nat
      /\ \A k \in 1..Len(longer) : longer[k] = m \/ (k \in 1..Len(q) /\ longer[k] = q[k])
  OBVIOUS
<1> HIDE DEF longer
<1>2. longer # <<>> /\ Depth \in Nat
  BY <1>1, BoundsAssumption
<1>3. CASE Len(longer) > Depth
  <2>1. /\ Tail(longer) \in Seq(S) /\ Len(Tail(longer)) = Len(longer) - 1
        /\ \A k \in 1..Len(Tail(longer)) : Tail(longer)[k] = longer[k + 1]
    BY <1>1, <1>2
  <2>2. \A k \in 1..Len(Tail(longer)) : k + 1 \in 1..Len(longer)
    BY <1>1, <2>1
  <2>3. Delivered(q, m) = Tail(longer)
    BY <1>3 DEF Delivered, longer
  <2>4. QED
    BY <1>1, <1>2, <2>1, <2>2, <2>3
<1>4. CASE ~(Len(longer) > Depth)
  <2>1. Delivered(q, m) = longer
    BY <1>4 DEF Delivered, longer
  <2>2. QED
    BY <1>1, <1>2, <1>4, <2>1
<1>5. QED
  BY <1>3, <1>4

LEMMA DeliveredReports ==
  ASSUME NEW q \in Seq(BOOLEAN), NEW m \in BOOLEAN, Len(q) <= Depth
  PROVE  \A k \in 1..Len(Delivered(q, m)) :
           Delivered(q, m)[k] \in {m} \cup { q[j] : j \in 1..Len(q) }
<1> DEFINE S == BOOLEAN
<1>1. q \in Seq(S) /\ m \in S
  OBVIOUS
<1> HIDE DEF S
<1>2. QED
  BY <1>1, DeliveredQueue

\* Taking a message leaves the rest of a queue.
LEMMA TakenQueue ==
  ASSUME NEW S, NEW q \in Seq(S), q # <<>>, Len(q) <= Depth
  PROVE  /\ Tail(q) \in Seq(S) /\ Len(Tail(q)) <= Depth
         /\ Head(q) \in S /\ 1 \in 1..Len(q) /\ Head(q) = q[1]
         /\ \A k \in 1..Len(Tail(q)) : \E j \in 1..Len(q) : Tail(q)[k] = q[j]
<1>1. /\ Tail(q) \in Seq(S) /\ Len(Tail(q)) = Len(q) - 1 /\ Len(q) \in Nat \ {0}
      /\ \A k \in 1..Len(Tail(q)) : Tail(q)[k] = q[k + 1]
  OBVIOUS
<1>2. Depth \in Nat
  BY BoundsAssumption
<1>3. \A k \in 1..Len(Tail(q)) : k + 1 \in 1..Len(q)
  BY <1>1
<1>4. Head(q) \in S /\ 1 \in 1..Len(q) /\ Head(q) = q[1]
  BY <1>1
<1>5. QED
  BY <1>1, <1>2, <1>3, <1>4

LEMMA TakenReports ==
  ASSUME NEW q \in Seq(BOOLEAN), q # <<>>, Len(q) <= Depth
  PROVE  /\ 1 \in 1..Len(q) /\ Head(q) = q[1]
         /\ \A k \in 1..Len(Tail(q)) : \E j \in 1..Len(q) : Tail(q)[k] = q[j]
<1> DEFINE S == BOOLEAN
<1>1. q \in Seq(S)
  OBVIOUS
<1> HIDE DEF S
<1>2. QED
  BY <1>1, TakenQueue

-----------------------------------------------------------------------------
(* Types.                                                                  *)

\* Every launch starts from a type-correct state.
LEMMA TypeInit == Init => TypeOK
<1> SUFFICES ASSUME Init PROVE TypeOK
  OBVIOUS
<1> USE DEF Init
<1>1. config \in Configurations /\ hears \subseteq Devices /\ connected \subseteq Subscribers
  BY DEF Heard
<1>2. up \subseteq Nodes /\ able \in [Devices -> BOOLEAN] /\ ready \in [Devices -> BOOLEAN]
  OBVIOUS
<1>3. statuses \in [Identities -> {"none", "no", "yes"}] /\ state \in States
  BY DEF States
<1>4. reports \in [Devices -> Seq(BOOLEAN)] /\ commands \in [Subscribers -> Seq(States)]
  OBVIOUS
<1>5. shown \in [Subscribers -> States \cup {"none"}] /\ reported \subseteq Devices
  OBVIOUS
<1>6. changes \in 0..MaxChanges /\ deaths \in 0..MaxDeaths
  BY BoundsAssumption
<1>7. QueuesOK
  BY BoundsAssumption DEF QueuesOK
<1> HIDE DEF Init
<1>8. QED
  BY <1>1, <1>2, <1>3, <1>4, <1>5, <1>6, <1>7 DEF TypeOK

LEMMA NewStateType ==
  ASSUME NEW heard, NEW old \in States
  PROVE  NewState(heard, old) \in States
BY DEF NewState, States

\* No step of a device disturbs the types.
LEMMA TypeDevice ==
  ASSUME TypeOK, NEW d \in Devices,
         LaunchDevice(d) \/ UpdateDevice(d) \/ TakeReadiness(d) \/ PublishReadiness(d)
  PROVE  TypeOK'
<1> USE DEF TypeOK, configVars, deviceVars, managerVars, commandVars, boundVars
<1>1. CASE LaunchDevice(d)
  <2>1. able' \in [Devices -> BOOLEAN]
    BY <1>1 DEF LaunchDevice
  <2>2. ready' \in [Devices -> BOOLEAN] /\ up' \subseteq Nodes
    BY <1>1, <2>1 DEF LaunchDevice, Nodes
  <2>3. QueuesOK'
    BY <1>1 DEF LaunchDevice, QueuesOK
  <2>4. QED
    BY <1>1, <2>1, <2>2, <2>3 DEF LaunchDevice
<1>2. CASE UpdateDevice(d)
  <2>1. changes' \in 0..MaxChanges
    BY <1>2, BoundsAssumption DEF UpdateDevice
  <2>2. able' \in [Devices -> BOOLEAN]
    BY <1>2 DEF UpdateDevice
  <2>3. QueuesOK'
    BY <1>2 DEF UpdateDevice, QueuesOK
  <2>4. QED
    BY <1>2, <2>1, <2>2, <2>3 DEF UpdateDevice
<1>3. CASE TakeReadiness(d)
  <2>1. ready' \in [Devices -> BOOLEAN]
    BY <1>3 DEF TakeReadiness
  <2>2. QueuesOK'
    BY <1>3 DEF TakeReadiness, QueuesOK
  <2>3. QED
    BY <1>3, <2>1, <2>2 DEF TakeReadiness
<1>4. CASE PublishReadiness(d)
  <2>1. reports[d] \in Seq(BOOLEAN) /\ ready[d] \in BOOLEAN /\ Len(reports[d]) <= Depth
    BY DEF QueuesOK
  <2>2. /\ Delivered(reports[d], ready[d]) \in Seq(BOOLEAN)
        /\ Len(Delivered(reports[d], ready[d])) <= Depth
    BY <2>1, DeliveredQueue
  <2>3. reports' \in [Devices -> Seq(BOOLEAN)]
    BY <1>4, <2>2 DEF PublishReadiness
  <2>4. QueuesOK'
    BY <1>4, <2>2 DEF PublishReadiness, QueuesOK
  <2>5. reported' \subseteq Devices
    BY <1>4 DEF PublishReadiness
  <2>6. QED
    BY <1>4, <2>3, <2>4, <2>5 DEF PublishReadiness
<1>5. QED
  BY <1>1, <1>2, <1>3, <1>4

\* No step of the manager does.
LEMMA TypeManager ==
  ASSUME TypeOK,
         \/ LaunchManager \/ UpdateManager \/ RequestArmed \/ RequestDisarmed \/ PublishCommand
         \/ \E d \in Devices : TakeReport(d)
  PROVE  TypeOK'
<1> USE DEF TypeOK, configVars, deviceVars, managerVars, commandVars, boundVars
<1>1. CASE LaunchManager
  <2>1. state' \in States
    BY <1>1, NewStateType DEF LaunchManager, States
  <2>2. statuses' \in [Identities -> {"none", "no", "yes"}] /\ up' \subseteq Nodes
    BY <1>1 DEF LaunchManager, Nodes
  <2>3. reports' \in [Devices -> Seq(BOOLEAN)]
    BY <1>1 DEF LaunchManager
  <2>4. QueuesOK'
    BY <1>1, BoundsAssumption DEF LaunchManager, QueuesOK
  <2>5. QED
    BY <1>1, <2>1, <2>2, <2>3, <2>4 DEF LaunchManager
<1>2. CASE UpdateManager
  <2>1. state' \in States /\ QueuesOK'
    BY <1>2, NewStateType DEF UpdateManager, QueuesOK
  <2>2. QED
    BY <1>2, <2>1 DEF UpdateManager
<1>3. CASE RequestArmed \/ RequestDisarmed
  <2>1. state' \in States /\ QueuesOK'
    BY <1>3 DEF RequestArmed, RequestDisarmed, States, QueuesOK
  <2>2. QED
    BY <1>3, <2>1 DEF RequestArmed, RequestDisarmed
<1>4. CASE PublishCommand
  <2>1. \A s \in Subscribers : /\ Delivered(commands[s], state) \in Seq(States)
                                /\ Len(Delivered(commands[s], state)) <= Depth
    BY DeliveredQueue DEF QueuesOK
  <2>2. commands' \in [Subscribers -> Seq(States)]
    BY <1>4, <2>1 DEF PublishCommand
  <2>3. QueuesOK'
    BY <1>4, <2>1 DEF PublishCommand, QueuesOK
  <2>4. QED
    BY <1>4, <2>2, <2>3 DEF PublishCommand
<1>5. ASSUME NEW d \in Devices, TakeReport(d) PROVE TypeOK'
  <2>1. Tail(reports[d]) \in Seq(BOOLEAN) /\ Len(Tail(reports[d])) <= Depth
    BY <1>5, TakenQueue DEF TakeReport, QueuesOK
  <2>2. reports' \in [Devices -> Seq(BOOLEAN)]
    BY <1>5, <2>1 DEF TakeReport
  <2>3. statuses' \in [Identities -> {"none", "no", "yes"}]
    BY <1>5 DEF TakeReport
  <2>4. QueuesOK'
    BY <1>5, <2>1 DEF TakeReport, QueuesOK
  <2>5. QED
    BY <1>5, <2>2, <2>3, <2>4 DEF TakeReport
<1>6. QED
  BY <1>1, <1>2, <1>3, <1>4, <1>5

\* Nor does a step of a subscriber, or a death.
LEMMA TypeSubscriber ==
  ASSUME TypeOK,
         \/ LaunchMonitor
         \/ \E s \in Subscribers : TakeCommand(s)
         \/ \E n \in Nodes : Die(n)
  PROVE  TypeOK'
<1> USE DEF TypeOK, configVars, deviceVars, managerVars, commandVars, boundVars
<1>1. CASE LaunchMonitor
  <2>1. up' \subseteq Nodes /\ QueuesOK'
    BY <1>1 DEF LaunchMonitor, Nodes, QueuesOK
  <2>2. QED
    BY <1>1, <2>1 DEF LaunchMonitor
<1>2. ASSUME NEW s \in Subscribers, TakeCommand(s) PROVE TypeOK'
  <2>1. /\ Tail(commands[s]) \in Seq(States) /\ Len(Tail(commands[s])) <= Depth
        /\ Head(commands[s]) \in States
    BY <1>2, TakenQueue DEF TakeCommand, QueuesOK
  <2>2. /\ commands' \in [Subscribers -> Seq(States)]
        /\ shown' \in [Subscribers -> States \cup {"none"}]
    BY <1>2, <2>1 DEF TakeCommand
  <2>3. QueuesOK'
    BY <1>2, <2>1 DEF TakeCommand, QueuesOK
  <2>4. QED
    BY <1>2, <2>2, <2>3 DEF TakeCommand
<1>3. ASSUME NEW n \in Nodes, Die(n) PROVE TypeOK'
  <2>1. deaths' \in 0..MaxDeaths /\ up' \subseteq Nodes
    BY <1>3, BoundsAssumption DEF Die
  <2>2. /\ commands' \in [Subscribers -> Seq(States)]
        /\ shown' \in [Subscribers -> States \cup {"none"}]
    BY <1>3 DEF Die
  <2>3. QueuesOK'
    BY <1>3, BoundsAssumption DEF Die, QueuesOK
  <2>4. QED
    BY <1>3, <2>1, <2>2, <2>3 DEF Die
<1>4. QED
  BY <1>1, <1>2, <1>3

LEMMA TypeStep == TypeOK /\ [Next]_vars => TypeOK'
<1> SUFFICES ASSUME TypeOK, [Next]_vars PROVE TypeOK'
  OBVIOUS
<1>1. CASE UNCHANGED vars
  BY <1>1, VarsAreAll DEF AllVars, TypeOK, QueuesOK
<1>2. CASE Next
  BY <1>2, TypeDevice, TypeManager, TypeSubscriber DEF Next, Device
<1>3. QED
  BY <1>1, <1>2

\* Every variable keeps its type, no queue outgrows its depth, and a node that
\* is down holds no command (queues of depth 10, KEEP_LAST).
THEOREM TypeCorrect == Spec => []TypeOK
BY TypeInit, TypeStep, PTL DEF Spec

-----------------------------------------------------------------------------
(* What the manager counts.  The yes of an identity stands for a device of *)
(* the list that has reported, so no yes is counted for more devices than  *)
(* there are, and there are as many as signals expected only if every one  *)
(* of the list has reported.                                               *)

ListsFit == \A c \in Configurations : Len(c.listed) < 256

Backed(heard, hearing) ==
  \A i \in Identities : heard[i] = "yes" => \E d \in hearing \cap reported : config.identity[d] = i

LEMMA ByteKeeps ==
  ASSUME NEW n \in Nat, n < 256
  PROVE  n % 256 = n
BY SMT

LEMMA PositionsAreFinite ==
  ASSUME NEW n \in Nat
  PROVE  IsFiniteSet(1..n) /\ Cardinality(1..n) = n
<1>1. n \in Int /\ 1 \in Int /\ (IF 1 > n THEN 0 ELSE (n - 1) + 1) = n
  OBVIOUS
<1>2. QED
  BY <1>1, FS_Interval

LEMMA AllReadyMeansReported ==
  ASSUME TypeOK, ListsFit, hears \subseteq Listed, NEW heard, Backed(heard, hears), AllReady(heard)
  PROVE  Listed \subseteq reported
<1> DEFINE answered == Listed \cap reported
           yes == { i \in Identities : heard[i] = "yes" }
           n   == Len(config.listed)
<1>1. config.listed \in Seq(Devices) /\ n \in Nat /\ n < 256
  BY ConfigurationsAssumption DEF TypeOK, ListsFit
<1>2. Cardinality(yes) >= n
  <2>1. n % 256 = n
    BY <1>1, ByteKeeps
  <2>2. QED
    BY <2>1 DEF AllReady, ExpectedSignals
<1>3. IsFiniteSet(Listed) /\ Cardinality(Listed) <= n
  <2>1. IsFiniteSet(1..n) /\ Cardinality(1..n) = n
    BY <1>1, PositionsAreFinite
  <2>2. config.listed \in Surjection(1..n, Listed)
    BY <1>1 DEF Surjection, Listed, Range
  <2>3. QED
    BY <2>1, <2>2, FS_Surjection
<1>4. IsFiniteSet(answered) /\ Cardinality(answered) <= Cardinality(Listed)
      /\ (Cardinality(Listed) = Cardinality(answered) => Listed = answered)
  BY <1>3, FS_Subset
<1>5. Cardinality(yes) <= Cardinality(answered)
  <2> DEFINE named == { config.identity[d] : d \in answered }
             f == [d \in answered |-> config.identity[d]]
  <2>1. f \in Surjection(answered, named)
    BY DEF Surjection
  <2>2. IsFiniteSet(named) /\ Cardinality(named) <= Cardinality(answered)
    BY <1>4, <2>1, FS_Surjection
  <2>3. yes \subseteq named
    BY DEF Backed
  <2>4. Cardinality(yes) <= Cardinality(named) /\ IsFiniteSet(yes)
    BY <2>2, <2>3, FS_Subset
  <2>5. /\ Cardinality(yes) \in Nat /\ Cardinality(named) \in Nat
        /\ Cardinality(answered) \in Nat
    BY <1>4, <2>2, <2>4, FS_CardinalityType
  <2> HIDE DEF named, f, yes, answered
  <2>6. QED
    BY <2>2, <2>4, <2>5
<1>6. Cardinality(answered) \in Nat /\ Cardinality(Listed) \in Nat /\ Cardinality(yes) \in Nat
  <2>1. yes \subseteq Identities /\ IsFiniteSet(Identities)
    BY DevicesAssumption
  <2>2. IsFiniteSet(yes)
    BY <2>1, FS_Subset
  <2>3. QED
    BY <1>3, <1>4, <2>2, FS_CardinalityType
<1> HIDE DEF yes, n
<1>7. Cardinality(Listed) = Cardinality(answered)
  <2> HIDE DEF answered
  <2>1. QED
    BY <1>1, <1>2, <1>3, <1>4, <1>5, <1>6
<1>8. QED
  BY <1>4, <1>7

\* Hence a state in which the robot can be armed follows all reports.
LEMMA NewStateMeansReported ==
  ASSUME TypeOK, ListsFit, hears \subseteq Listed, NEW heard, Backed(heard, hears), NEW old,
         NewState(heard, old) # "DISARMED_CANNOTARM"
  PROVE  Listed \subseteq reported
<1>1. AllReady(heard)
  BY DEF NewState
<1>2. QED
  BY <1>1, AllReadyMeansReported

-----------------------------------------------------------------------------
(* The inductive invariant: whatever lies in a queue, in the manager or in *)
(* a subscriber is backed by reports that have been published.             *)

ReportsBacked ==
  \A d \in Devices : \A k \in 1..Len(reports[d]) :
    d \in hears /\ (reports[d][k] => d \in reported)
StatusesBacked == Backed(statuses, hears)
AllReported == Listed \subseteq reported
StateBacked == state # "DISARMED_CANNOTARM" => AllReported
CommandsBacked ==
  \A s \in Subscribers : \A k \in 1..Len(commands[s]) : commands[s][k] = "ARMED" => AllReported

IInv ==
  /\ hears \subseteq Listed
  /\ StatusesBacked
  /\ ReportsBacked
  /\ StateBacked
  /\ CommandsBacked
  /\ ArmedOnlyWhenReported

LEMMA IInvInit == Init => IInv
<1> SUFFICES ASSUME Init PROVE IInv
  OBVIOUS
<1> USE DEF Init
<1>1. hears \subseteq Listed
  BY HeardAreListed
<1>2. StatusesBacked
  BY DEF StatusesBacked, Backed
<1>3. ReportsBacked /\ CommandsBacked
  <2>1. Len(<<>>) = 0 /\ 1..0 = {}
    OBVIOUS
  <2>2. /\ \A d \in Devices : 1..Len(reports[d]) = {}
        /\ \A s \in Subscribers : 1..Len(commands[s]) = {}
    BY <2>1
  <2>3. QED
    BY <2>2 DEF ReportsBacked, CommandsBacked
<1>4. StateBacked /\ ArmedOnlyWhenReported
  BY DEF StateBacked, ArmedOnlyWhenReported
<1>5. QED
  BY <1>1, <1>2, <1>3, <1>4 DEF IInv

\* What a device does leaves all but the reports alone, and adds to these only
\* what it has just published.
LEMMA IInvDevice ==
  ASSUME TypeOK, IInv, NEW d \in Devices,
         LaunchDevice(d) \/ UpdateDevice(d) \/ TakeReadiness(d) \/ PublishReadiness(d)
  PROVE  IInv'
<1> USE DEF IInv, configVars, deviceVars, managerVars, commandVars, boundVars
<1>1. /\ config' = config /\ hears' = hears /\ statuses' = statuses /\ state' = state
      /\ commands' = commands /\ shown' = shown /\ reported \subseteq reported'
  BY DEF LaunchDevice, UpdateDevice, TakeReadiness, PublishReadiness
<1>2. hears' \subseteq Listed' /\ (AllReported => AllReported')
  BY <1>1 DEF Listed, AllReported
<1>3. StatusesBacked'
  BY <1>1 DEF StatusesBacked, Backed
<1>4. StateBacked' /\ CommandsBacked' /\ ArmedOnlyWhenReported'
  BY <1>1, <1>2 DEF StateBacked, CommandsBacked, ArmedOnlyWhenReported, AllReported
<1>5. ReportsBacked'
  <2>1. CASE reports' = reports
    BY <1>1, <2>1 DEF ReportsBacked
  <2>2. CASE PublishReadiness(d) /\ reports' # reports
    <3>1. reports[d] \in Seq(BOOLEAN) /\ ready[d] \in BOOLEAN /\ Len(reports[d]) <= Depth
      BY DEF TypeOK, QueuesOK
    <3> DEFINE q == Delivered(reports[d], ready[d])
    <3>2. \A k \in 1..Len(q) : q[k] \in {ready[d]} \cup { reports[d][j] : j \in 1..Len(reports[d]) }
      BY <3>1, DeliveredReports
    <3>3. d \in hears /\ reports' = [reports EXCEPT ![d] = q]
      BY <2>2 DEF PublishReadiness
    <3>4. ready[d] => d \in reported'
      BY <2>2 DEF PublishReadiness
    <3> HIDE DEF q
    <3>5. ASSUME NEW k \in 1..Len(q), q[k] PROVE d \in reported'
      <4>1. CASE q[k] = ready[d]
        BY <4>1, <3>4, <3>5, Zenon
      <4>2. ASSUME NEW j \in 1..Len(reports[d]), q[k] = reports[d][j] PROVE d \in reported'
        <5>1. reports[d][j] => d \in reported
          BY DEF ReportsBacked
        <5>2. QED
          BY <1>1, <3>5, <4>2, <5>1, Zenon
      <4>3. QED
        BY <3>2, <4>1, <4>2
    <3>6. reports'[d] = q /\ \A e \in Devices : e # d => reports'[e] = reports[e]
      BY <3>3 DEF TypeOK
    <3>7. ASSUME NEW e \in Devices, NEW k \in 1..Len(reports'[e])
          PROVE  e \in hears /\ (reports'[e][k] => e \in reported')
      <4>1. CASE e = d
        BY <4>1, <3>3, <3>5, <3>6, <3>7
      <4>2. CASE e # d
        BY <4>2, <1>1, <3>6, <3>7 DEF ReportsBacked
      <4>3. QED
        BY <4>1, <4>2
    <3>8. QED
      BY <1>1, <3>7 DEF ReportsBacked
  <2>3. QED
    BY <2>1, <2>2 DEF LaunchDevice, UpdateDevice, TakeReadiness
<1>6. QED
  BY <1>1, <1>2, <1>3, <1>4, <1>5

\* The manager hears only what has been published, and reaches a state in which
\* it can arm only when every node of the list has been heard.
LEMMA IInvManager ==
  ASSUME TypeOK, ListsFit, IInv,
         \/ LaunchManager \/ UpdateManager \/ RequestArmed \/ RequestDisarmed
         \/ \E d \in Devices : TakeReport(d)
  PROVE  IInv'
<1> USE DEF configVars, deviceVars, managerVars, commandVars, boundVars
<1>1. /\ config' = config /\ hears' = hears /\ reported' = reported
      /\ commands' = commands /\ shown' = shown
  BY DEF LaunchManager, UpdateManager, RequestArmed, RequestDisarmed, TakeReport
<1>2. /\ hears' \subseteq Listed' /\ AllReported' = AllReported
      /\ CommandsBacked' /\ ArmedOnlyWhenReported'
  BY <1>1 DEF IInv, Listed, AllReported, CommandsBacked, ArmedOnlyWhenReported
<1>3. CASE LaunchManager
  <2> DEFINE none == [i \in Identities |-> "none"]
  <2>1. statuses' = none /\ state' = NewState(none, "DISARMED_CANNOTARM")
    BY <1>3 DEF LaunchManager
  <2>2. Backed(none, hears) /\ \A i \in Identities : none[i] # "yes"
    BY DEF Backed
  <2>3. StatusesBacked'
    BY <1>1, <2>1, <2>2 DEF StatusesBacked, Backed
  <2> HIDE DEF none
  <2>4. StateBacked'
    BY <1>2, <2>1, <2>2, NewStateMeansReported DEF StateBacked, AllReported, IInv
  <2>5. ReportsBacked'
    <3>1. \A d \in Devices : reports'[d] = <<>>
      BY <1>3 DEF LaunchManager
    <3>2. Len(<<>>) = 0 /\ 1..0 = {}
      OBVIOUS
    <3>3. QED
      BY <3>1, <3>2 DEF ReportsBacked
  <2>6. QED
    BY <1>2, <2>3, <2>4, <2>5 DEF IInv
<1>4. CASE UpdateManager
  <2>1. state' = NewState(statuses, state) /\ statuses' = statuses /\ reports' = reports
    BY <1>4 DEF UpdateManager
  <2>2. StateBacked'
    BY <1>2, <2>1, NewStateMeansReported DEF StateBacked, AllReported, StatusesBacked, IInv
  <2>3. StatusesBacked' /\ ReportsBacked'
    BY <1>1, <2>1 DEF StatusesBacked, Backed, ReportsBacked, IInv
  <2>4. QED
    BY <1>2, <2>2, <2>3 DEF IInv
<1>5. CASE RequestArmed \/ RequestDisarmed
  <2>1. statuses' = statuses /\ reports' = reports /\ state # "DISARMED_CANNOTARM"
    BY <1>5 DEF RequestArmed, RequestDisarmed
  <2>2. StateBacked'
    BY <1>2, <2>1 DEF StateBacked, IInv
  <2>3. StatusesBacked' /\ ReportsBacked'
    BY <1>1, <2>1 DEF StatusesBacked, Backed, ReportsBacked, IInv
  <2>4. QED
    BY <1>2, <2>2, <2>3 DEF IInv
<1>6. ASSUME NEW d \in Devices, TakeReport(d) PROVE IInv'
  <2> DEFINE q == reports[d]
             i == config.identity[d]
  <2>1. q \in Seq(BOOLEAN) /\ q # <<>> /\ Len(q) <= Depth
    BY <1>6 DEF TakeReport, TypeOK, QueuesOK
  <2>2. /\ 1 \in 1..Len(q) /\ Head(q) = q[1]
        /\ \A k \in 1..Len(Tail(q)) : \E j \in 1..Len(q) : Tail(q)[k] = q[j]
    BY <2>1, TakenReports
  <2>3. d \in hears /\ (Head(q) => d \in reported)
    BY <2>2 DEF IInv, ReportsBacked
  <2>4. state' = state /\ reports' = [reports EXCEPT ![d] = Tail(q)]
        /\ statuses' = [statuses EXCEPT ![i] = IF Head(q) THEN "yes" ELSE "no"]
    BY <1>6 DEF TakeReport
  <2>5. StateBacked'
    BY <1>2, <2>4 DEF StateBacked, IInv
  <2>6. StatusesBacked'
    <3> SUFFICES ASSUME NEW j \in Identities, statuses'[j] = "yes"
                 PROVE  \E e \in hears \cap reported : config.identity[e] = j
      BY <1>1 DEF StatusesBacked, Backed
    <3>1. CASE j = i
      <4>1. Head(q)
        BY <2>4, <3>1 DEF TypeOK
      <4>2. QED
        BY <2>3, <3>1, <4>1
    <3>2. CASE j # i
      <4>1. statuses[j] = "yes"
        BY <2>4, <3>2 DEF TypeOK
      <4>2. QED
        BY <4>1 DEF IInv, StatusesBacked, Backed
    <3>3. QED
      BY <3>1, <3>2
  <2>7. ReportsBacked'
    <3>1. reports'[d] = Tail(q) /\ \A e \in Devices : e # d => reports'[e] = reports[e]
      BY <2>4 DEF TypeOK
    <3>2. ASSUME NEW k \in 1..Len(Tail(q)), Tail(q)[k] PROVE d \in reported
      <4>1. PICK j \in 1..Len(q) : Tail(q)[k] = q[j]
        BY <2>2
      <4>2. q[j] => d \in reported
        BY DEF IInv, ReportsBacked
      <4>3. QED
        BY <3>2, <4>1, <4>2, Zenon
    <3>3. ASSUME NEW e \in Devices, NEW k \in 1..Len(reports'[e])
          PROVE  e \in hears /\ (reports'[e][k] => e \in reported)
      <4>1. CASE e = d
        BY <4>1, <2>3, <3>1, <3>2, <3>3
      <4>2. CASE e # d
        BY <4>2, <3>1, <3>3 DEF IInv, ReportsBacked
      <4>3. QED
        BY <4>1, <4>2
    <3>4. QED
      BY <1>1, <3>3 DEF ReportsBacked
  <2>8. QED
    BY <1>2, <2>5, <2>6, <2>7 DEF IInv
<1>7. QED
  BY <1>3, <1>4, <1>5, <1>6

\* A subscriber holds only what the manager has published while it could arm.
LEMMA IInvCommands ==
  ASSUME TypeOK, IInv,
         \/ PublishCommand \/ LaunchMonitor
         \/ \E s \in Subscribers : TakeCommand(s)
         \/ \E n \in Nodes : Die(n)
  PROVE  IInv'
<1> USE DEF configVars, deviceVars, managerVars, commandVars, boundVars
<1>1. /\ config' = config /\ hears' = hears /\ reported' = reported
      /\ statuses' = statuses /\ state' = state /\ reports' = reports
  BY DEF PublishCommand, LaunchMonitor, TakeCommand, Die
<1>2. /\ hears' \subseteq Listed' /\ AllReported' = AllReported
      /\ StatusesBacked' /\ ReportsBacked' /\ StateBacked'
  BY <1>1 DEF IInv, Listed, AllReported, StatusesBacked, Backed, ReportsBacked, StateBacked
<1>3. CASE LaunchMonitor
  BY <1>2, <1>3 DEF LaunchMonitor, IInv, CommandsBacked, ArmedOnlyWhenReported, AllReported
<1>4. CASE PublishCommand
  <2>1. ASSUME NEW s \in Subscribers, NEW k \in 1..Len(commands'[s]), commands'[s][k] = "ARMED"
        PROVE  AllReported
    <3>1. CASE commands'[s] = commands[s]
      BY <2>1, <3>1 DEF IInv, CommandsBacked
    <3>2. CASE commands'[s] # commands[s]
      <4>1. commands'[s] = Delivered(commands[s], state)
        BY <1>4, <3>2 DEF PublishCommand
      <4>2. commands[s] \in Seq(States) /\ state \in States /\ Len(commands[s]) <= Depth
        BY DEF TypeOK, QueuesOK
      <4>3. commands'[s][k] \in {state} \cup { commands[s][j] : j \in 1..Len(commands[s]) }
        BY <2>1, <4>1, <4>2, DeliveredQueue
      <4>4. QED
        BY <2>1, <4>3 DEF IInv, CommandsBacked, StateBacked
    <3>3. QED
      BY <3>1, <3>2
  <2>2. CommandsBacked' /\ ArmedOnlyWhenReported'
    BY <1>1, <1>2, <1>4, <2>1 DEF PublishCommand, IInv, CommandsBacked, ArmedOnlyWhenReported, Listed
  <2>3. QED
    BY <1>2, <2>2 DEF IInv
<1>5. ASSUME NEW s \in Subscribers, TakeCommand(s) PROVE IInv'
  <2> DEFINE q == commands[s]
  <2>1. q \in Seq(States) /\ q # <<>> /\ Len(q) <= Depth
    BY <1>5 DEF TakeCommand, TypeOK, QueuesOK
  <2>2. /\ 1 \in 1..Len(q) /\ Head(q) = q[1]
        /\ \A k \in 1..Len(Tail(q)) : \E j \in 1..Len(q) : Tail(q)[k] = q[j]
    BY <2>1, TakenQueue
  <2>3. /\ commands' = [commands EXCEPT ![s] = Tail(q)]
        /\ shown' = [shown EXCEPT ![s] = Head(q)]
    BY <1>5 DEF TakeCommand
  <2>4. \A j \in 1..Len(q) : q[j] = "ARMED" => AllReported
    BY DEF IInv, CommandsBacked
  <2> HIDE DEF q
  <2>5. CommandsBacked'
    BY <1>2, <2>2, <2>3, <2>4 DEF IInv, CommandsBacked, TypeOK
  <2>6. ArmedOnlyWhenReported'
    BY <1>2, <2>2, <2>3, <2>4 DEF IInv, ArmedOnlyWhenReported, AllReported, TypeOK
  <2>7. QED
    BY <1>2, <2>5, <2>6 DEF IInv
<1>6. ASSUME NEW n \in Nodes, Die(n) PROVE IInv'
  <2>1. ASSUME NEW s \in Subscribers
        PROVE  \/ commands'[s] = <<>> /\ shown'[s] = "none"
               \/ commands'[s] = commands[s] /\ shown'[s] = shown[s]
    <3>1. CASE s = n
      BY <1>6, <3>1 DEF Die
    <3>2. CASE s # n
      BY <1>6, <3>2 DEF Die
    <3>3. QED
      BY <3>1, <3>2
  <2>2. Len(<<>>) = 0 /\ 1..0 = {}
    OBVIOUS
  <2>3. CommandsBacked'
    BY <1>2, <2>1, <2>2 DEF IInv, CommandsBacked
  <2>4. ArmedOnlyWhenReported'
    BY <1>2, <2>1 DEF IInv, ArmedOnlyWhenReported, AllReported
  <2>5. QED
    BY <1>2, <2>3, <2>4 DEF IInv
<1>7. QED
  BY <1>3, <1>4, <1>5, <1>6

LEMMA IInvStep == TypeOK /\ ListsFit /\ IInv /\ [Next]_vars => IInv'
<1> SUFFICES ASSUME TypeOK, ListsFit, IInv, [Next]_vars PROVE IInv'
  OBVIOUS
<1>1. CASE UNCHANGED vars
  BY <1>1, VarsAreAll DEF AllVars, IInv, Listed, StatusesBacked, Backed, ReportsBacked,
     StateBacked, CommandsBacked, ArmedOnlyWhenReported, AllReported
<1>2. CASE Next
  BY <1>2, IInvDevice, IInvManager, IInvCommands DEF Next, Device
<1>3. QED
  BY <1>1, <1>2

\* An ARMED command in the hat or on the header, however old, follows a report of
\* every node of the list, whatever the devices, their identities, the namespace
\* and the deaths are, if the list is shorter than 256.
THEOREM ArmedOnlyAfterReports ==
  ASSUME ListsFit
  PROVE  Spec => []ArmedOnlyWhenReported
<1>1. Init => IInv
  BY IInvInit
<1>2. TypeOK /\ IInv /\ [Next]_vars => IInv'
  BY IInvStep
<1>3. IInv => ArmedOnlyWhenReported
  BY DEF IInv
<1>4. QED
  BY <1>1, <1>2, <1>3, TypeCorrect, PTL DEF Spec

===============================================================================
