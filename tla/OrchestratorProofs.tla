--------------------------- MODULE OrchestratorProofs ---------------------------
(***************************************************************************)
(* Proofs about the orchestrator, for every set of names, implementations  *)
(* and files: the types, the positions that the merge of two lists keeps,  *)
(* the protection of the baseline's implementations, what is launched and  *)
(* with which layer's parameter, and where a removal works.                *)
(***************************************************************************)
EXTENDS Orchestrator, SequenceTheorems, FiniteSetTheorems, WellFoundedInduction, TLAPS

\* Outside of a merge no list is being merged; a merge has an overlay.
MergedInMerges == phase \notin Merges => merged = Absent
HasOverlay     == Merging => MergeOverlay # Absent

\* What the registry says about the implementation of a baseline node is what
\* the baseline says.
RegistryKept ==
  \A n \in DOMAIN input.registry :
    /\ n \in DOMAIN registry
    /\ registry[n].launch = input.registry[n].launch
    /\ registry[n].executable = input.registry[n].executable

\* The elements of a name in a list, and those before a position.
ItemsOf(list, n) ==
  IF list = Absent THEN {} ELSE {list[i] : i \in {j \in DOMAIN list : list[j].name = n}}
Before(list, n, k) == {list[i] : i \in {j \in DOMAIN list : j < k /\ list[j].name = n}}

Keeps(list, n)      == \A i \in DOMAIN list : list[i].name = n => ~list[i].remove
RemovesLast(list, n, k) ==
  \E i \in DOMAIN list :
    /\ i < k /\ list[i].name = n /\ list[i].remove
    /\ \A j \in DOMAIN list : j < k /\ list[j].name = n => j <= i

\* What the elements a of a name in the baseline and b in the overlay come to.
Combined(a, b) ==
  IF b = {} THEN a ELSE IF a = {} THEN b ELSE {MergedItem(old, new) : old \in a, new \in b}

\* What the merge of the elements before k of the list overlay into the list
\* base has come to in the list result, for a name that base has at most once.
MergedUpTo(result, base, overlay, k) ==
  \A n \in Names : NamedOnce(base, n) =>
    /\ NamedOnce(result, n)
    /\ NamedOnce(overlay, n) /\ Keeps(overlay, n) =>
         ItemsOf(result, n) = Combined(ItemsOf(base, n), Before(overlay, n, k))
    /\ RemovesLast(overlay, n, k) => ItemsOf(result, n) = {}

\* What a merge of two lists, which may be absent, comes to.
MergedFrom(result, base, overlay) ==
  /\ base = Absent => result = overlay
  /\ overlay = Absent => result = base
  /\ base # Absent /\ overlay # Absent =>
       /\ result # Absent
       /\ MergedUpTo(result, base, overlay, Len(overlay) + 1)

MergeGoesOn ==
  Merging => MergeBase # Absent /\ MergedUpTo(merged, MergeBase, MergeOverlay, at)

Launching == {"launch", "returned"}
AfterHosts == {"maps"} \cup Launching
AfterEverywhere == {"host", "both"} \cup AfterHosts

\* The lists of the three merges, before and after each.
ListsMerged ==
  /\ phase \in {"select", "registry", "everywhere"} => assignment["everywhere"] = input.everywhere
  /\ phase \in {"select", "registry", "everywhere", "host"} => assignment["host"] = input.host
  /\ phase \in AfterEverywhere =>
       MergedFrom(assignment["everywhere"], input.everywhere, input.everywhereOverlay)
  /\ phase \in {"both"} \cup AfterHosts =>
       MergedFrom(assignment["host"], input.host, input.hostOverlay)
  /\ phase \in AfterHosts =>
       MergedFrom(assignment["both"], assignment["everywhere"], assignment["host"])

RegistryMerged ==
  /\ phase \in {"select", "registry"} => registry = input.registry
  /\ phase \in {"everywhere"} \cup AfterEverywhere =>
       IF input.registryOverlay = Absent THEN registry = input.registry
       ELSE /\ ~Changes(input.registryOverlay, input.registry)
            /\ registry = MergedRegistry(input.registry, input.registryOverlay)

\* The loops start at their first element, the launch loop with no action.
LoopsStart ==
  /\ phase \notin Launching \cup Ends => launched = <<>>
  /\ phase \notin Launching \cup Ends /\ merged = Absent => at = 1
  /\ phase = "returned" => at > Len(ActiveNodes)

\* The parameter of the action that an element leads to.
ParamOf(item, entry, via) ==
  LET param == Over(item.param, entry.param)
  IN  IF via = "launch_file" THEN Over(param, "launch file") ELSE param

Runs(entries, n) == n \in DOMAIN entries /\ Implementation(entries[n]) # Unset

\* A name that the list has at most once is launched once it is passed.
LaunchedSoFar ==
  phase \in Launching => \A n \in Names : NamedOnce(ActiveNodes, n) =>
    /\ \A i, j \in StartsOf(n) : i = j
    /\ StartsOf(n) # {} <=> Runs(registry, n) /\ Before(ActiveNodes, n, at) # {}
    /\ \A i \in StartsOf(n) : \E item \in ItemsOf(ActiveNodes, n) :
         launched[i].param = ParamOf(item, registry[n], launched[i].via)

IInv ==
  TypeOK /\ MergedInMerges /\ HasOverlay /\ IndexesFresh /\ RegistryKept /\ ProtectedKept

\* What the merges, the registry and the launch loop come to.
LInv == MergeGoesOn /\ ListsMerged /\ RegistryMerged /\ LoopsStart /\ LaunchedSoFar

-----------------------------------------------------------------------------
(* Lemmas about the operators. *)

\* A set of positions that is not empty has a last one.
LEMMA LastOf ==
  ASSUME NEW k \in Nat, NEW T, T \subseteq 1..k, T # {}
  PROVE  \E i \in T : \A j \in T : j <= i
<1> DEFINE D == {n \in Nat : k - n \in T}
<1>1. \A j \in T : j \in 1..k /\ k - j \in D
  <2> SUFFICES ASSUME NEW j \in T PROVE j \in 1..k /\ k - j \in D
    OBVIOUS
  <2>1. j \in 1..k
    OBVIOUS
  <2>2. k - j \in Nat /\ k - (k - j) = j
    BY <2>1
  <2> QED
    BY <2>1, <2>2
<1>2. D # {} /\ D \subseteq Nat
  BY <1>1
<1>3. PICK d \in D : \A e \in D : ~(<<e, d>> \in OpToRel(<, Nat))
  BY <1>2, NatLessThanWellFounded, WFMin
<1>4. \A e \in D : d <= e
  <2> TAKE e \in D
  <2>1. d \in Nat /\ e \in Nat
    OBVIOUS
  <2>2. ~(e < d)
    BY <1>3, <2>1 DEF OpToRel
  <2> QED
    BY <2>1, <2>2
<1>5. k - d \in T /\ d \in Nat
  OBVIOUS
<1>6. \A j \in T : j <= k - d
  <2> TAKE j \in T
  <2>1. d <= k - j /\ j \in 1..k
    BY <1>1, <1>4
  <2> QED
    BY <1>5, <2>1
<1> QED
  BY <1>5, <1>6

\* The positions computed anew hold elements of their names, all of them.
LEMMA IndexesOfFresh ==
  ASSUME NEW list \in Seq(Item)
  PROVE  /\ \A n \in DOMAIN IndexesOf(list) :
              /\ n \in Names
              /\ IndexesOf(list)[n] \in DOMAIN list
              /\ list[IndexesOf(list)[n]].name = n
         /\ \A i \in DOMAIN list : list[i].name \in DOMAIN IndexesOf(list)
<1> DEFINE Found == {list[i].name : i \in DOMAIN list}
           Last(n, i) == list[i].name = n /\ \A j \in DOMAIN list : list[j].name = n => j <= i
<1>1. DOMAIN IndexesOf(list) = Found
  BY DEF IndexesOf
<1>2. ASSUME NEW n \in Found
      PROVE  /\ n \in Names
             /\ IndexesOf(list)[n] \in DOMAIN list
             /\ list[IndexesOf(list)[n]].name = n
  <2>1. n \in Names
    <3>1. PICK i \in DOMAIN list : n = list[i].name
      OBVIOUS
    <3>2. list[i] \in Item
      OBVIOUS
    <3> QED
      BY <3>1, <3>2 DEF Item
  <2> DEFINE T == {i \in DOMAIN list : list[i].name = n}
  <2>2. T \subseteq 1..Len(list) /\ T # {} /\ Len(list) \in Nat
    OBVIOUS
  <2>3. \E i \in T : \A j \in T : j <= i
    BY <2>2, LastOf
  <2>4. \E i \in DOMAIN list : Last(n, i)
    BY <2>3
  <2>5. IndexesOf(list)[n] = CHOOSE i \in DOMAIN list : Last(n, i)
    BY DEF IndexesOf
  <2> HIDE DEF Last
  <2>6. IndexesOf(list)[n] \in DOMAIN list /\ Last(n, IndexesOf(list)[n])
    BY <2>4, <2>5
  <2> QED
    BY <2>1, <2>6 DEF Last
<1> QED
  BY <1>1, <1>2

\* Taking an element out of a list leaves a list.
LEMMA PopType ==
  ASSUME NEW list \in Seq(Item), NEW i \in DOMAIN list
  PROVE  Pop(list, i) \in Seq(Item)
<1>1. i \in 1..Len(list) /\ Len(list) \in Nat
  OBVIOUS
<1>2. SubSeq(list, 1, i - 1) \in Seq(Item)
  BY <1>1, SubSeqProperties
<1>3. SubSeq(list, i + 1, Len(list)) \in Seq(Item)
  BY <1>1, SubSeqProperties
<1> QED
  BY <1>2, <1>3 DEF Pop

\* Validated and merged, a registry keeps the implementations of the baseline.
LEMMA MergedRegistryKeeps ==
  ASSUME NEW base, NEW overlay, IsRegistry(base), IsRegistry(overlay), ~Changes(overlay, base)
  PROVE  /\ IsRegistry(MergedRegistry(base, overlay))
         /\ \A n \in DOMAIN base :
              /\ n \in DOMAIN MergedRegistry(base, overlay)
              /\ MergedRegistry(base, overlay)[n].launch = base[n].launch
              /\ MergedRegistry(base, overlay)[n].executable = base[n].executable
<1> DEFINE M == MergedRegistry(base, overlay)
<1>1. DOMAIN M = DOMAIN base \cup DOMAIN overlay
  BY DEF MergedRegistry
<1>2. DOMAIN M \subseteq Names
  BY <1>1 DEF IsRegistry
<1>3. \A n \in DOMAIN base : base[n] \in Entry
  BY DEF IsRegistry
<1>4. \A n \in DOMAIN overlay : overlay[n] \in Entry
  BY DEF IsRegistry
<1>5. \A b, o \in Entry : MergedEntry(b, o) \in Entry
  BY DEF MergedEntry, Entry, Over
<1>6. ASSUME NEW n \in DOMAIN M PROVE M[n] \in Entry
  BY <1>1, <1>3, <1>4, <1>5 DEF MergedRegistry
<1>7. M \in [DOMAIN M -> Entry]
  BY <1>6 DEF MergedRegistry
<1>8. ASSUME NEW n \in DOMAIN base
      PROVE  M[n].launch = base[n].launch /\ M[n].executable = base[n].executable
  <2>1. CASE n \notin DOMAIN overlay
    BY <2>1 DEF MergedRegistry
  <2>2. CASE n \in DOMAIN overlay
    <3>1. M[n] = MergedEntry(base[n], overlay[n])
      BY <2>2 DEF MergedRegistry
    <3>2. /\ overlay[n].launch \in {Unset, base[n].launch}
          /\ overlay[n].executable \in {Unset, base[n].executable}
      BY <2>2 DEF Changes
    <3> QED
      BY <3>1, <3>2 DEF MergedEntry, Over
  <2> QED
    BY <2>1, <2>2
<1> HIDE DEF M
<1>9. IsRegistry(M)
  BY <1>2, <1>7 DEF IsRegistry
<1> QED
  BY <1>1, <1>8, <1>9 DEF M

-----------------------------------------------------------------------------
(* Lemmas about the elements of a name. *)

LEMMA InItems ==
  ASSUME NEW list \in Seq(Item), NEW n
  PROVE  /\ list # Absent
         /\ \A item : item \in ItemsOf(list, n) <=>
              \E i \in DOMAIN list : list[i].name = n /\ item = list[i]
<1>1. list # Absent
  BY AbsentAssumption
<1>2. ItemsOf(list, n) = {list[i] : i \in {j \in DOMAIN list : list[j].name = n}}
  BY <1>1 DEF ItemsOf
<1> QED
  BY <1>1, <1>2

\* Two lists that have the same elements of a name.
LEMMA SameItems ==
  ASSUME NEW a \in Seq(Item), NEW b \in Seq(Item), NEW n,
         \A i \in DOMAIN a : a[i].name = n => \E j \in DOMAIN b : b[j] = a[i],
         \A j \in DOMAIN b : b[j].name = n => \E i \in DOMAIN a : a[i] = b[j]
  PROVE  ItemsOf(a, n) = ItemsOf(b, n)
<1>1. \A item \in ItemsOf(a, n) : item \in ItemsOf(b, n)
  BY InItems
<1>2. \A item \in ItemsOf(b, n) : item \in ItemsOf(a, n)
  BY InItems
<1> QED
  BY <1>1, <1>2

LEMMA InBefore ==
  ASSUME NEW list, NEW n, NEW k
  PROVE  \A item : item \in Before(list, n, k) <=>
           \E i \in DOMAIN list : i < k /\ list[i].name = n /\ item = list[i]
BY DEF Before

\* The list without its element p has the elements before p and, one position
\* further down, those after it.
LEMMA PopElements ==
  ASSUME NEW list \in Seq(Item), NEW p \in DOMAIN list
  PROVE  /\ Pop(list, p) \in Seq(Item)
         /\ \A i \in DOMAIN list : i < p => i \in DOMAIN Pop(list, p) /\ Pop(list, p)[i] = list[i]
         /\ \A i \in DOMAIN list : p < i => /\ i - 1 \in DOMAIN Pop(list, p)
                                            /\ Pop(list, p)[i - 1] = list[i]
         /\ \A i \in DOMAIN Pop(list, p) :
              \/ i < p /\ i \in DOMAIN list /\ Pop(list, p)[i] = list[i]
              \/ p <= i /\ i + 1 \in DOMAIN list /\ Pop(list, p)[i] = list[i + 1]
<1> DEFINE left  == SubSeq(list, 1, p - 1)
           right == SubSeq(list, p + 1, Len(list))
<1>1. p \in 1..Len(list) /\ Len(list) \in Nat
  OBVIOUS
<1>2. left \in Seq(Item) /\ Len(left) = p - 1 /\ \A i \in 1..p - 1 : left[i] = list[i]
  BY <1>1, SubSeqProperties
<1>3. right \in Seq(Item) /\ Len(right) = Len(list) - p
      /\ \A i \in 1..Len(list) - p : right[i] = list[p + i]
  BY <1>1, SubSeqProperties
<1>4. Pop(list, p) = left \o right
  BY DEF Pop
<1> HIDE DEF left, right
<1>5. left \o right \in Seq(Item) /\ Len(left \o right) = Len(list) - 1
  BY <1>1, <1>2, <1>3
<1>6. \A i \in 1..p - 1 : (left \o right)[i] = list[i]
  BY <1>1, <1>2, <1>3
<1>7. \A i \in p..Len(list) - 1 : (left \o right)[i] = list[i + 1]
  <2> SUFFICES ASSUME NEW i \in p..Len(list) - 1 PROVE (left \o right)[i] = list[i + 1]
    OBVIOUS
  <2>1. i - Len(left) \in 1..Len(right) /\ p + (i - Len(left)) = i + 1 /\ i \in Nat
    BY <1>1, <1>2, <1>3
  <2>2. i > Len(left) /\ i <= Len(left) + Len(right)
    BY <1>1, <1>2, <1>3
  <2>3. (left \o right)[i] = right[i - Len(left)]
    BY <1>2, <1>3, <2>1, <2>2
  <2> QED
    BY <1>3, <2>1, <2>3
<1>8. DOMAIN (left \o right) = 1..Len(list) - 1 /\ DOMAIN list = 1..Len(list)
  BY <1>5
<1> DEFINE less == left \o right
<1>9. /\ less \in Seq(Item) /\ DOMAIN less = 1..Len(list) - 1 /\ DOMAIN list = 1..Len(list)
      /\ \A i \in 1..p - 1 : less[i] = list[i]
      /\ \A i \in p..Len(list) - 1 : less[i] = list[i + 1]
  BY <1>5, <1>6, <1>7, <1>8
<1> HIDE DEF less
<1>10. \A i \in DOMAIN list : i < p => i \in DOMAIN less /\ less[i] = list[i]
  <2> TAKE i \in DOMAIN list
  <2>1. i < p => i \in 1..p - 1 /\ i \in 1..Len(list) - 1
    BY <1>1, <1>9
  <2> QED
    BY <1>9, <2>1
<1>11. \A i \in DOMAIN list :
         p < i => i - 1 \in DOMAIN less /\ less[i - 1] = list[i]
  <2> TAKE i \in DOMAIN list
  <2>1. p < i => i - 1 \in p..Len(list) - 1 /\ i - 1 \in 1..Len(list) - 1 /\ (i - 1) + 1 = i
    BY <1>1, <1>9
  <2> QED
    BY <1>9, <2>1
<1>12. \A i \in DOMAIN less :
         \/ i < p /\ i \in DOMAIN list /\ less[i] = list[i]
         \/ p <= i /\ i + 1 \in DOMAIN list /\ less[i] = list[i + 1]
  <2> TAKE i \in DOMAIN less
  <2>1. i \in 1..Len(list) - 1
    BY <1>9
  <2>2. CASE i < p
    <3>1. i \in 1..p - 1 /\ i \in DOMAIN list
      BY <1>1, <1>9, <2>1, <2>2
    <3> QED
      BY <1>9, <2>2, <3>1
  <2>3. CASE p <= i
    <3>1. i \in p..Len(list) - 1 /\ i + 1 \in DOMAIN list
      BY <1>1, <1>9, <2>1, <2>3
    <3> QED
      BY <1>9, <2>3, <3>1
  <2> QED
    BY <1>1, <2>1, <2>2, <2>3
<1> QED
  BY <1>4, <1>9, <1>10, <1>11, <1>12 DEF less

\* Taking out the element of another name.
LEMMA PopOther ==
  ASSUME NEW list \in Seq(Item), NEW p \in DOMAIN list, NEW n, list[p].name # n,
         NamedOnce(list, n)
  PROVE  NamedOnce(Pop(list, p), n) /\ ItemsOf(Pop(list, p), n) = ItemsOf(list, n)
<1> DEFINE less == Pop(list, p)
<1>1. less \in Seq(Item) /\ list # Absent
  BY PopElements, InItems
<1>2. \A i \in DOMAIN list : i # p => \E j \in DOMAIN less : less[j] = list[i]
  <2> SUFFICES ASSUME NEW i \in DOMAIN list, i # p PROVE \E j \in DOMAIN less : less[j] = list[i]
    OBVIOUS
  <2>1. i < p \/ p < i
    OBVIOUS
  <2> QED
    BY <2>1, PopElements
<1>3. \A j \in DOMAIN less : less[j].name = n =>
        \E i \in DOMAIN list : list[i] = less[j] /\ (i = j \/ i = j + 1) /\ (i = j <=> j < p)
  BY PopElements
<1>4. NamedOnce(less, n)
  <2> SUFFICES ASSUME NEW i \in DOMAIN less, NEW j \in DOMAIN less,
                      less[i].name = n, less[j].name = n
               PROVE  i = j
    BY DEF NamedOnce
  <2>1. PICK a \in DOMAIN list : list[a] = less[i] /\ (a = i \/ a = i + 1) /\ (a = i <=> i < p)
    BY <1>3
  <2>2. PICK b \in DOMAIN list : list[b] = less[j] /\ (b = j \/ b = j + 1) /\ (b = j <=> j < p)
    BY <1>3
  <2>3. a = b
    BY <1>1, <2>1, <2>2 DEF NamedOnce
  <2>4. i \in Nat /\ j \in Nat /\ p \in Nat
    BY <1>1
  <2> QED
    BY <2>1, <2>2, <2>3, <2>4
<1> HIDE DEF less
<1>5. \A i \in DOMAIN list : list[i].name = n => \E j \in DOMAIN less : less[j] = list[i]
  BY <1>2
<1>6. \A j \in DOMAIN less : less[j].name = n => \E i \in DOMAIN list : list[i] = less[j]
  BY <1>3
<1>7. ItemsOf(less, n) = ItemsOf(list, n)
  BY <1>1, <1>5, <1>6, SameItems
<1> QED
  BY <1>4, <1>7 DEF less

\* Taking out the only element of a name.
LEMMA PopThis ==
  ASSUME NEW list \in Seq(Item), NEW p \in DOMAIN list, NEW n, list[p].name = n,
         NamedOnce(list, n)
  PROVE  NamedOnce(Pop(list, p), n) /\ ItemsOf(Pop(list, p), n) = {}
<1> DEFINE less == Pop(list, p)
<1>1. less \in Seq(Item) /\ list # Absent
  BY PopElements, InItems
<1>2. \A j \in DOMAIN less : less[j].name # n
  <2> SUFFICES ASSUME NEW j \in DOMAIN less, less[j].name = n PROVE FALSE
    OBVIOUS
  <2>1. \E i \in DOMAIN list : list[i] = less[j] /\ i # p
    <3>1. p \in Nat /\ j \in Nat
      BY <1>1
    <3>2. CASE j < p /\ j \in DOMAIN list /\ less[j] = list[j]
      BY <3>1, <3>2
    <3>3. CASE p <= j /\ j + 1 \in DOMAIN list /\ less[j] = list[j + 1]
      BY <3>1, <3>3
    <3> QED
      BY <3>2, <3>3, PopElements
  <2> QED
    BY <1>1, <2>1 DEF NamedOnce
<1> HIDE DEF less
<1>3. ItemsOf(less, n) = {}
  BY <1>1, <1>2, InItems
<1> QED
  BY <1>2, <1>3 DEF NamedOnce, less

\* Changing the element of another name, and the element of a name.
LEMMA ChangeItem ==
  ASSUME NEW list \in Seq(Item), NEW p \in DOMAIN list, NEW item \in Item,
         item.name = list[p].name, NEW n, NamedOnce(list, n),
         NEW changed \in Seq(Item), DOMAIN changed = DOMAIN list,
         \A i \in DOMAIN list : changed[i] = IF i = p THEN item ELSE list[i]
  PROVE  /\ NamedOnce(changed, n)
         /\ ItemsOf(changed, n) = IF list[p].name = n THEN {item} ELSE ItemsOf(list, n)
         /\ list[p].name = n => ItemsOf(list, n) = {list[p]}
<1>1. list # Absent
  BY InItems
<1>2. NamedOnce(changed, n)
  BY <1>1 DEF NamedOnce
<1>3. CASE list[p].name = n
  <2>1. \A i \in DOMAIN list : list[i].name = n <=> i = p
    BY <1>1, <1>3 DEF NamedOnce
  <2>2. ItemsOf(list, n) = {list[p]}
    BY <2>1, InItems
  <2>3. ItemsOf(changed, n) = {item}
    BY <1>1, <1>3, <2>1, InItems
  <2> QED
    BY <1>2, <1>3, <2>2, <2>3
<1>4. CASE list[p].name # n
  <2>1. \A i \in DOMAIN changed : changed[i].name = n => \E j \in DOMAIN list : list[j] = changed[i]
    BY <1>1, <1>4
  <2>2. \A i \in DOMAIN list : list[i].name = n => \E j \in DOMAIN changed : changed[j] = list[i]
    BY <1>1, <1>4
  <2>3. ItemsOf(changed, n) = ItemsOf(list, n)
    BY <1>1, <2>1, <2>2, SameItems
  <2> QED
    BY <1>2, <1>4, <2>3
<1> QED
  BY <1>3, <1>4

\* Adding an element, of another name or of one that the list does not have.
LEMMA AppendElement ==
  ASSUME NEW list \in Seq(Item), NEW item \in Item, NEW n, NamedOnce(list, n),
         \A i \in DOMAIN list : list[i].name # item.name
  PROVE  LET more == Append(list, item)
         IN  /\ NamedOnce(more, n)
             /\ ItemsOf(more, n) = IF item.name = n THEN {item} ELSE ItemsOf(list, n)
             /\ item.name = n => ItemsOf(list, n) = {}
<1> DEFINE more == Append(list, item)
<1>1. /\ more \in Seq(Item) /\ list # Absent /\ Len(list) \in Nat
      /\ DOMAIN more = DOMAIN list \cup {Len(list) + 1}
  BY InItems
<1>2. more[Len(list) + 1] = item /\ \A i \in DOMAIN list : more[i] = list[i]
  OBVIOUS
<1> HIDE DEF more
<1>3. CASE item.name = n
  <2>1. ItemsOf(list, n) = {}
    BY <1>3, InItems
  <2>2. \A i \in DOMAIN more : more[i].name = n <=> i = Len(list) + 1
    BY <1>1, <1>2, <1>3
  <2>3. ItemsOf(more, n) = {item}
    BY <1>1, <1>2, <2>2, InItems
  <2> QED
    BY <1>3, <2>1, <2>2, <2>3 DEF more, NamedOnce
<1>4. CASE item.name # n
  <2>1. \A i \in DOMAIN more : more[i].name = n => i \in DOMAIN list /\ more[i] = list[i]
    BY <1>1, <1>2, <1>4
  <2>2. \A i \in DOMAIN list : list[i].name = n => \E j \in DOMAIN more : more[j] = list[i]
    BY <1>1, <1>2
  <2>3. ItemsOf(more, n) = ItemsOf(list, n)
    BY <1>1, <2>1, <2>2, SameItems
  <2>4. NamedOnce(more, n)
    BY <1>1, <2>1 DEF NamedOnce
  <2> QED
    BY <1>4, <2>3, <2>4 DEF more
<1> QED
  BY <1>3, <1>4

\* What the loop has passed, one element later.
LEMMA PassOther ==
  ASSUME NEW list \in Seq(Item), NEW k \in DOMAIN list, NEW n, list[k].name # n
  PROVE  /\ Before(list, n, k + 1) = Before(list, n, k)
         /\ RemovesLast(list, n, k + 1) => RemovesLast(list, n, k)
<1>1. k \in Nat /\ \A i \in DOMAIN list : i \in Nat
  OBVIOUS
<1>2. \A i \in DOMAIN list : list[i].name = n => (i < k + 1 <=> i < k)
  BY <1>1
<1>3. Before(list, n, k + 1) = Before(list, n, k)
  <2>1. \A item \in Before(list, n, k + 1) : item \in Before(list, n, k)
    BY <1>2, InBefore
  <2>2. \A item \in Before(list, n, k) : item \in Before(list, n, k + 1)
    BY <1>2, InBefore
  <2> QED
    BY <2>1, <2>2
<1>4. RemovesLast(list, n, k + 1) => RemovesLast(list, n, k)
  BY <1>2 DEF RemovesLast
<1> QED
  BY <1>3, <1>4

LEMMA PassThis ==
  ASSUME NEW list \in Seq(Item), NEW k \in DOMAIN list, NEW n, list[k].name = n
  PROVE  /\ NamedOnce(list, n) => Before(list, n, k) = {} /\ Before(list, n, k + 1) = {list[k]}
         /\ ~list[k].remove => ~RemovesLast(list, n, k + 1)
<1>1. k \in Nat /\ (\A i \in DOMAIN list : i \in Nat) /\ list # Absent
  BY InItems
<1>2. ASSUME NamedOnce(list, n)
      PROVE  Before(list, n, k) = {} /\ Before(list, n, k + 1) = {list[k]}
  <2>1. \A i \in DOMAIN list : list[i].name = n <=> i = k
    BY <1>1, <1>2 DEF NamedOnce
  <2>2. k < k + 1 /\ ~(k < k)
    BY <1>1
  <2> QED
    BY <2>1, <2>2, InBefore
<1>3. ASSUME ~list[k].remove, RemovesLast(list, n, k + 1) PROVE FALSE
  <2>1. PICK i \in DOMAIN list :
          /\ i < k + 1 /\ list[i].remove
          /\ \A j \in DOMAIN list : j < k + 1 /\ list[j].name = n => j <= i
    BY <1>3 DEF RemovesLast
  <2>2. k <= i /\ i < k + 1
    BY <1>1, <2>1
  <2>3. i = k
    BY <1>1, <2>2
  <2> QED
    BY <1>3, <2>1, <2>3
<1> QED
  BY <1>2, <1>3

-----------------------------------------------------------------------------
(* The invariant. *)

\* The initial states satisfy the invariant.
LEMMA InitEstablishes ==
  Init => IInv
<1> SUFFICES ASSUME Init PROVE IInv
  OBVIOUS
<1> USE DEF Init
<1>1. IsInput(input)
  BY InputsAssumption
<1>2. TypeOK
  <2>1. IsRegistry(registry)
    BY <1>1 DEF IsInput
  <2>2. assignment \in [Merges -> List]
    BY <1>1 DEF IsInput, List, Merges
  <2>3. merged \in List /\ DOMAIN indexes = {} /\ launched \in Seq(Action)
    BY DEF List
  <2> QED
    BY <1>1, <2>1, <2>2, <2>3 DEF TypeOK, Working
<1>3. ~Merging /\ MergedInMerges
  BY DEF Merging, MergedInMerges, Merges
<1>4. RegistryKept /\ ProtectedKept
  BY DEF RegistryKept, ProtectedKept
<1> QED
  BY <1>2, <1>3, <1>4 DEF IInv, HasOverlay, IndexesFresh

\* What the loop over the overlay reads is an element.
LEMMA OverlayingType ==
  ASSUME TypeOK, HasOverlay, InLoop
  PROVE  /\ merged \in Seq(Item)
         /\ MergeOverlay \in Seq(Item)
         /\ Overlaying \in Item
<1>1. {input.everywhereOverlay, input.hostOverlay, assignment["host"]} \subseteq List
  BY DEF TypeOK, IsInput, Merges
<1>2. MergeOverlay \in List
  BY <1>1 DEF MergeOverlay
<1>3. MergeOverlay \in Seq(Item)
  BY <1>2 DEF List, HasOverlay, InLoop
<1>4. merged \in Seq(Item)
  BY DEF TypeOK, List, InLoop, Merging
<1>5. at \in 1..Len(MergeOverlay)
  BY <1>3 DEF TypeOK, InLoop
<1> QED
  BY <1>3, <1>4, <1>5 DEF Overlaying

\* The list that a merge starts from is a list.
LEMMA MergeBaseType ==
  ASSUME TypeOK, phase \in Merges
  PROVE  MergeBase \in List /\ MergeOverlay \in List
<1>1. {input.everywhereOverlay, input.hostOverlay} \subseteq List
  BY DEF TypeOK, IsInput
<1>2. \A m \in Merges : assignment[m] \in List
  BY DEF TypeOK
<1> QED
  BY <1>1, <1>2 DEF MergeBase, MergeOverlay, Merges

\* A launched action, for a node that is registered with an implementation.
LEMMA LaunchKeeps ==
  ASSUME TypeOK, RegistryKept, ProtectedKept, Visiting,
         NodeItem.name \in DOMAIN registry,
         NEW via \in {"launch_file", "executable"}, NEW param \in Values,
         Implementation(NodeDef) # Unset,
         Launch(via, Implementation(NodeDef), param)
  PROVE  /\ launched' \in Seq(Action)
         /\ \A i \in DOMAIN launched' :
              launched'[i].name \in DOMAIN input.registry =>
                launched'[i].impl = Implementation(input.registry[launched'[i].name])
<1> DEFINE new == [name |-> NodeItem.name, via |-> via, impl |-> Implementation(NodeDef),
                   param |-> param, resolved |-> Resolved(NodeParam)]
<1>1. NodeDef \in Entry /\ NodeItem.name \in Names
  BY DEF TypeOK, IsRegistry, NodeDef
<1>2. Implementation(NodeDef) \in Impls
  BY <1>1 DEF Implementation, Entry
<1>3. Resolved(NodeParam) \in {"nothing", "literal", "baseline", "overlay"}
  BY DEF Resolved
<1>4. new \in Action
  BY <1>1, <1>2, <1>3 DEF Action
<1>5. launched' = Append(launched, new)
  BY DEF Launch
<1>6. NodeItem.name \in DOMAIN input.registry =>
        Implementation(NodeDef) = Implementation(input.registry[NodeItem.name])
  BY DEF RegistryKept, Implementation, NodeDef
<1>7. new.name = NodeItem.name /\ new.impl = Implementation(NodeDef)
  OBVIOUS
<1> HIDE DEF new
<1>8. launched \in Seq(Action)
  BY DEF TypeOK
<1>9. launched' \in Seq(Action)
  BY <1>4, <1>5, <1>8
<1>10. \A i \in DOMAIN launched' :
          launched'[i] = new \/ (i \in DOMAIN launched /\ launched'[i] = launched[i])
  BY <1>4, <1>5, <1>8
<1> QED
  BY <1>6, <1>7, <1>9, <1>10 DEF ProtectedKept

-----------------------------------------------------------------------------
(* Steps. *)

\* Steps outside of the merges and the launch loop: they keep the lists and
\* the launch actions.
LEMMA QuietStep ==
  ASSUME IInv, merged = Absent,
         UNCHANGED <<input, registry, mergeVars, launched>>,
         assignment' \in [Merges -> List],
         phase' \in Working \cup Ends,
         aliases' \subseteq {"baseline", "overlay"}
  PROVE  IInv'
<1> USE DEF IInv, mergeVars
<1>1. TypeOK'
  BY DEF TypeOK
<1>2. ~Merging' /\ MergedInMerges'
  BY DEF Merging, MergedInMerges
<1>3. RegistryKept' /\ ProtectedKept'
  BY DEF RegistryKept, ProtectedKept, Implementation
<1> QED
  BY <1>1, <1>2, <1>3 DEF HasOverlay, IndexesFresh

LEMMA MergeRegistryStep ==
  ASSUME IInv, MergeRegistry
  PROVE  IInv'
<1> USE DEF IInv
<1>1. merged = Absent
  BY DEF MergeRegistry, MergedInMerges, Merges
<1>2. phase' \in Working \cup Ends
  BY DEF MergeRegistry, Working, Merges, Ends
<1>3. CASE UNCHANGED registry
  <2>1. assignment' \in [Merges -> List] /\ aliases' \subseteq {"baseline", "overlay"}
    BY DEF MergeRegistry, TypeOK
  <2> QED
    BY <1>1, <1>2, <1>3, <2>1, QuietStep DEF MergeRegistry
<1>4. CASE /\ input.registryOverlay # Absent
           /\ ~Changes(input.registryOverlay, registry)
           /\ registry' = MergedRegistry(registry, input.registryOverlay)
  <2>1. IsRegistry(registry) /\ IsRegistry(input.registryOverlay)
    BY <1>4 DEF TypeOK, IsInput
  <2>2. /\ IsRegistry(registry')
        /\ \A n \in DOMAIN registry :
             /\ n \in DOMAIN registry'
             /\ registry'[n].launch = registry[n].launch
             /\ registry'[n].executable = registry[n].executable
    BY <1>4, <2>1, MergedRegistryKeeps
  <2>3. UNCHANGED <<input, assignment, mergeVars, aliases, launched>>
    BY DEF MergeRegistry
  <2>4. TypeOK'
    BY <1>2, <2>2, <2>3 DEF TypeOK, mergeVars
  <2>5. ~Merging' /\ MergedInMerges'
    BY <1>1, <2>3 DEF Merging, MergedInMerges, mergeVars
  <2>6. RegistryKept'
    BY <2>2, <2>3 DEF RegistryKept
  <2>7. ProtectedKept'
    BY <2>3 DEF ProtectedKept, Implementation
  <2> QED
    BY <2>4, <2>5, <2>6, <2>7 DEF HasOverlay, IndexesFresh
<1> QED
  BY <1>3, <1>4 DEF MergeRegistry

LEMMA MergeWholeStep ==
  ASSUME IInv, MergeWhole
  PROVE  IInv'
<1>1. TypeOK /\ merged = Absent /\ phase \in Merges
  BY DEF IInv, MergeWhole
<1>2. MergeBase \in List /\ MergeOverlay \in List
  BY <1>1, MergeBaseType
<1>3. assignment' \in [Merges -> List]
  BY <1>1, <1>2 DEF MergeWhole, TypeOK
<1>4. phase' \in Working \cup Ends
  BY DEF MergeWhole, AfterMerge, Working, Merges
<1> QED
  BY <1>1, <1>3, <1>4, QuietStep DEF MergeWhole, TypeOK

\* A step of a merge: it leaves a list and positions that are fresh.
LEMMA MergingStep ==
  ASSUME IInv,
         UNCHANGED <<input, phase, registry, assignment, aliases, launched>>,
         phase \in Merges, MergeOverlay # Absent,
         merged' \in Seq(Item), at' \in Nat \ {0},
         \A n \in DOMAIN indexes' :
           /\ n \in Names
           /\ indexes'[n] \in DOMAIN merged'
           /\ merged'[indexes'[n]].name = n,
         \A i \in DOMAIN merged' : merged'[i].name \in DOMAIN indexes'
  PROVE  IInv'
<1> USE DEF IInv
<1>1. DOMAIN merged' = 1..Len(merged') /\ Len(merged') \in Nat
  OBVIOUS
<1>2. \A n \in DOMAIN indexes' : n \in Names /\ indexes'[n] \in Nat \ {0}
  BY <1>1
<1>3. merged' \in List
  BY DEF List
<1>4. TypeOK'
  BY <1>2, <1>3 DEF TypeOK
<1>5. MergeOverlay' = MergeOverlay
  BY DEF MergeOverlay
<1>6. MergedInMerges' /\ HasOverlay'
  BY <1>5 DEF MergedInMerges, HasOverlay
<1>7. IndexesFresh'
  BY DEF IndexesFresh
<1>8. RegistryKept' /\ ProtectedKept'
  BY DEF RegistryKept, ProtectedKept, Implementation
<1> QED
  BY <1>4, <1>6, <1>7, <1>8

LEMMA BeginMergeStep ==
  ASSUME IInv, BeginMerge
  PROVE  IInv'
<1>1. MergeBase \in Seq(Item) /\ MergeOverlay # Absent /\ phase \in Merges
  BY MergeBaseType DEF IInv, BeginMerge, List
<1>2. merged' = MergeBase /\ indexes' = IndexesOf(MergeBase) /\ at' = 1
  BY DEF BeginMerge
<1>3. UNCHANGED <<input, phase, registry, assignment, aliases, launched>>
  BY DEF BeginMerge
<1> QED
  BY <1>1, <1>2, <1>3, IndexesOfFresh, MergingStep

\* The loop over the overlay sees lists and fresh positions.
LEMMA LoopSees ==
  ASSUME IInv, InLoop
  PROVE  /\ merged \in Seq(Item) /\ Overlaying \in Item
         /\ phase \in Merges /\ MergeOverlay # Absent /\ at + 1 \in Nat \ {0}
         /\ \A n \in DOMAIN indexes :
              n \in Names /\ indexes[n] \in DOMAIN merged /\ merged[indexes[n]].name = n
         /\ \A i \in DOMAIN merged : merged[i].name \in DOMAIN indexes
<1>1. Merging
  BY DEF InLoop
<1>2. merged \in Seq(Item) /\ Overlaying \in Item
  BY OverlayingType DEF IInv
<1>3. phase \in Merges /\ MergeOverlay # Absent /\ at + 1 \in Nat \ {0}
  BY <1>1 DEF IInv, TypeOK, HasOverlay, Merging
<1> QED
  BY <1>1, <1>2, <1>3 DEF IInv, IndexesFresh, TypeOK

LEMMA RemoveItemStep ==
  ASSUME IInv, RemoveItem
  PROVE  IInv'
<1>1. InLoop /\ at' = at + 1
  BY DEF RemoveItem
<1>2. UNCHANGED <<input, phase, registry, assignment, aliases, launched>>
  BY DEF RemoveItem
<1>3. CASE Overlaying.name \in DOMAIN indexes
  <2>1. merged' = Pop(merged, indexes[Overlaying.name]) /\ indexes' = IndexesOf(merged')
    BY <1>3 DEF RemoveItem
  <2>2. merged' \in Seq(Item)
    BY <1>1, <1>3, <2>1, LoopSees, PopType
  <2> QED
    BY <1>1, <1>2, <2>1, <2>2, LoopSees, IndexesOfFresh, MergingStep
<1>4. CASE Overlaying.name \notin DOMAIN indexes
  <2>1. UNCHANGED <<merged, indexes>>
    BY <1>4 DEF RemoveItem
  <2> QED
    BY <1>1, <1>2, <2>1, LoopSees, MergingStep
<1> QED
  BY <1>3, <1>4

LEMMA OverlayItemStep ==
  ASSUME IInv, OverlayItem
  PROVE  IInv'
<1> DEFINE i == indexes[Overlaying.name]
           item == MergedItem(merged[i], Overlaying)
<1>1. InLoop /\ at' = at + 1
  BY DEF OverlayItem
<1>2. UNCHANGED <<input, phase, registry, assignment, indexes, aliases, launched>>
  BY DEF OverlayItem
<1>3. i \in DOMAIN merged /\ merged' = [merged EXCEPT ![i] = item]
  BY <1>1, LoopSees DEF OverlayItem
<1>4. merged \in Seq(Item) /\ merged[i] \in Item /\ Overlaying \in Item
  BY <1>1, <1>3, LoopSees
<1>5. item \in Item /\ item.name = merged[i].name
  BY <1>4 DEF MergedItem, Over, Item
<1> HIDE DEF i, item
<1>6. merged' \in Seq(Item) /\ DOMAIN merged' = DOMAIN merged
  BY <1>3, <1>4, <1>5
<1>7. \A j \in DOMAIN merged : merged'[j].name = merged[j].name
  BY <1>3, <1>4, <1>5
<1> QED
  BY <1>1, <1>2, <1>6, <1>7, LoopSees, MergingStep

LEMMA AppendItemStep ==
  ASSUME IInv, AppendItem
  PROVE  IInv'
<1>1. InLoop /\ at' = at + 1
  BY DEF AppendItem
<1>2. UNCHANGED <<input, phase, registry, assignment, aliases, launched>>
  BY DEF AppendItem
<1>3. /\ merged' = Append(merged, Overlaying)
      /\ indexes' = [n \in DOMAIN indexes \cup {Overlaying.name} |->
           IF n = Overlaying.name THEN Len(merged) + 1 ELSE indexes[n]]
  BY DEF AppendItem
<1>4. merged \in Seq(Item) /\ Overlaying \in Item /\ Overlaying.name \in Names
  BY <1>1, LoopSees DEF Item
<1>5. /\ merged' \in Seq(Item)
      /\ DOMAIN merged' = DOMAIN merged \cup {Len(merged) + 1}
      /\ merged'[Len(merged) + 1] = Overlaying
      /\ \A j \in DOMAIN merged : merged'[j] = merged[j]
  BY <1>3, <1>4
<1>6. ASSUME NEW n \in DOMAIN indexes'
      PROVE  n \in Names /\ indexes'[n] \in DOMAIN merged' /\ merged'[indexes'[n]].name = n
  <2>1. CASE n = Overlaying.name
    <3>1. indexes'[n] = Len(merged) + 1
      BY <1>3, <2>1
    <3> QED
      BY <1>4, <1>5, <2>1, <3>1
  <2>2. CASE n # Overlaying.name
    <3>1. n \in DOMAIN indexes /\ indexes'[n] = indexes[n]
      BY <1>3, <1>6, <2>2
    <3> QED
      BY <1>1, <1>5, <3>1, LoopSees
  <2> QED
    BY <2>1, <2>2
<1>7. \A j \in DOMAIN merged' : merged'[j].name \in DOMAIN indexes'
  <2>1. \A j \in DOMAIN merged : merged[j].name \in DOMAIN indexes
    BY <1>1, LoopSees
  <2>2. DOMAIN indexes' = DOMAIN indexes \cup {Overlaying.name}
    BY <1>3
  <2> QED
    BY <1>5, <2>1, <2>2
<1> QED
  BY <1>1, <1>2, <1>5, <1>6, <1>7, LoopSees, MergingStep

LEMMA EndMergeStep ==
  ASSUME IInv, EndMerge
  PROVE  IInv'
<1> USE DEF IInv
<1>1. phase \in Merges /\ merged \in List
  BY DEF EndMerge, Merging, TypeOK
<1>2. assignment' \in [Merges -> List]
  BY <1>1 DEF EndMerge, TypeOK
<1>3. phase' \in Working \cup Ends
  BY DEF EndMerge, AfterMerge, Working, Merges
<1>4. merged' = Absent /\ DOMAIN indexes' = {} /\ at' = 1
  BY DEF EndMerge
<1>5. UNCHANGED <<input, registry, aliases, launched>>
  BY DEF EndMerge
<1>6. TypeOK'
  BY <1>2, <1>3, <1>4, <1>5 DEF TypeOK, List
<1>7. ~Merging' /\ MergedInMerges'
  BY <1>4 DEF Merging, MergedInMerges
<1>8. RegistryKept' /\ ProtectedKept'
  BY <1>5 DEF RegistryKept, ProtectedKept, Implementation
<1> QED
  BY <1>6, <1>7, <1>8 DEF HasOverlay, IndexesFresh

LEMMA LaunchNodeStep ==
  ASSUME IInv, LaunchNode
  PROVE  IInv'
<1> USE DEF IInv
<1>1. Visiting /\ at' = at + 1
  BY DEF LaunchNode
<1>2. UNCHANGED <<input, phase, registry, assignment, merged, indexes, aliases>>
  BY DEF LaunchNode
<1>3. assignment["both"] \in List
  BY DEF TypeOK, Merges
<1>4. ActiveNodes \in Seq(Item)
  BY <1>3 DEF ActiveNodes, List
<1>5. at \in 1..Len(ActiveNodes)
  BY <1>1, <1>4 DEF Visiting, TypeOK
<1>6. NodeItem \in Item /\ NodeItem.param \in Values
  <2>1. NodeItem \in Item
    BY <1>4, <1>5 DEF NodeItem
  <2> QED
    BY <2>1 DEF Item
<1>7. "launch file" \in Values
  <2>1. 1 \in DOMAIN Strength /\ Strength[1] = "launch file"
    BY DEF Strength
  <2> QED
    BY <2>1 DEF Values
<1>8. /\ launched' \in Seq(Action)
      /\ \A i \in DOMAIN launched' :
           launched'[i].name \in DOMAIN input.registry =>
             launched'[i].impl = Implementation(input.registry[launched'[i].name])
  <2>1. CASE UNCHANGED launched
    BY <2>1 DEF TypeOK, ProtectedKept
  <2>2. ASSUME NodeItem.name \in DOMAIN registry
        PROVE  NodeParam \in Values /\ Over(NodeParam, "launch file") \in Values
    <3>1. NodeDef \in Entry
      BY <2>2 DEF TypeOK, IsRegistry, NodeDef
    <3>2. NodeDef.param \in Values
      BY <3>1 DEF Entry
    <3> QED
      BY <1>6, <1>7, <3>2 DEF NodeParam, Over
  <2>3. CASE /\ NodeItem.name \in DOMAIN registry
             /\ NodeDef.launch # Unset
             /\ Launch("launch_file", NodeDef.launch, Over(NodeParam, "launch file"))
    <3>1. Implementation(NodeDef) = NodeDef.launch
      BY <2>3 DEF Implementation
    <3> QED
      BY <1>1, <2>2, <2>3, <3>1, LaunchKeeps
  <2>4. CASE /\ NodeItem.name \in DOMAIN registry
             /\ NodeDef.launch = Unset /\ NodeDef.executable # Unset
             /\ Launch("executable", NodeDef.executable, NodeParam)
    <3>1. Implementation(NodeDef) = NodeDef.executable
      BY <2>4 DEF Implementation
    <3> QED
      BY <1>1, <2>2, <2>4, <3>1, LaunchKeeps
  <2> QED
    BY <2>1, <2>3, <2>4 DEF LaunchNode
<1>9. TypeOK'
  BY <1>1, <1>2, <1>8 DEF TypeOK
<1>10. merged = Absent
  BY <1>1 DEF Visiting, MergedInMerges, Merges
<1>11. ~Merging' /\ MergedInMerges'
  BY <1>2, <1>10 DEF Merging, MergedInMerges
<1>12. RegistryKept'
  BY <1>2 DEF RegistryKept
<1>13. ProtectedKept'
  BY <1>2, <1>8 DEF ProtectedKept, Implementation
<1> QED
  BY <1>9, <1>11, <1>12, <1>13 DEF HasOverlay, IndexesFresh

\* Every step keeps the invariant.
LEMMA StepKeeps ==
  IInv /\ [Next]_vars => IInv'
<1> SUFFICES ASSUME IInv, [Next]_vars PROVE IInv'
  OBVIOUS
<1>1. phase \in Working \cup Ends /\ assignment \in [Merges -> List]
      /\ aliases \subseteq {"baseline", "overlay"}
  BY DEF IInv, TypeOK
<1>2. phase \notin Merges => merged = Absent
  BY DEF IInv, MergedInMerges
<1>3. CASE Select
  BY <1>1, <1>2, <1>3, QuietStep DEF Select, Working, Ends, Merges
<1>4. CASE Unreadable
  BY <1>1, <1>2, <1>4, QuietStep DEF Unreadable, Ends
<1>5. CASE MergeRegistry
  BY <1>5, MergeRegistryStep
<1>6. CASE MergeWhole
  BY <1>6, MergeWholeStep
<1>7. CASE BeginMerge
  BY <1>7, BeginMergeStep
<1>8. CASE RemoveItem
  BY <1>8, RemoveItemStep
<1>9. CASE OverlayItem
  BY <1>9, OverlayItemStep
<1>10. CASE AppendItem
  BY <1>10, AppendItemStep
<1>11. CASE EndMerge
  BY <1>11, EndMergeStep
<1>12. CASE LoadNamedMaps
  <2>1. phase' \in Working \cup Ends /\ aliases' \subseteq {"baseline", "overlay"}
    BY <1>1, <1>12 DEF LoadNamedMaps, Working, Ends
  <2> QED
    BY <1>1, <1>2, <1>12, <2>1, QuietStep DEF LoadNamedMaps, Merges
<1>13. CASE LaunchNode
  BY <1>13, LaunchNodeStep
<1>14. CASE LaunchRaises
  BY <1>1, <1>2, <1>14, QuietStep DEF LaunchRaises, Visiting, Merges, Ends
<1>15. CASE Return
  BY <1>1, <1>2, <1>15, QuietStep DEF Return, Merges, Ends
<1>16. CASE UNCHANGED vars
  BY <1>16 DEF vars, mergeVars, IInv, TypeOK, MergedInMerges,
    HasOverlay, Merging, MergeOverlay, IndexesFresh, RegistryKept, ProtectedKept, Implementation
<1> QED
  BY <1>3, <1>4, <1>5, <1>6, <1>7, <1>8, <1>9, <1>10, <1>11, <1>12, <1>13, <1>14, <1>15, <1>16
     DEF Next, Ended

-----------------------------------------------------------------------------
(* The merges. *)

\* A step of the loop of a merge has an element of the overlay in hand.
LEMMA LoopHas ==
  ASSUME IInv, InLoop
  PROVE  /\ merged \in Seq(Item) /\ MergeOverlay \in Seq(Item) /\ at \in DOMAIN MergeOverlay
         /\ Overlaying = MergeOverlay[at] /\ Overlaying \in Item /\ Overlaying.name \in Names
<1>1. merged \in Seq(Item) /\ MergeOverlay \in Seq(Item) /\ Overlaying \in Item
  BY OverlayingType DEF IInv
<1>2. at \in DOMAIN MergeOverlay
  BY <1>1 DEF IInv, TypeOK, InLoop
<1> QED
  BY <1>1, <1>2 DEF Overlaying, Item

\* A step of the loop takes the merge of the elements before it one further:
\* it leaves the elements of the other names, and the overlay's element is
\* taken out, combined with the one of its name or added.
LEMMA LoopMerges ==
  ASSUME IInv, MergeGoesOn, InLoop, at' = at + 1,
         UNCHANGED <<input, phase, assignment>>,
         \A n \in Names : NamedOnce(merged, n) =>
           /\ NamedOnce(merged', n)
           /\ n # Overlaying.name => ItemsOf(merged', n) = ItemsOf(merged, n)
           /\ n = Overlaying.name =>
                IF Overlaying.remove THEN ItemsOf(merged', n) = {}
                ELSE ItemsOf(merged', n) = Combined(ItemsOf(merged, n), {Overlaying})
  PROVE  MergeGoesOn'
<1> DEFINE o == MergeOverlay
<1>1. MergeBase' = MergeBase /\ MergeOverlay' = MergeOverlay
  BY DEF MergeBase, MergeOverlay
<1>2. MergeBase # Absent /\ MergedUpTo(merged, MergeBase, o, at)
  BY DEF MergeGoesOn, InLoop
<1>3. o \in Seq(Item) /\ at \in DOMAIN o /\ Overlaying = o[at]
  BY LoopHas
<1> HIDE DEF o
<1>4. ASSUME NEW n \in Names, NamedOnce(MergeBase, n)
      PROVE  /\ NamedOnce(merged', n)
             /\ NamedOnce(o, n) /\ Keeps(o, n) =>
                  ItemsOf(merged', n) = Combined(ItemsOf(MergeBase, n), Before(o, n, at + 1))
             /\ RemovesLast(o, n, at + 1) => ItemsOf(merged', n) = {}
  <2>1. /\ NamedOnce(merged, n)
        /\ NamedOnce(o, n) /\ Keeps(o, n) =>
             ItemsOf(merged, n) = Combined(ItemsOf(MergeBase, n), Before(o, n, at))
        /\ RemovesLast(o, n, at) => ItemsOf(merged, n) = {}
    BY <1>2, <1>4 DEF MergedUpTo
  <2>2. CASE n # Overlaying.name
    <3>1. NamedOnce(merged', n) /\ ItemsOf(merged', n) = ItemsOf(merged, n)
      BY <2>1, <2>2
    <3>2. /\ Before(o, n, at + 1) = Before(o, n, at)
          /\ RemovesLast(o, n, at + 1) => RemovesLast(o, n, at)
      BY <1>3, <2>2, PassOther
    <3> QED
      BY <2>1, <3>1, <3>2
  <2>3. CASE n = Overlaying.name /\ Overlaying.remove
    <3>1. NamedOnce(merged', n) /\ ItemsOf(merged', n) = {}
      BY <2>1, <2>3
    <3>2. ~Keeps(o, n)
      BY <1>3, <2>3 DEF Keeps
    <3> QED
      BY <3>1, <3>2
  <2>4. CASE n = Overlaying.name /\ ~Overlaying.remove
    <3>1. /\ NamedOnce(merged', n)
          /\ ItemsOf(merged', n) = Combined(ItemsOf(merged, n), {Overlaying})
      BY <2>1, <2>4
    <3>2. /\ NamedOnce(o, n) => Before(o, n, at) = {} /\ Before(o, n, at + 1) = {Overlaying}
          /\ ~RemovesLast(o, n, at + 1)
      BY <1>3, <2>4, PassThis
    <3>3. \A a : Combined(a, {}) = a
      BY DEF Combined
    <3> QED
      BY <2>1, <3>1, <3>2, <3>3
  <2> QED
    BY <2>2, <2>3, <2>4
<1>5. MergedUpTo(merged', MergeBase, o, at + 1)
  BY <1>4 DEF MergedUpTo
<1> QED
  BY <1>1, <1>2, <1>5 DEF MergeGoesOn, o

LEMMA BeginMergeGoesOn ==
  ASSUME IInv, BeginMerge
  PROVE  MergeGoesOn'
<1>1. MergeBase' = MergeBase /\ MergeOverlay' = MergeOverlay
  BY DEF BeginMerge, MergeBase, MergeOverlay
<1>2. MergeBase # Absent /\ merged' = MergeBase /\ at' = 1
  BY DEF BeginMerge
<1>3. MergeOverlay \in Seq(Item)
  BY MergeBaseType DEF IInv, BeginMerge, List
<1>4. \A i \in DOMAIN MergeOverlay : ~(i < 1)
  BY <1>3
<1>5. \A n : Before(MergeOverlay, n, 1) = {} /\ ~RemovesLast(MergeOverlay, n, 1)
  BY <1>4 DEF Before, RemovesLast
<1>6. \A a : Combined(a, {}) = a
  BY DEF Combined
<1>7. MergedUpTo(MergeBase, MergeBase, MergeOverlay, 1)
  BY <1>5, <1>6 DEF MergedUpTo
<1> QED
  BY <1>1, <1>2, <1>7 DEF MergeGoesOn

LEMMA RemoveItemGoesOn ==
  ASSUME IInv, MergeGoesOn, RemoveItem
  PROVE  MergeGoesOn'
<1> DEFINE p == indexes[Overlaying.name]
<1>1. InLoop /\ Overlaying.remove /\ at' = at + 1 /\ UNCHANGED <<input, phase, assignment>>
  BY DEF RemoveItem
<1>2. /\ merged \in Seq(Item)
      /\ Overlaying.name \in DOMAIN indexes
            => p \in DOMAIN merged /\ merged[p].name = Overlaying.name
      /\ \A i \in DOMAIN merged : merged[i].name \in DOMAIN indexes
  BY <1>1, LoopSees
<1>3. CASE Overlaying.name \in DOMAIN indexes
  <2>1. merged' = Pop(merged, p)
    BY <1>3 DEF RemoveItem
  <2> HIDE DEF p
  <2> QED
    BY <1>1, <1>2, <1>3, <2>1, PopOther, PopThis, LoopMerges
<1>4. CASE Overlaying.name \notin DOMAIN indexes
  <2>1. merged' = merged
    BY <1>4 DEF RemoveItem
  <2>2. ItemsOf(merged, Overlaying.name) = {}
    BY <1>2, <1>4, InItems
  <2> QED
    BY <1>1, <2>1, <2>2, LoopMerges
<1> QED
  BY <1>3, <1>4

LEMMA OverlayItemGoesOn ==
  ASSUME IInv, MergeGoesOn, OverlayItem
  PROVE  MergeGoesOn'
<1> DEFINE p    == indexes[Overlaying.name]
           item == MergedItem(merged[p], Overlaying)
<1>1. InLoop /\ ~Overlaying.remove /\ at' = at + 1 /\ UNCHANGED <<input, phase, assignment>>
  BY DEF OverlayItem
<1>2. /\ merged \in Seq(Item) /\ Overlaying \in Item
      /\ p \in DOMAIN merged /\ merged[p].name = Overlaying.name
  BY <1>1, LoopSees DEF OverlayItem
<1>3. item \in Item /\ item.name = merged[p].name
  <2>1. merged[p] \in Item
    BY <1>2
  <2> QED
    BY <1>2, <2>1 DEF MergedItem, Over, Item
<1>4. merged' = [merged EXCEPT ![p] = item]
  BY DEF OverlayItem
<1>5. Combined({merged[p]}, {Overlaying}) = {item}
  BY DEF Combined
<1> HIDE DEF p, item
<1>6. /\ merged' \in Seq(Item) /\ DOMAIN merged' = DOMAIN merged
      /\ \A i \in DOMAIN merged : merged'[i] = IF i = p THEN item ELSE merged[i]
  BY <1>2, <1>3, <1>4
<1>7. ASSUME NEW n \in Names, NamedOnce(merged, n)
      PROVE  /\ NamedOnce(merged', n)
             /\ n # Overlaying.name => ItemsOf(merged', n) = ItemsOf(merged, n)
             /\ n = Overlaying.name =>
                  ItemsOf(merged', n) = Combined(ItemsOf(merged, n), {Overlaying})
  <2>1. /\ NamedOnce(merged', n)
        /\ ItemsOf(merged', n) = IF merged[p].name = n THEN {item} ELSE ItemsOf(merged, n)
        /\ merged[p].name = n => ItemsOf(merged, n) = {merged[p]}
    BY <1>2, <1>3, <1>6, <1>7, ChangeItem
  <2> QED
    BY <1>2, <1>5, <2>1
<1> QED
  BY <1>1, <1>7, LoopMerges

LEMMA AppendItemGoesOn ==
  ASSUME IInv, MergeGoesOn, AppendItem
  PROVE  MergeGoesOn'
<1>1. InLoop /\ ~Overlaying.remove /\ at' = at + 1 /\ UNCHANGED <<input, phase, assignment>>
  BY DEF AppendItem
<1>2. /\ merged \in Seq(Item) /\ Overlaying \in Item
      /\ \A i \in DOMAIN merged : merged[i].name # Overlaying.name
  BY <1>1, LoopSees DEF AppendItem
<1>3. merged' = Append(merged, Overlaying)
  BY DEF AppendItem
<1>4. Combined({}, {Overlaying}) = {Overlaying}
  BY DEF Combined
<1>5. ASSUME NEW n \in Names, NamedOnce(merged, n)
      PROVE  /\ NamedOnce(merged', n)
             /\ n # Overlaying.name => ItemsOf(merged', n) = ItemsOf(merged, n)
             /\ n = Overlaying.name =>
                  ItemsOf(merged', n) = Combined(ItemsOf(merged, n), {Overlaying})
  <2>1. /\ NamedOnce(merged', n)
        /\ ItemsOf(merged', n) = IF Overlaying.name = n THEN {Overlaying} ELSE ItemsOf(merged, n)
        /\ Overlaying.name = n => ItemsOf(merged, n) = {}
    BY <1>2, <1>3, <1>5, AppendElement
  <2> QED
    BY <1>4, <2>1
<1> QED
  BY <1>1, <1>5, LoopMerges

\* The merge has come to its end: what was merged before the last position is
\* what the whole overlay gives.
LEMMA AllMerged ==
  ASSUME IInv, MergeGoesOn, EndMerge
  PROVE  MergedFrom(merged, MergeBase, MergeOverlay)
<1>1. /\ Merging /\ at > Len(MergeOverlay) /\ at \in Nat /\ MergeOverlay # Absent
      /\ merged # Absent /\ MergeBase # Absent /\ MergedUpTo(merged, MergeBase, MergeOverlay, at)
  BY DEF EndMerge, IInv, TypeOK, HasOverlay, MergeGoesOn, Merging
<1>2. MergeOverlay \in Seq(Item)
  BY <1>1, MergeBaseType DEF IInv, Merging, List
<1>3. \A i \in DOMAIN MergeOverlay : i < at /\ i < Len(MergeOverlay) + 1
  BY <1>1, <1>2
<1>4. \A n : /\ Before(MergeOverlay, n, at) = Before(MergeOverlay, n, Len(MergeOverlay) + 1)
             /\ RemovesLast(MergeOverlay, n, Len(MergeOverlay) + 1)
                  => RemovesLast(MergeOverlay, n, at)
  <2> TAKE n
  <2>1. Before(MergeOverlay, n, at) = Before(MergeOverlay, n, Len(MergeOverlay) + 1)
    <3>1. \A item : item \in Before(MergeOverlay, n, at) <=>
                      item \in Before(MergeOverlay, n, Len(MergeOverlay) + 1)
      BY <1>3, InBefore
    <3> QED
      BY <3>1 DEF Before
  <2>2. RemovesLast(MergeOverlay, n, Len(MergeOverlay) + 1) => RemovesLast(MergeOverlay, n, at)
    BY <1>3 DEF RemovesLast
  <2> QED
    BY <2>1, <2>2
<1>5. MergedUpTo(merged, MergeBase, MergeOverlay, Len(MergeOverlay) + 1)
  BY <1>1, <1>4 DEF MergedUpTo
<1> QED
  BY <1>1, <1>5 DEF MergedFrom

\* A merge that ends leaves its list where the next merges and the launch loop
\* find it, and goes on to the next.
LEMMA MergeEnds ==
  ASSUME IInv, ListsMerged, phase \in Merges, phase' = AfterMerge, UNCHANGED input,
         NEW result, assignment' = [assignment EXCEPT ![phase] = result],
         MergedFrom(result, MergeBase, MergeOverlay)
  PROVE  ListsMerged'
<1>1. DOMAIN assignment = Merges
  BY DEF IInv, TypeOK
<1>2. CASE phase = "everywhere"
  <2>1. assignment'["everywhere"] = result /\ assignment'["host"] = assignment["host"]
    BY <1>1, <1>2 DEF Merges
  <2>2. phase' = "host"
    BY <1>2 DEF AfterMerge
  <2>3. /\ MergedFrom(result, input.everywhere, input.everywhereOverlay)
        /\ assignment["host"] = input.host
    BY <1>2 DEF ListsMerged, MergeBase, MergeOverlay
  <2> QED
    BY <2>1, <2>2, <2>3 DEF ListsMerged, AfterEverywhere, AfterHosts, Launching
<1>3. CASE phase = "host"
  <2>1. assignment'["host"] = result /\ assignment'["everywhere"] = assignment["everywhere"]
    BY <1>1, <1>3 DEF Merges
  <2>2. phase' = "both"
    BY <1>3 DEF AfterMerge
  <2>3. /\ MergedFrom(result, input.host, input.hostOverlay)
        /\ MergedFrom(assignment["everywhere"], input.everywhere, input.everywhereOverlay)
    BY <1>3 DEF ListsMerged, MergeBase, MergeOverlay, AfterEverywhere
  <2> QED
    BY <2>1, <2>2, <2>3 DEF ListsMerged, AfterEverywhere, AfterHosts, Launching
<1>4. CASE phase = "both"
  <2>1. /\ assignment'["both"] = result
        /\ assignment'["everywhere"] = assignment["everywhere"]
        /\ assignment'["host"] = assignment["host"]
    BY <1>1, <1>4 DEF Merges
  <2>2. phase' = "maps"
    BY <1>4 DEF AfterMerge
  <2>3. /\ MergedFrom(result, assignment["everywhere"], assignment["host"])
        /\ MergedFrom(assignment["host"], input.host, input.hostOverlay)
        /\ MergedFrom(assignment["everywhere"], input.everywhere, input.everywhereOverlay)
    BY <1>4 DEF ListsMerged, MergeBase, MergeOverlay, AfterEverywhere
  <2> QED
    BY <2>1, <2>2, <2>3 DEF ListsMerged, AfterEverywhere, AfterHosts, Launching
<1> QED
  BY <1>2, <1>3, <1>4 DEF Merges

LEMMA MergeWholeEnds ==
  ASSUME IInv, ListsMerged, MergeWhole
  PROVE  ListsMerged'
<1> DEFINE result == IF MergeOverlay = Absent THEN MergeBase ELSE MergeOverlay
<1>1. MergedFrom(result, MergeBase, MergeOverlay)
  BY DEF MergeWhole, MergedFrom
<1>2. /\ phase \in Merges /\ phase' = AfterMerge /\ UNCHANGED input
      /\ assignment' = [assignment EXCEPT ![phase] = result]
  BY DEF MergeWhole
<1> HIDE DEF result
<1> QED
  BY <1>1, <1>2, MergeEnds

LEMMA EndMergeEnds ==
  ASSUME IInv, MergeGoesOn, ListsMerged, EndMerge
  PROVE  ListsMerged'
<1>1. /\ phase \in Merges /\ phase' = AfterMerge /\ UNCHANGED input
      /\ assignment' = [assignment EXCEPT ![phase] = merged]
  BY DEF EndMerge, Merging
<1> QED
  BY <1>1, AllMerged, MergeEnds

\* The steps between the merges keep what they came to.
LEMMA ListsKept ==
  ASSUME IInv, ListsMerged, [Next]_vars, ~MergeWhole, ~EndMerge
  PROVE  ListsMerged'
<1> USE DEF ListsMerged, AfterEverywhere, AfterHosts, Launching
<1>1. CASE Select
  BY <1>1 DEF Select
<1>2. CASE Unreadable
  BY <1>2 DEF Unreadable
<1>3. CASE MergeRegistry
  BY <1>3 DEF MergeRegistry
<1>4. CASE BeginMerge \/ RemoveItem \/ OverlayItem \/ AppendItem
  <2>1. UNCHANGED <<input, phase, assignment>>
    BY <1>4 DEF BeginMerge, RemoveItem, OverlayItem, AppendItem
  <2> QED
    BY <2>1
<1>5. CASE LoadNamedMaps
  BY <1>5 DEF LoadNamedMaps
<1>6. CASE LaunchNode
  BY <1>6 DEF LaunchNode
<1>7. CASE LaunchRaises
  BY <1>7 DEF LaunchRaises
<1>8. CASE Return
  BY <1>8 DEF Return
<1>9. CASE UNCHANGED vars
  BY <1>9 DEF vars
<1> QED
  BY <1>1, <1>2, <1>3, <1>4, <1>5, <1>6, <1>7, <1>8, <1>9 DEF Next, Ended

-----------------------------------------------------------------------------
(* The registry and the starts of the loops. *)

LEMMA RegistryStep ==
  ASSUME IInv, RegistryMerged, [Next]_vars
  PROVE  RegistryMerged'
<1> USE DEF RegistryMerged, AfterEverywhere, AfterHosts, Launching
<1>1. CASE Select
  BY <1>1 DEF Select
<1>2. CASE Unreadable
  BY <1>2 DEF Unreadable
<1>3. CASE MergeRegistry
  BY <1>3 DEF MergeRegistry
<1>4. CASE BeginMerge \/ RemoveItem \/ OverlayItem \/ AppendItem
  <2>1. UNCHANGED <<input, phase, registry>>
    BY <1>4 DEF BeginMerge, RemoveItem, OverlayItem, AppendItem
  <2> QED
    BY <2>1
<1>5. CASE MergeWhole \/ EndMerge
  <2>1. /\ UNCHANGED <<input, registry>> /\ phase \in {"everywhere", "host", "both"}
        /\ phase' \in {"host", "both", "maps"}
    BY <1>5 DEF MergeWhole, EndMerge, Merging, Merges, AfterMerge
  <2> QED
    BY <2>1
<1>6. CASE LoadNamedMaps
  BY <1>6 DEF LoadNamedMaps
<1>7. CASE LaunchNode
  BY <1>7 DEF LaunchNode, Visiting
<1>8. CASE LaunchRaises
  BY <1>8 DEF LaunchRaises
<1>9. CASE Return
  BY <1>9 DEF Return
<1>10. CASE UNCHANGED vars
  BY <1>10 DEF vars
<1> QED
  BY <1>1, <1>2, <1>3, <1>4, <1>5, <1>6, <1>7, <1>8, <1>9, <1>10 DEF Next, Ended

LEMMA LoopsStep ==
  ASSUME IInv, LoopsStart, [Next]_vars
  PROVE  LoopsStart'
<1> USE DEF LoopsStart, Launching, Ends
<1>1. CASE Select
  BY <1>1 DEF Select, mergeVars
<1>2. CASE Unreadable
  BY <1>2 DEF Unreadable, mergeVars
<1>3. CASE MergeRegistry
  BY <1>3 DEF MergeRegistry, mergeVars
<1>4. CASE BeginMerge \/ RemoveItem \/ OverlayItem \/ AppendItem
  <2>1. UNCHANGED <<phase, launched>> /\ phase \in {"everywhere", "host", "both"}
    BY <1>4 DEF BeginMerge, RemoveItem, OverlayItem, AppendItem, InLoop, Merging, Merges
  <2>2. merged' # Absent
    <3>1. CASE BeginMerge
      BY <3>1 DEF BeginMerge
    <3>2. CASE RemoveItem \/ OverlayItem \/ AppendItem
      <4>1. InLoop
        BY <3>2 DEF RemoveItem, OverlayItem, AppendItem
      <4>2. merged' \in Seq(Item)
        <5>1. merged \in Seq(Item) /\ Overlaying \in Item
              /\ (Overlaying.name \in DOMAIN indexes => indexes[Overlaying.name] \in DOMAIN merged)
          BY <4>1, LoopSees
        <5>2. CASE RemoveItem
          BY <4>1, <5>1, <5>2, PopType DEF RemoveItem
        <5>3. CASE OverlayItem
          <6> DEFINE p == indexes[Overlaying.name]
                     item == MergedItem(merged[p], Overlaying)
          <6>1. p \in DOMAIN merged /\ merged[p] \in Item
            BY <5>1, <5>3 DEF OverlayItem
          <6>2. item \in Item
            BY <5>1, <6>1 DEF MergedItem, Over, Item
          <6>3. merged' = [merged EXCEPT ![p] = item]
            BY <5>3 DEF OverlayItem
          <6> HIDE DEF p, item
          <6> QED
            BY <5>1, <6>1, <6>2, <6>3
        <5>4. CASE AppendItem
          BY <5>1, <5>4 DEF AppendItem
        <5> QED
          BY <3>2, <5>2, <5>3, <5>4
      <4> QED
        BY <4>2, AbsentAssumption
    <3> QED
      BY <1>4, <3>1, <3>2
  <2> QED
    BY <2>1, <2>2
<1>5. CASE MergeWhole
  BY <1>5 DEF MergeWhole, Merges, AfterMerge, mergeVars
<1>6. CASE EndMerge
  BY <1>6 DEF EndMerge, Merging, Merges, AfterMerge
<1>7. CASE LoadNamedMaps
  BY <1>7 DEF LoadNamedMaps, mergeVars
<1>8. CASE LaunchNode
  BY <1>8 DEF LaunchNode, Visiting
<1>9. CASE LaunchRaises
  BY <1>9 DEF LaunchRaises
<1>10. CASE Return
  BY <1>10 DEF Return, ActiveNodes, mergeVars
<1>11. CASE UNCHANGED vars
  BY <1>11 DEF vars, mergeVars, ActiveNodes
<1> QED
  BY <1>1, <1>2, <1>3, <1>4, <1>5, <1>6, <1>7, <1>8, <1>9, <1>10, <1>11 DEF Next, Ended

-----------------------------------------------------------------------------
(* The launch loop. *)

\* What the launch loop does with the element in hand: one action if its name
\* has an implementation, none otherwise.
LaunchesOne ==
  /\ Runs(registry, NodeItem.name)
  /\ \E act \in Action :
       /\ launched' = Append(launched, act)
       /\ act.name = NodeItem.name
       /\ act.param = ParamOf(NodeItem, registry[NodeItem.name], act.via)
LaunchesNone == ~Runs(registry, NodeItem.name) /\ UNCHANGED launched

LEMMA VisitHas ==
  ASSUME IInv, Visiting
  PROVE  /\ ActiveNodes \in Seq(Item) /\ at \in DOMAIN ActiveNodes
         /\ NodeItem = ActiveNodes[at] /\ NodeItem \in Item
<1>1. assignment["both"] \in List
  BY DEF IInv, TypeOK, Merges
<1>2. ActiveNodes \in Seq(Item)
  BY <1>1 DEF ActiveNodes, List
<1>3. at \in DOMAIN ActiveNodes
  BY <1>2 DEF Visiting, IInv, TypeOK
<1> QED
  BY <1>2, <1>3 DEF NodeItem

LEMMA VisitLaunches ==
  ASSUME IInv, LaunchNode
  PROVE  LaunchesOne \/ LaunchesNone
<1>1. /\ launched \in Seq(Action) /\ launched' \in Seq(Action)
  BY LaunchNodeStep DEF IInv, TypeOK
<1> DEFINE action(via, impl, param) ==
             [name |-> NodeItem.name, via |-> via, impl |-> impl, param |-> param,
              resolved |-> Resolved(NodeParam)]
<1>2. ASSUME NEW act, launched' = Append(launched, act) PROVE act \in Action
  <2>1. Len(launched) + 1 \in DOMAIN launched' /\ launched'[Len(launched) + 1] = act
    BY <1>1, <1>2
  <2> QED
    BY <1>1, <2>1
<1>3. CASE NodeItem.name \notin DOMAIN registry
  BY <1>3 DEF LaunchNode, LaunchesNone, Runs
<1>4. CASE /\ NodeItem.name \in DOMAIN registry
           /\ NodeDef.launch = Unset /\ NodeDef.executable = Unset
  BY <1>4 DEF LaunchNode, LaunchesNone, Runs, Implementation, NodeDef, Launch
<1>5. CASE /\ NodeItem.name \in DOMAIN registry /\ NodeDef.launch # Unset
  <2> DEFINE act == action("launch_file", NodeDef.launch, Over(NodeParam, "launch file"))
  <2>1. launched' = Append(launched, act)
    BY <1>5 DEF LaunchNode, Launch
  <2>2. act.name = NodeItem.name /\ act.param = ParamOf(NodeItem, registry[NodeItem.name], act.via)
    BY DEF ParamOf, NodeParam, NodeDef
  <2>3. Runs(registry, NodeItem.name)
    BY <1>5 DEF Runs, Implementation, NodeDef
  <2> HIDE DEF act
  <2> QED
    BY <1>2, <2>1, <2>2, <2>3 DEF LaunchesOne
<1>6. CASE /\ NodeItem.name \in DOMAIN registry
           /\ NodeDef.launch = Unset /\ NodeDef.executable # Unset
  <2> DEFINE act == action("executable", NodeDef.executable, NodeParam)
  <2>1. launched' = Append(launched, act)
    BY <1>6 DEF LaunchNode, Launch
  <2>2. act.name = NodeItem.name /\ act.param = ParamOf(NodeItem, registry[NodeItem.name], act.via)
    BY DEF ParamOf, NodeParam, NodeDef
  <2>3. Runs(registry, NodeItem.name)
    BY <1>6 DEF Runs, Implementation, NodeDef
  <2> HIDE DEF act
  <2> QED
    BY <1>2, <2>1, <2>2, <2>3 DEF LaunchesOne
<1> QED
  BY <1>3, <1>4, <1>5, <1>6

LEMMA VisitKeeps ==
  ASSUME IInv, LaunchedSoFar, LaunchNode
  PROVE  LaunchedSoFar'
<1> DEFINE m == NodeItem.name
<1>1. /\ ActiveNodes \in Seq(Item) /\ at \in DOMAIN ActiveNodes
      /\ NodeItem = ActiveNodes[at] /\ NodeItem \in Item
  BY VisitHas DEF LaunchNode
<1>2. UNCHANGED <<phase, registry, ActiveNodes>> /\ at' = at + 1 /\ phase = "launch"
  BY DEF LaunchNode, ActiveNodes, Visiting
<1>3. launched \in Seq(Action)
  BY DEF IInv, TypeOK
<1>4. LaunchesOne \/ LaunchesNone
  BY VisitLaunches
<1>5. SUFFICES ASSUME NEW n \in Names, NamedOnce(ActiveNodes, n)
      PROVE  /\ \A i, j \in StartsOf(n)' : i = j
             /\ StartsOf(n)' # {} <=> Runs(registry, n) /\ Before(ActiveNodes, n, at + 1) # {}
             /\ \A i \in StartsOf(n)' : \E item \in ItemsOf(ActiveNodes, n) :
                  launched'[i].param = ParamOf(item, registry[n], launched'[i].via)
  BY <1>2 DEF LaunchedSoFar
<1>6. /\ \A i, j \in StartsOf(n) : i = j
      /\ StartsOf(n) # {} <=> Runs(registry, n) /\ Before(ActiveNodes, n, at) # {}
      /\ \A i \in StartsOf(n) : \E item \in ItemsOf(ActiveNodes, n) :
           launched[i].param = ParamOf(item, registry[n], launched[i].via)
  BY <1>2, <1>5 DEF LaunchedSoFar, Launching
<1>7. ASSUME LaunchesNone \/ m # n
      PROVE  /\ StartsOf(n)' = StartsOf(n)
             /\ \A i \in StartsOf(n) : launched'[i] = launched[i]
  <2>1. CASE LaunchesNone
    BY <2>1 DEF LaunchesNone, StartsOf
  <2>2. CASE LaunchesOne /\ m # n
    <3>1. PICK act \in Action : launched' = Append(launched, act) /\ act.name = m
      BY <2>2 DEF LaunchesOne
    <3>2. /\ DOMAIN launched' = DOMAIN launched \cup {Len(launched) + 1}
          /\ launched'[Len(launched) + 1] = act
          /\ \A i \in DOMAIN launched : launched'[i] = launched[i]
      BY <1>3, <3>1
    <3> QED
      BY <2>2, <3>1, <3>2 DEF StartsOf
  <2> QED
    BY <1>4, <1>7, <2>1, <2>2
<1>8. CASE m # n
  <2>1. Before(ActiveNodes, n, at + 1) = Before(ActiveNodes, n, at)
    BY <1>1, <1>8, PassOther
  <2> QED
    BY <1>6, <1>7, <1>8, <2>1
<1>9. CASE m = n
  <2>1. Before(ActiveNodes, n, at) = {} /\ Before(ActiveNodes, n, at + 1) # {}
    <3>1. ActiveNodes[at].name = n
      BY <1>1, <1>9
    <3>2. Before(ActiveNodes, n, at) = {} /\ Before(ActiveNodes, n, at + 1) = {ActiveNodes[at]}
      BY <1>1, <1>5, <3>1, PassThis
    <3> QED
      BY <3>2
  <2>2. StartsOf(n) = {}
    BY <1>6, <2>1
  <2>3. CASE LaunchesNone
    BY <1>6, <1>7, <1>9, <2>1, <2>2, <2>3 DEF LaunchesNone
  <2>4. CASE LaunchesOne
    <3>1. PICK act \in Action :
            /\ launched' = Append(launched, act) /\ act.name = m
            /\ act.param = ParamOf(NodeItem, registry[m], act.via)
      BY <2>4 DEF LaunchesOne
    <3>2. /\ DOMAIN launched' = DOMAIN launched \cup {Len(launched) + 1}
          /\ launched'[Len(launched) + 1] = act
          /\ \A i \in DOMAIN launched : launched'[i] = launched[i]
      BY <1>3, <3>1
    <3>3. StartsOf(n)' = {Len(launched) + 1}
      BY <1>9, <2>2, <3>1, <3>2 DEF StartsOf
    <3>4. NodeItem \in ItemsOf(ActiveNodes, n)
      BY <1>1, <1>9, InItems
    <3> QED
      BY <1>9, <2>1, <2>4, <3>1, <3>2, <3>3, <3>4 DEF LaunchesOne
  <2> QED
    BY <1>4, <2>3, <2>4
<1> QED
  BY <1>8, <1>9

LEMMA InitLayers ==
  Init => LInv
<1> SUFFICES ASSUME Init PROVE LInv
  OBVIOUS
<1> USE DEF Init
<1>1. MergeGoesOn /\ LaunchedSoFar /\ LoopsStart
  BY DEF MergeGoesOn, Merging, LaunchedSoFar, LoopsStart, Launching, Ends
<1>2. ListsMerged
  BY DEF ListsMerged, AfterEverywhere, AfterHosts, Launching, Merges
<1>3. RegistryMerged
  BY DEF RegistryMerged, AfterEverywhere, AfterHosts, Launching
<1> QED
  BY <1>1, <1>2, <1>3 DEF LInv

\* A name that no list of nodes has yet, or no action.
LEMMA LoopBegins ==
  ASSUME IInv, LoopsStart, LoadNamedMaps
  PROVE  LaunchedSoFar'
<1>1. launched' = <<>> /\ at' = 1
  BY DEF LoopsStart, LoadNamedMaps, Launching, Ends, IInv, MergedInMerges, Merges, mergeVars
<1>2. \A n : StartsOf(n)' = {}
  BY <1>1 DEF StartsOf
<1>3. ActiveNodes' \in Seq(Item)
  <2>1. assignment'["both"] \in List
    BY DEF IInv, TypeOK, Merges, LoadNamedMaps
  <2> QED
    BY <2>1 DEF ActiveNodes, List
<1>4. \A n : Before(ActiveNodes', n, 1) = {}
  <2>1. \A i \in DOMAIN ActiveNodes' : ~(i < 1)
    BY <1>3
  <2> QED
    BY <2>1, InBefore
<1> QED
  BY <1>1, <1>2, <1>4 DEF LaunchedSoFar

LEMMA LayersStep ==
  IInv /\ LInv /\ [Next]_vars => LInv'
<1> SUFFICES ASSUME IInv, LInv, [Next]_vars PROVE LInv'
  OBVIOUS
<1> USE DEF LInv
<1>1. RegistryMerged' /\ LoopsStart'
  BY RegistryStep, LoopsStep
<1>2. ListsMerged'
  BY MergeWholeEnds, EndMergeEnds, ListsKept
<1>3. MergeGoesOn'
  <2>1. CASE BeginMerge \/ RemoveItem \/ OverlayItem \/ AppendItem
    BY <2>1, BeginMergeGoesOn, RemoveItemGoesOn, OverlayItemGoesOn, AppendItemGoesOn
  <2>2. CASE UNCHANGED vars
    BY <2>2 DEF vars, mergeVars, MergeGoesOn, Merging, MergeBase, MergeOverlay
  <2>3. CASE \/ Select \/ Unreadable \/ MergeRegistry \/ MergeWhole \/ EndMerge
             \/ LoadNamedMaps \/ LaunchNode \/ LaunchRaises \/ Return
    <3>1. merged' = Absent
      BY <2>3 DEF Select, Unreadable, MergeRegistry, MergeWhole, EndMerge, LoadNamedMaps,
        LaunchNode, LaunchRaises, Return, Visiting, IInv, MergedInMerges, Merges, mergeVars
    <3> QED
      BY <3>1 DEF MergeGoesOn, Merging
  <2> QED
    BY <2>1, <2>2, <2>3 DEF Next, Ended
<1>4. LaunchedSoFar'
  <2>1. CASE LoadNamedMaps
    BY <2>1, LoopBegins
  <2>2. CASE LaunchNode
    BY <2>2, VisitKeeps
  <2>3. CASE Return \/ UNCHANGED vars
    <3>1. /\ UNCHANGED <<registry, launched, at, ActiveNodes>>
        /\ (phase' \in Launching => phase \in Launching)
      BY <2>3 DEF Return, vars, mergeVars, ActiveNodes, Launching
    <3>2. \A n : StartsOf(n)' = StartsOf(n)
      BY <3>1 DEF StartsOf
    <3> QED
      BY <3>1, <3>2 DEF LaunchedSoFar
  <2>4. CASE \/ Select \/ Unreadable \/ MergeRegistry \/ MergeWhole \/ BeginMerge \/ RemoveItem
             \/ OverlayItem \/ AppendItem \/ EndMerge \/ LaunchRaises
    <3>1. phase' \notin Launching
      BY <2>4 DEF Select, Unreadable, MergeRegistry, MergeWhole, BeginMerge,
             RemoveItem, OverlayItem,
        AppendItem, EndMerge, LaunchRaises, InLoop, Merging, Merges, AfterMerge, Launching
    <3> QED
      BY <3>1 DEF LaunchedSoFar
  <2> QED
    BY <2>1, <2>2, <2>3, <2>4 DEF Next, Ended
<1> QED
  BY <1>1, <1>2, <1>3, <1>4

LEMMA LayersInvariance == Spec => [](IInv /\ LInv)
<1>1. Init => IInv /\ LInv
  BY InitEstablishes, InitLayers
<1>2. (IInv /\ LInv) /\ [Next]_vars => (IInv /\ LInv)'
  BY StepKeeps, LayersStep
<1> QED
  BY <1>1, <1>2, PTL DEF Spec

-----------------------------------------------------------------------------
(* What is launched in the end. *)

\* The lists that the launched nodes come from.
LEMMA InTheEnd ==
  ASSUME IInv, LInv, phase = "returned"
  PROVE  /\ {input.everywhere, input.everywhereOverlay, input.host, input.hostOverlay}
             \subseteq List
         /\ \A m \in Merges : assignment[m] \in List
         /\ MergedFrom(assignment["everywhere"], input.everywhere, input.everywhereOverlay)
         /\ MergedFrom(assignment["host"], input.host, input.hostOverlay)
         /\ MergedFrom(assignment["both"], assignment["everywhere"], assignment["host"])
BY DEF IInv, TypeOK, IsInput, LInv, ListsMerged, AfterEverywhere, AfterHosts, Launching

LEMMA NoItems ==
  ASSUME NEW list \in List, NEW n
  PROVE  ItemsOf(list, n) = {} <=> ~Deploys(list, n)
<1>1. CASE list = Absent
  BY <1>1 DEF ItemsOf, Deploys
<1>2. CASE list # Absent
  <2>1. list \in Seq(Item)
    BY <1>2 DEF List
  <2> QED
    BY <1>2, <2>1, InItems DEF Deploys
<1> QED
  BY <1>1, <1>2

\* Before the position after the last one there is the whole list.
LEMMA AllBefore ==
  ASSUME NEW list \in Seq(Item), NEW n, NEW k \in Nat, k > Len(list)
  PROVE  Before(list, n, k) = ItemsOf(list, n)
<1>1. \A i \in DOMAIN list : i < k
  OBVIOUS
<1>2. \A item \in Before(list, n, k) : item \in ItemsOf(list, n)
  BY InBefore, InItems
<1>3. \A item \in ItemsOf(list, n) : item \in Before(list, n, k)
  BY <1>1, InBefore, InItems
<1> QED
  BY <1>2, <1>3

\* Once the loop is over, the elements of a name that the merged list has at
\* most once are all there is to its actions.
LEMMA LaunchedInTheEnd ==
  ASSUME IInv, LInv, phase = "returned", NEW n \in Names, NamedOnce(assignment["both"], n)
  PROVE  LET items == ItemsOf(assignment["both"], n)
         IN  /\ \A i, j \in StartsOf(n) : i = j
             /\ StartsOf(n) # {} <=> Runs(registry, n) /\ items # {}
             /\ \A i \in StartsOf(n) : \E item \in items :
                  launched[i].param = ParamOf(item, registry[n], launched[i].via)
<1>1. assignment["both"] \in List
  BY InTheEnd DEF Merges
<1>2. ActiveNodes \in Seq(Item) /\ at \in Nat /\ at > Len(ActiveNodes)
  BY <1>1 DEF ActiveNodes, List, IInv, TypeOK, LInv, LoopsStart
<1>3. ItemsOf(ActiveNodes, n) = ItemsOf(assignment["both"], n) /\ NamedOnce(ActiveNodes, n)
  <2>1. CASE assignment["both"] = Absent
    <3>1. DOMAIN ActiveNodes = {}
      BY <2>1 DEF ActiveNodes
    <3>2. ItemsOf(ActiveNodes, n) = {} /\ NamedOnce(ActiveNodes, n)
      BY <1>2, <3>1, InItems DEF NamedOnce
    <3> QED
      BY <2>1, <3>2 DEF ItemsOf
  <2>2. CASE assignment["both"] # Absent
    BY <2>2 DEF ActiveNodes
  <2> QED
    BY <2>1, <2>2
<1>4. Before(ActiveNodes, n, at) = ItemsOf(assignment["both"], n)
  BY <1>2, <1>3, AllBefore
<1> QED
  BY <1>3, <1>4 DEF LInv, LaunchedSoFar, Launching

\* Two lists without a name merge into one without it.
LEMMA MergeOfNone ==
  ASSUME NEW base \in List, NEW overlay \in List, NEW result, MergedFrom(result, base, overlay),
         NEW n \in Names, ~Deploys(base, n), ~Deploys(overlay, n)
  PROVE  ItemsOf(result, n) = {}
<1>1. ItemsOf(base, n) = {} /\ ItemsOf(overlay, n) = {}
  BY NoItems
<1>2. CASE base = Absent \/ overlay = Absent
  BY <1>1, <1>2 DEF MergedFrom
<1>3. CASE base # Absent /\ overlay # Absent
  <2>1. overlay \in Seq(Item)
    BY <1>3 DEF List
  <2>2. NamedOnce(base, n) /\ NamedOnce(overlay, n) /\ Keeps(overlay, n)
    BY <1>3 DEF Deploys, NamedOnce, Keeps
  <2>3. Before(overlay, n, Len(overlay) + 1) = {}
    BY <1>1, <2>1, AllBefore
  <2>4. ItemsOf(result, n) = Combined(ItemsOf(base, n), Before(overlay, n, Len(overlay) + 1))
    BY <1>3, <2>2 DEF MergedFrom, MergedUpTo
  <2> QED
    BY <1>1, <2>3, <2>4 DEF Combined
<1> QED
  BY <1>2, <1>3

\* A list takes out a name whose last element in it is a removal.
LEMMA MergeRemoves ==
  ASSUME NEW base \in List, base # Absent, NEW overlay \in Seq(Item), NEW result,
         MergedFrom(result, base, overlay),
         NEW n \in Names, NamedOnce(base, n),
         \E i \in DOMAIN overlay :
           /\ overlay[i].name = n /\ overlay[i].remove
           /\ \A j \in DOMAIN overlay : overlay[j].name = n => j <= i
  PROVE  ItemsOf(result, n) = {}
<1>1. \A i \in DOMAIN overlay : i < Len(overlay) + 1
  OBVIOUS
<1>2. RemovesLast(overlay, n, Len(overlay) + 1)
  BY <1>1 DEF RemovesLast
<1>3. overlay # Absent
  BY InItems
<1> QED
  BY <1>2, <1>3 DEF MergedFrom, MergedUpTo

LEMMA RemovalHolds ==
  IInv /\ LInv => RemovalWorks
<1> SUFFICES ASSUME IInv, LInv, phase = "returned", NEW n \in Names, ScenarioRemoves(n),
                    NamedOnce(input.everywhere, n), NamedOnce(input.host, n),
                    \/ /\ input.host # Absent
                       /\ ~Deploys(input.everywhere, n) /\ ~Deploys(input.everywhereOverlay, n)
                    \/ input.host = Absent /\ input.everywhere # Absent
             PROVE  StartsOf(n) = {}
  BY DEF RemovalWorks
<1> DEFINE E == assignment["everywhere"]
           H == assignment["host"]
           B == assignment["both"]
<1>1. /\ {input.everywhere, input.everywhereOverlay, input.host, input.hostOverlay} \subseteq List
      /\ E \in List /\ H \in List /\ B \in List
      /\ MergedFrom(E, input.everywhere, input.everywhereOverlay)
      /\ MergedFrom(H, input.host, input.hostOverlay)
      /\ MergedFrom(B, E, H)
  BY InTheEnd DEF Merges
<1>2. /\ input.hostOverlay \in Seq(Item) /\ input.hostOverlay # Absent
      /\ \E i \in DOMAIN input.hostOverlay :
           /\ input.hostOverlay[i].name = n /\ input.hostOverlay[i].remove
           /\ \A j \in DOMAIN input.hostOverlay : input.hostOverlay[j].name = n => j <= i
  BY <1>1 DEF ScenarioRemoves, List
<1> HIDE DEF E, H, B
<1>3. ItemsOf(B, n) = {}
  <2>1. CASE /\ input.host # Absent
             /\ ~Deploys(input.everywhere, n) /\ ~Deploys(input.everywhereOverlay, n)
    <3>1. ~Deploys(E, n)
      BY <1>1, <2>1, MergeOfNone, NoItems
    <3>2. ~Deploys(H, n)
      BY <1>1, <1>2, <2>1, MergeRemoves, NoItems
    <3> QED
      BY <1>1, <3>1, <3>2, MergeOfNone
  <2>2. CASE input.host = Absent /\ input.everywhere # Absent
    <3>1. H = input.hostOverlay
      BY <1>1, <2>2 DEF MergedFrom
    <3>2. E # Absent /\ NamedOnce(E, n)
      <4>1. CASE input.everywhereOverlay = Absent
        BY <1>1, <2>2, <4>1 DEF MergedFrom
      <4>2. CASE input.everywhereOverlay # Absent
        BY <1>1, <2>2, <4>2 DEF MergedFrom, MergedUpTo
      <4> QED
        BY <4>1, <4>2
    <3> QED
      BY <1>1, <1>2, <3>1, <3>2, MergeRemoves
  <2> QED
    BY <2>1, <2>2
<1>4. NamedOnce(B, n)
  <2>1. ~Deploys(B, n)
    BY <1>1, <1>3, NoItems
  <2> QED
    BY <2>1 DEF Deploys, NamedOnce
<1> QED
  BY <1>3, <1>4, LaunchedInTheEnd DEF B

\* The elements of a name have the parameter, which is not set if there are none.
AllHave(items, param) ==
  /\ items = {} => param = Unset
  /\ \A item \in items : item.param = param
Layer(list, n, layer) == IF Sets(list, n) THEN layer ELSE Unset

LEMMA CombinedHave ==
  ASSUME NEW a, NEW b, NEW p, NEW q, AllHave(a, p), AllHave(b, q)
  PROVE  AllHave(Combined(a, b), Over(q, p)) /\ (Combined(a, b) = {} <=> a = {} /\ b = {})
<1>1. CASE b = {}
  BY <1>1 DEF Combined, AllHave, Over
<1>2. CASE b # {} /\ a = {}
  BY <1>2 DEF Combined, AllHave, Over
<1>3. CASE b # {} /\ a # {}
  <2>1. Combined(a, b) = {MergedItem(old, new) : old \in a, new \in b}
    BY <1>3 DEF Combined
  <2>2. Combined(a, b) # {}
    <3>1. PICK old \in a, new \in b : TRUE
      BY <1>3
    <3>2. MergedItem(old, new) \in Combined(a, b)
      BY <2>1
    <3> QED
      BY <3>2
  <2>3. ASSUME NEW item \in Combined(a, b) PROVE item.param = Over(q, p)
    <3>1. PICK old \in a, new \in b : item = MergedItem(old, new)
      BY <2>1
    <3> QED
      BY <3>1 DEF MergedItem, AllHave
  <2> QED
    BY <1>3, <2>2, <2>3 DEF AllHave
<1> QED
  BY <1>1, <1>2, <1>3

LEMMA CombinedKeeps ==
  ASSUME NEW a, NEW b, \A item \in a \cup b : ~item.remove
  PROVE  \A item \in Combined(a, b) : ~item.remove
BY DEF Combined, MergedItem

LEMMA ListHas ==
  ASSUME NEW list \in List, NEW n, NamedOnce(list, n), NEW layer, layer # Unset,
         OfLayer(list, layer), list # Absent => Keeps(list, n)
  PROVE  /\ AllHave(ItemsOf(list, n), Layer(list, n, layer))
         /\ \A item \in ItemsOf(list, n) : ~item.remove
<1>1. CASE list = Absent
  BY <1>1 DEF ItemsOf, AllHave, Layer, Sets
<1>2. CASE list # Absent
  <2>1. list \in Seq(Item)
    BY <1>2 DEF List
  <2>2. \A i \in DOMAIN list :
          list[i].name = n => ~list[i].remove /\ list[i].param = Layer(list, n, layer)
    <3> SUFFICES ASSUME NEW i \in DOMAIN list, list[i].name = n
                 PROVE  ~list[i].remove /\ list[i].param = Layer(list, n, layer)
      OBVIOUS
    <3>1. list[i].param \in {layer, Unset}
      BY <1>2 DEF OfLayer
    <3>2. Sets(list, n) <=> list[i].param # Unset
      BY <1>2 DEF Sets, NamedOnce
    <3>3. ~list[i].remove
      BY <1>2 DEF Keeps
    <3> QED
      BY <3>1, <3>2, <3>3 DEF Layer
  <2>3. ItemsOf(list, n) = {} => ~Sets(list, n)
    BY <1>2, <2>1, InItems DEF Sets
  <2> QED
    BY <2>1, <2>2, <2>3, InItems DEF AllHave, Layer
<1> QED
  BY <1>1, <1>2

\* Two lists that do not remove a name and have it at most once merge into one
\* that has it at most once, the two elements combined.
LEMMA MergeOfOnce ==
  ASSUME NEW base \in List, NEW overlay \in List, NEW result, MergedFrom(result, base, overlay),
         NEW n \in Names, NamedOnce(base, n), NamedOnce(overlay, n),
         overlay # Absent => Keeps(overlay, n)
  PROVE  /\ NamedOnce(result, n)
         /\ ItemsOf(result, n) = Combined(ItemsOf(base, n), ItemsOf(overlay, n))
<1>1. \A a : Combined(a, {}) = a /\ Combined({}, a) = a
  BY DEF Combined
<1>2. CASE overlay = Absent
  <2>1. result = base /\ ItemsOf(overlay, n) = {}
    BY <1>2 DEF MergedFrom, ItemsOf
  <2> QED
    BY <1>1, <2>1
<1>3. CASE overlay # Absent /\ base = Absent
  <2>1. result = overlay /\ ItemsOf(base, n) = {}
    BY <1>3 DEF MergedFrom, ItemsOf
  <2> QED
    BY <1>1, <2>1
<1>4. CASE overlay # Absent /\ base # Absent
  <2>1. overlay \in Seq(Item)
    BY <1>4 DEF List
  <2>2. Before(overlay, n, Len(overlay) + 1) = ItemsOf(overlay, n)
    BY <2>1, AllBefore
  <2> QED
    BY <1>4, <2>2 DEF MergedFrom, MergedUpTo
<1> QED
  BY <1>2, <1>3, <1>4

\* A layer is not the value of a parameter that is not set.
LEMMA LayersSet ==
  /\ "launch file" # Unset /\ "registry" # Unset /\ "registry overlay" # Unset
  /\ "everywhere" # Unset /\ "everywhere overlay" # Unset
  /\ "host" # Unset /\ "host overlay" # Unset
<1>1. {1, 2, 3, 4, 5, 6, 7} \subseteq DOMAIN Strength
  BY DEF Strength
<1>2. /\ Strength[1] = "launch file" /\ Strength[2] = "registry" /\ Strength[3] = "registry overlay"
      /\ Strength[4] = "everywhere" /\ Strength[5] = "everywhere overlay"
      /\ Strength[6] = "host" /\ Strength[7] = "host overlay"
  BY DEF Strength
<1> QED
  BY <1>1, <1>2, UnsetAssumption

\* A node can be launched from the merged registry if it can be from one of
\* the two, and the overlay's parameter is over the baseline's.
LEMMA RegistryHas ==
  ASSUME IInv, LInv, phase = "returned", NEW n
  PROVE  /\ Runs(registry, n) <=>
              Launchable(input.registry, n) \/ Launchable(input.registryOverlay, n)
         /\ n \in DOMAIN registry =>
              registry[n].param =
                Over(IF Gives(input.registryOverlay, n) THEN "registry overlay" ELSE Unset,
                     IF Gives(input.registry, n) THEN "registry" ELSE Unset)
<1> DEFINE r == input.registry
           o == input.registryOverlay
<1>1. /\ r # Absent /\ IsRegistry(r) /\ (o # Absent => IsRegistry(o))
      /\ DefinedIn(r, "registry") /\ DefinedIn(o, "registry overlay")
  BY DEF IInv, TypeOK, IsInput
<1>2. IF o = Absent THEN registry = r ELSE ~Changes(o, r) /\ registry = MergedRegistry(r, o)
  BY DEF LInv, RegistryMerged, AfterEverywhere, AfterHosts, Launching
<1>3. "registry" # Unset /\ "registry overlay" # Unset
  BY LayersSet
<1> HIDE DEF r, o
<1>4. n \in DOMAIN r => r[n].param = IF Gives(r, n) THEN "registry" ELSE Unset
  BY <1>1 DEF DefinedIn, Gives, Defines
<1>5. o # Absent /\ n \in DOMAIN o =>
        o[n].param = IF Gives(o, n) THEN "registry overlay" ELSE Unset
  BY <1>1 DEF DefinedIn, Gives, Defines
<1>6. CASE o = Absent
  BY <1>1, <1>2, <1>4, <1>6 DEF Runs, Launchable, Defines, Gives, Over, r, o
<1>7. CASE o # Absent
  <2>1. registry = MergedRegistry(r, o) /\ DOMAIN registry = DOMAIN r \cup DOMAIN o
    BY <1>2, <1>7 DEF MergedRegistry
  <2>2. CASE n \notin DOMAIN o
    <3>1. n \in DOMAIN r => registry[n] = r[n]
      BY <2>1, <2>2 DEF MergedRegistry
    <3> QED
      BY <1>1, <1>4, <2>1, <2>2, <3>1 DEF Runs, Launchable, Defines, Gives, Over, r, o
  <2>3. CASE n \in DOMAIN o /\ n \notin DOMAIN r
    <3>1. registry[n] = o[n]
      BY <2>1, <2>3 DEF MergedRegistry
    <3>2. ~Gives(r, n)
      BY <2>3 DEF Gives, Defines
    <3> QED
      BY <1>1, <1>5, <1>7, <2>1, <2>3, <3>1, <3>2 DEF Runs, Launchable, Defines, Over, r, o
  <2>4. CASE n \in DOMAIN o /\ n \in DOMAIN r
    <3>1. registry[n] = MergedEntry(r[n], o[n])
      BY <2>1, <2>4 DEF MergedRegistry
    <3>2. o[n].launch \in {Unset, r[n].launch} /\ o[n].executable \in {Unset, r[n].executable}
      BY <1>2, <1>7, <2>4 DEF Changes
    <3>3. /\ registry[n].launch = r[n].launch /\ registry[n].executable = r[n].executable
          /\ registry[n].param = Over(o[n].param, r[n].param)
      BY <3>1, <3>2 DEF MergedEntry, Over
    <3>4. Implementation(registry[n]) = Implementation(r[n])
      BY <3>3 DEF Implementation
    <3>5. Implementation(o[n]) # Unset => Implementation(r[n]) # Unset
      BY <3>2 DEF Implementation
    <3>6. Runs(registry, n) <=> Launchable(r, n) \/ Launchable(o, n)
      BY <1>1, <1>7, <2>1, <2>4, <3>4, <3>5 DEF Runs, Launchable, Defines
    <3>7. registry[n].param = Over(IF Gives(o, n) THEN "registry overlay" ELSE Unset,
                                   IF Gives(r, n) THEN "registry" ELSE Unset)
      BY <1>4, <1>5, <1>7, <2>4, <3>3
    <3> QED
      BY <3>6, <3>7 DEF r, o
  <2> QED
    BY <2>2, <2>3, <2>4
<1> QED
  BY <1>6, <1>7

\* The strongest layer that sets the parameter, as the merges find it: each
\* layer over the weaker ones.
LEMMA Strongest ==
  ASSUME NEW n
  PROVE  StrongestFor(n) =
           Over(Over(Layer(input.hostOverlay, n, "host overlay"), Layer(input.host, n, "host")),
             Over(Over(Layer(input.everywhereOverlay, n, "everywhere overlay"),
                       Layer(input.everywhere, n, "everywhere")),
               Over(Over(IF Gives(input.registryOverlay, n) THEN "registry overlay" ELSE Unset,
                         IF Gives(input.registry, n) THEN "registry" ELSE Unset),
                 "launch file")))
<1> DEFINE S == SettersOf(n)
<1>1. ASSUME NEW l \in S, \A k \in S : k <= l
      PROVE  StrongestFor(n) = Strength[l]
  <2>1. \A m \in S : (\A k \in S : k <= m) => m = l
    <3> TAKE m \in S
    <3>1. S \subseteq 1..7
      <4>1. DOMAIN Strength = 1..7
        BY DEF Strength
      <4> QED
        BY <4>1 DEF SettersOf
    <3>2. m \in Nat /\ l \in Nat
      BY <3>1
    <3> QED
      BY <1>1, <3>2
  <2> HIDE DEF S
  <2>2. (CHOOSE m \in S : \A k \in S : k <= m) = l
    BY <1>1, <2>1
  <2> QED
    BY <2>2 DEF StrongestFor, S
<1>2. /\ Strength[1] = "launch file" /\ Strength[2] = "registry" /\ Strength[3] = "registry overlay"
      /\ Strength[4] = "everywhere" /\ Strength[5] = "everywhere overlay"
      /\ Strength[6] = "host" /\ Strength[7] = "host overlay"
  BY DEF Strength
<1>3. {1, 2, 3, 4, 5, 6, 7} \subseteq DOMAIN Strength /\ DOMAIN Strength = 1..7
  BY DEF Strength
<1>4. /\ \A k \in S : k \in 1..7
      /\ 1 \in S
      /\ 2 \in S <=> Gives(input.registry, n)
      /\ 3 \in S <=> Gives(input.registryOverlay, n)
      /\ 4 \in S <=> Sets(input.everywhere, n)
      /\ 5 \in S <=> Sets(input.everywhereOverlay, n)
      /\ 6 \in S <=> Sets(input.host, n)
      /\ 7 \in S <=> Sets(input.hostOverlay, n)
  BY <1>2, <1>3 DEF SettersOf
<1> HIDE DEF S
<1> USE DEF Over, Layer
<1>5. CASE 7 \in S
  <2>1. StrongestFor(n) = Strength[7]
    BY <1>1, <1>4, <1>5
  <2> QED
    BY <1>2, <1>4, <1>5, <2>1, LayersSet
<1>6. CASE 7 \notin S /\ 6 \in S
  <2>1. StrongestFor(n) = Strength[6]
    BY <1>1, <1>4, <1>6
  <2> QED
    BY <1>2, <1>4, <1>6, <2>1, LayersSet
<1>7. CASE 7 \notin S /\ 6 \notin S /\ 5 \in S
  <2>1. StrongestFor(n) = Strength[5]
    BY <1>1, <1>4, <1>7
  <2> QED
    BY <1>2, <1>4, <1>7, <2>1, LayersSet
<1>8. CASE 7 \notin S /\ 6 \notin S /\ 5 \notin S /\ 4 \in S
  <2>1. StrongestFor(n) = Strength[4]
    BY <1>1, <1>4, <1>8
  <2> QED
    BY <1>2, <1>4, <1>8, <2>1, LayersSet
<1>9. CASE 7 \notin S /\ 6 \notin S /\ 5 \notin S /\ 4 \notin S /\ 3 \in S
  <2>1. StrongestFor(n) = Strength[3]
    BY <1>1, <1>4, <1>9
  <2> QED
    BY <1>2, <1>4, <1>9, <2>1, LayersSet
<1>10. CASE 7 \notin S /\ 6 \notin S /\ 5 \notin S /\ 4 \notin S /\ 3 \notin S /\ 2 \in S
  <2>1. StrongestFor(n) = Strength[2]
    BY <1>1, <1>4, <1>10
  <2> QED
    BY <1>2, <1>4, <1>10, <2>1, LayersSet
<1>11. CASE 7 \notin S /\ 6 \notin S /\ 5 \notin S /\ 4 \notin S /\ 3 \notin S /\ 2 \notin S
  <2>1. StrongestFor(n) = Strength[1]
    BY <1>1, <1>4, <1>11
  <2> QED
    BY <1>2, <1>4, <1>11, <2>1, LayersSet
<1> QED
  BY <1>5, <1>6, <1>7, <1>8, <1>9, <1>10, <1>11

\* The element of a node that no list removes or names twice.
LEMMA LayeredItem ==
  ASSUME IInv, LInv, phase = "returned", NEW n \in Names,
         NeverRemoved(n), \A list \in Lists : NamedOnce(list, n)
  PROVE  /\ NamedOnce(assignment["both"], n)
         /\ ItemsOf(assignment["both"], n) # {} <=> \E list \in Lists : Deploys(list, n)
         /\ AllHave(ItemsOf(assignment["both"], n),
              Over(Over(Layer(input.hostOverlay, n, "host overlay"), Layer(input.host, n, "host")),
                   Over(Layer(input.everywhereOverlay, n, "everywhere overlay"),
                        Layer(input.everywhere, n, "everywhere"))))
<1> DEFINE E == assignment["everywhere"]
           H == assignment["host"]
           B == assignment["both"]
           e == input.everywhere
           eo == input.everywhereOverlay
           h == input.host
           ho == input.hostOverlay
<1>1. /\ e \in List /\ eo \in List /\ h \in List /\ ho \in List
      /\ E \in List /\ H \in List /\ B \in List
      /\ MergedFrom(E, e, eo) /\ MergedFrom(H, h, ho) /\ MergedFrom(B, E, H)
  BY InTheEnd DEF Merges
<1>2. /\ NamedOnce(e, n) /\ NamedOnce(eo, n) /\ NamedOnce(h, n) /\ NamedOnce(ho, n)
  BY DEF Lists
<1>3. /\ e # Absent => Keeps(e, n)
      /\ eo # Absent => Keeps(eo, n)
      /\ h # Absent => Keeps(h, n)
      /\ ho # Absent => Keeps(ho, n)
  BY DEF Lists, NeverRemoved, Keeps
<1>4. /\ OfLayer(e, "everywhere") /\ OfLayer(eo, "everywhere overlay")
      /\ OfLayer(h, "host") /\ OfLayer(ho, "host overlay")
  BY DEF IInv, TypeOK, IsInput
<1>5. /\ "everywhere" # Unset /\ "everywhere overlay" # Unset
      /\ "host" # Unset /\ "host overlay" # Unset
  BY LayersSet
<1>6. Lists = {e, eo, h, ho}
  BY DEF Lists
<1> HIDE DEF E, H, B, e, eo, h, ho
<1> DEFINE le  == Layer(e, n, "everywhere")
           leo == Layer(eo, n, "everywhere overlay")
           lh  == Layer(h, n, "host")
           lho == Layer(ho, n, "host overlay")
<1>7. AllHave(ItemsOf(e, n), le) /\ AllHave(ItemsOf(eo, n), leo)
  BY <1>1, <1>2, <1>3, <1>4, <1>5, ListHas
<1>8. /\ AllHave(ItemsOf(h, n), lh) /\ AllHave(ItemsOf(ho, n), lho)
      /\ \A item \in ItemsOf(h, n) \cup ItemsOf(ho, n) : ~item.remove
  BY <1>1, <1>2, <1>3, <1>4, <1>5, ListHas
<1>9. NamedOnce(E, n) /\ ItemsOf(E, n) = Combined(ItemsOf(e, n), ItemsOf(eo, n))
  BY <1>1, <1>2, <1>3, MergeOfOnce
<1>10. NamedOnce(H, n) /\ ItemsOf(H, n) = Combined(ItemsOf(h, n), ItemsOf(ho, n))
  BY <1>1, <1>2, <1>3, MergeOfOnce
<1>11. H # Absent => Keeps(H, n)
  <2> SUFFICES ASSUME H # Absent, NEW i \in DOMAIN H, H[i].name = n PROVE ~H[i].remove
    BY DEF Keeps
  <2>1. H \in Seq(Item)
    BY <1>1 DEF List
  <2>2. H[i] \in ItemsOf(H, n)
    BY <2>1, InItems
  <2> QED
    BY <1>8, <1>10, <2>2, CombinedKeeps
<1>12. NamedOnce(B, n) /\ ItemsOf(B, n) = Combined(ItemsOf(E, n), ItemsOf(H, n))
  BY <1>1, <1>9, <1>10, <1>11, MergeOfOnce
<1> HIDE DEF le, leo, lh, lho
<1>13. /\ AllHave(ItemsOf(E, n), Over(leo, le))
       /\ ItemsOf(E, n) = {} <=> ItemsOf(e, n) = {} /\ ItemsOf(eo, n) = {}
  BY <1>7, <1>9, CombinedHave
<1>14. /\ AllHave(ItemsOf(H, n), Over(lho, lh))
       /\ ItemsOf(H, n) = {} <=> ItemsOf(h, n) = {} /\ ItemsOf(ho, n) = {}
  BY <1>8, <1>10, CombinedHave
<1>15. /\ AllHave(ItemsOf(B, n), Over(Over(lho, lh), Over(leo, le)))
       /\ ItemsOf(B, n) = {} <=> ItemsOf(E, n) = {} /\ ItemsOf(H, n) = {}
  BY <1>12, <1>13, <1>14, CombinedHave
<1>16. ItemsOf(B, n) # {} <=> \E list \in Lists : Deploys(list, n)
  BY <1>1, <1>6, <1>13, <1>14, <1>15, NoItems
<1> QED
  BY <1>12, <1>15, <1>16 DEF le, leo, lh, lho, B, e, eo, h, ho

LEMMA LayersHold ==
  IInv /\ LInv => LaunchedAsLayered
<1> SUFFICES ASSUME IInv, LInv, phase = "returned", NEW n \in Names,
                    NeverRemoved(n), \A list \in Lists : NamedOnce(list, n)
             PROVE  /\ Cardinality(StartsOf(n)) =
                         IF /\ \E list \in Lists : Deploys(list, n)
                            /\ Launchable(input.registry, n) \/ Launchable(input.registryOverlay, n)
                         THEN 1 ELSE 0
                    /\ \A i \in StartsOf(n) :
                         launched[i].param =
                           IF launched[i].via = "executable" /\ StrongestFor(n) = "launch file"
                           THEN Unset ELSE StrongestFor(n)
  BY DEF LaunchedAsLayered
<1> DEFINE deployed == Over(Over(Layer(input.hostOverlay, n, "host overlay"),
                                 Layer(input.host, n, "host")),
                            Over(Layer(input.everywhereOverlay, n, "everywhere overlay"),
                                 Layer(input.everywhere, n, "everywhere")))
           defined  == Over(IF Gives(input.registryOverlay, n) THEN "registry overlay" ELSE Unset,
                            IF Gives(input.registry, n) THEN "registry" ELSE Unset)
           items    == ItemsOf(assignment["both"], n)
<1>1. /\ NamedOnce(assignment["both"], n)
      /\ items # {} <=> \E list \in Lists : Deploys(list, n)
      /\ AllHave(items, deployed)
  BY LayeredItem
<1>2. /\ \A i, j \in StartsOf(n) : i = j
      /\ StartsOf(n) # {} <=> Runs(registry, n) /\ items # {}
      /\ \A i \in StartsOf(n) : \E item \in items :
           launched[i].param = ParamOf(item, registry[n], launched[i].via)
  BY <1>1, LaunchedInTheEnd
<1>3. /\ Runs(registry, n) <=> Launchable(input.registry, n) \/ Launchable(input.registryOverlay, n)
      /\ n \in DOMAIN registry => registry[n].param = defined
  BY RegistryHas
<1>4. StrongestFor(n) = Over(deployed, Over(defined, "launch file"))
  BY Strongest DEF Over
<1>5. "launch file" # Unset
  BY LayersSet
<1>6. deployed # "launch file" /\ defined # "launch file"
  BY <1>5 DEF Over, Layer
<1> HIDE DEF deployed, defined, items
<1>7. Cardinality(StartsOf(n)) = IF StartsOf(n) # {} THEN 1 ELSE 0
  <2>1. CASE StartsOf(n) = {}
    BY <2>1, FS_EmptySet
  <2>2. CASE StartsOf(n) # {}
    <3>1. PICK i \in StartsOf(n) : TRUE
      BY <2>2
    <3>2. StartsOf(n) = {i}
      BY <1>2, <3>1
    <3>3. Cardinality({i}) = 1
      BY FS_Singleton
    <3> QED
      BY <2>2, <3>2, <3>3
  <2> QED
    BY <2>1, <2>2
<1>8. ASSUME NEW i \in StartsOf(n)
      PROVE  launched[i].param =
               IF launched[i].via = "executable" /\ StrongestFor(n) = "launch file"
               THEN Unset ELSE StrongestFor(n)
  <2>1. launched[i].via \in {"launch_file", "executable"}
    <3>1. launched[i] \in Action
      BY DEF StartsOf, IInv, TypeOK
    <3> QED
      BY <3>1 DEF Action
  <2>2. PICK item \in items : launched[i].param = ParamOf(item, registry[n], launched[i].via)
    BY <1>2
  <2>3. item.param = deployed
    BY <1>1 DEF AllHave
  <2>4. registry[n].param = defined
    BY <1>2, <1>3 DEF Runs
  <2>5. launched[i].param =
          IF launched[i].via = "launch_file"
          THEN Over(Over(deployed, defined), "launch file") ELSE Over(deployed, defined)
    BY <2>2, <2>3, <2>4 DEF ParamOf
  <2> QED
    BY <1>4, <1>5, <1>6, <2>1, <2>5 DEF Over
<1> QED
  BY <1>1, <1>2, <1>3, <1>7, <1>8

LEMMA Invariance == Spec => []IInv
<1>1. Init => IInv
  BY InitEstablishes
<1>2. IInv /\ [Next]_vars => IInv'
  BY StepKeeps
<1> QED
  BY <1>1, <1>2, PTL DEF Spec

(* The orchestrator's state is well typed, for every set of names,         *)
(* implementations and files: each list is a list, each action has a type. *)
THEOREM TypeCorrect == Spec => []TypeOK
<1>1. IInv => TypeOK
  BY DEF IInv
<1> QED
  BY <1>1, Invariance, PTL

(* However many elements of an overlay are removed, changed or added, in   *)
(* lists in which names may occur twice, the positions that                *)
(* merge_named_lists keeps are those of elements of their names.           *)
THEOREM IndexesSafe == Spec => []IndexesFresh
<1>1. IInv => IndexesFresh
  BY DEF IInv
<1> QED
  BY <1>1, Invariance, PTL

(* Whatever a scenario overlays, a node of the baseline registry is        *)
(* launched with the baseline's launch file or executable.                 *)
THEOREM ProtectionSafe == Spec => []ProtectedKept
<1>1. IInv => ProtectedKept
  BY DEF IInv
<1> QED
  BY <1>1, Invariance, PTL

(* However the files overlay each other, a node that no list removes or    *)
(* names twice is launched once if some list deploys it and a registry     *)
(* implements it, not at all otherwise, with the parameter of the          *)
(* strongest layer that sets it.                                           *)
THEOREM LayersSafe == Spec => []LaunchedAsLayered
<1>1. IInv /\ LInv => LaunchedAsLayered
  BY LayersHold
<1> QED
  BY <1>1, LayersInvariance, PTL

(* A scenario's removal of a node from this host works where the baseline  *)
(* has a list for this host and no list of every host deploys the node, or *)
(* where it has only one of every host, however long the lists are and     *)
(* however often the overlays name the node before.                        *)
THEOREM RemovalSafe == Spec => []RemovalWorks
<1>1. IInv /\ LInv => RemovalWorks
  BY RemovalHolds
<1> QED
  BY <1>1, LayersInvariance, PTL

=============================================================================
