------------------------------- MODULE Preemption -------------------------------
(***************************************************************************)
(* How a unit whose pods fit nowhere makes room: for every member the pod    *)
(* scheduler looks for a node on which evicting running pods helps, chooses  *)
(* the victims there, and keeps the other nodes it found for the members     *)
(* that follow (framework.CachedNominatedNodes).  The filter plugins are     *)
(* abstracted to the one resource the victims give back; the searching and   *)
(* sorting plugins are those of the default configuration.  Checks that run  *)
(* in parallel and stop early may finish in any order.                       *)
(***************************************************************************)
EXTENDS Integers, Sequences, FiniteSets, SequencesExt

CONSTANTS
  Nodes,        \* the nodes of the node circle
  Running,      \* running pods: numbers, in the order in which they started
  NodeOf,       \* the node of a running pod
  SizeOf,       \* what a running pod requests
  Budgeted,     \* the running pods one PodDisruptionBudget covers
  Members,      \* how many pods of one template the unit has
  Request,      \* what a member requests
  Priority,     \* the priority of the members
  Priorities,   \* the priorities running pods may have
  Policies,     \* candidate select policies: "Best", "Better", "Random"
  Twists,       \* what is special about a scenario
  Nobody        \* no candidate

VARIABLES
  scn,       \* the scenario: priorities, free resource, budget, policy, twist
  present,   \* running pods left in the snapshot, by node
  placed,    \* members placed, by node
  allowed,   \* PDBChecker.pdbsAllowed: disruptions left
  cached,    \* CachedNominatedNodes: [count, used, unused]
  owner,     \* the cached preemption policy of the owner of the pods
  left,      \* members still to be placed
  crashed    \* a filter was given a node that is nil

vars == <<scn, present, placed, allowed, cached, owner, left, crashed>>

Lowest == -1               \* math.MinInt64
PriorityOffset == 1000     \* math.MaxInt32 + 1: above every sum of priorities

Total(pods) == FoldSet(LAMBDA p, sum : SizeOf[p] + sum, 0, pods)

Prio(p) == scn.prio[p]

(* Nodes a filter found unresolvable are taken out by prepareNodes.         *)
Resolvable == IF scn.twist = "unresolvable" THEN Nodes \ {CHOOSE n \in Nodes : TRUE} ELSE Nodes

-----------------------------------------------------------------------------
(* PodPassesFiltersOnNode, with the pods in gone removed from the node.     *)
Capacity(n) == scn.free + Total({p \in Running : NodeOf[p] = n})

Fits(n, gone) == Total(present[n] \ gone) + (placed[n] + 1) * Request <= Capacity(n)

(* OccupiableResourcesCheck: what is free and what pods below the partition *)
(* priority hold, whether or not they may be evicted.                       *)
OccupiableResourcesCheck(n) == Fits(n, {p \in present[n] : Prio(p) < Priority + 1})

(* PodInfo.Compare: the order of the splay tree GetVictimCandidates walks.  *)
Below(p, q) == Prio(p) < Prio(q) \/ (Prio(p) = Prio(q) /\ p > q)

GetVictimCandidates(n, gone, lower, upper) ==
  SetToSortSeq({p \in present[n] \ gone : lower < Prio(p) /\ Prio(p) < upper}, Below)

GetPrioritiesForPodsMayBePreempted(n) == {Prio(p) : p \in {q \in Running : NodeOf[q] = n}}

(* The searching plugins, one verdict each.                                 *)
PodLauncherChecker(p) == IF scn.twist = "nodemanager" /\ p = 1 THEN "fail" ELSE "notsure"

PreemptibilityChecker(p) == IF scn.twist = "protected" /\ p = 2 THEN "fail" ELSE "notsure"

NewlyStartedProtectionChecker(p) == IF scn.twist = "young" /\ p = 3 THEN "fail" ELSE "notsure"

PriorityValueChecker(p) == IF Prio(p) >= Priority THEN "fail" ELSE "succeed"

PDBChecker(p, budget) == IF p \in Budgeted /\ budget <= 0 THEN "fail" ELSE "notsure"

VictimSearching(plugin, p, budget) ==
  CASE plugin = "PodLauncher" -> PodLauncherChecker(p)
    [] plugin = "Preemptibility" -> PreemptibilityChecker(p)
    [] plugin = "NewlyStarted" -> NewlyStartedProtectionChecker(p)
    [] plugin = "PriorityValue" -> PriorityValueChecker(p)
    [] plugin = "PDB" -> PDBChecker(p, budget)

(* The default collections; the twist "quick" enables the quick pass.       *)
Collections ==
  <<[plugin |-> "PodLauncher", quick |-> FALSE, reject |-> FALSE],
    [plugin |-> "Preemptibility", quick |-> FALSE, reject |-> FALSE],
    [plugin |-> "NewlyStarted", quick |-> FALSE, reject |-> FALSE],
    [plugin |-> "PriorityValue", quick |-> scn.twist = "quick", reject |-> TRUE],
    [plugin |-> "PDB", quick |-> FALSE, reject |-> FALSE]>>

(* One collection after the others: what its plugin says is final, counts   *)
(* as a pass, quick or not, or leaves the pod to the collections after it.  *)
Run(acc, c, code) ==
  LET rejected == [acc EXCEPT !.verdict = IF acc.quick THEN "last" ELSE "fail"]
  IN  CASE acc.verdict # "open" -> acc
        [] acc.verdict = "open" /\ code = "fail" -> rejected
        [] acc.verdict = "open" /\ code = "succeed" ->
             [acc EXCEPT !.quick = @ \/ c.quick, !.pass = @ \/ ~c.quick]
        [] acc.verdict = "open" /\ code = "notsure" -> IF c.reject THEN rejected ELSE acc

Verdict(end) ==
  CASE end.verdict # "open" -> end.verdict
    [] end.verdict = "open" /\ end.quick -> "last"
    [] end.verdict = "open" /\ ~end.quick -> IF end.pass THEN "succeed" ELSE "fail"

(* RunVictimSearchingPlugins: "last" is a pod that SetPodsCanNotBePreempted *)
(* marks and that is a potential victim all the same.                       *)
RunVictimSearchingPlugins(p, budget) ==
  Verdict(FoldLeft(LAMBDA acc, c : Run(acc, c, VictimSearching(c.plugin, p, budget)),
                   [verdict |-> "open", quick |-> FALSE, pass |-> FALSE], Collections))

(* A pod that is a victim of another preemptor already is passed over.      *)
GetPreemptorsByVictim(p) == IF scn.twist = "victim" /\ p = 4 THEN {"other"} ELSE {}

(* One more potential victim, unless somebody or a plugin objects.          *)
WithVictim(acc, p, verdict) ==
  IF GetPreemptorsByVictim(p) # {} \/ verdict = "fail" THEN acc
  ELSE [victims |-> Append(acc.victims, p),
        last |-> IF verdict = "last" THEN acc.last \cup {p} ELSE acc.last,
        budget |-> IF p \in Budgeted THEN acc.budget - 1 ELSE acc.budget]

FilterVictimsPodsUncounted(n, st, lower, upper) ==
  FoldLeft(LAMBDA acc, p :
             [WithVictim(acc, p, RunVictimSearchingPlugins(p, acc.budget)) EXCEPT !.budget = acc.budget],
           [victims |-> <<>>, last |-> {}, budget |-> st.budget],
           GetVictimCandidates(n, st.gone, lower, upper))

(* FilterVictimsPods: the potential victims in a range of priorities, each  *)
(* of which uses up its budget (PDBChecker.PostVictimSearching).            *)
FilterVictimsPods(n, st, lower, upper) ==
  FoldLeft(LAMBDA acc, p : WithVictim(acc, p, RunVictimSearchingPlugins(p, acc.budget)),
           [victims |-> <<>>, last |-> {}, budget |-> st.budget],
           GetVictimCandidates(n, st.gone, lower, upper))

Untouched(budget) == [gone |-> {}, budget |-> budget]

(* The sort by moreImportantPod: the marked pods come last.                 *)
SortVictims(found) ==
  SelectSeq(found.victims, LAMBDA p : p \notin found.last)
    \o SelectSeq(found.victims, LAMBDA p : p \in found.last)

ReprieveFromFront(n, potential) ==
  FoldLeft(LAMBDA acc, p :
             IF Fits(n, acc.gone \ {p}) THEN [acc EXCEPT !.gone = @ \ {p}]
             ELSE [acc EXCEPT !.victims = Append(@, p)],
           [gone |-> ToSet(potential), victims |-> <<>>], potential).victims

(* With all potential victims gone, keep each one that may stay, from the   *)
(* end of the list to its front; the others are the victims, in that order. *)
Reprieve(n, potential) ==
  FoldLeft(LAMBDA acc, p :
             IF Fits(n, acc.gone \ {p}) THEN [acc EXCEPT !.gone = @ \ {p}]
             ELSE [acc EXCEPT !.victims = Append(@, p)],
           [gone |-> ToSet(potential), victims |-> <<>>], Reverse(potential)).victims

(* selectVictimsOnNode and preemptOnNode: a candidate, or Nobody.           *)
selectVictimsOnNode(n, potential, last) ==
  IF Fits(n, {}) THEN [name |-> n, victims |-> <<>>, last |-> {}]
  ELSE IF potential = <<>> \/ ~Fits(n, ToSet(potential)) THEN Nobody
  ELSE [name |-> n, victims |-> Reprieve(n, potential), last |-> last]

Nominate(n, found) == selectVictimsOnNode(n, SortVictims(found), found.last)

preemptOnNode(n, budget) ==
  Nominate(n, FilterVictimsPods(n, Untouched(budget), Lowest, Priority + 1))

-----------------------------------------------------------------------------
(* The sorting plugins; a positive result prefers the first candidate.      *)
MinHighestPriority(c, d) == Prio(d.victims[1]) - Prio(c.victims[1])

getPrioritySum(c) ==
  FoldLeft(LAMBDA sum, p : sum + Prio(p) + PriorityOffset, 0, c.victims)

MinPrioritySum(c, d) == getPrioritySum(d) - getPrioritySum(c)

LeastVictims(c, d) == Len(d.victims) - Len(c.victims)

GetEarliestPodStartTime(c) ==
  LET top == {p \in ToSet(c.victims) : \A q \in ToSet(c.victims) : Prio(q) <= Prio(p)}
  IN  CHOOSE p \in top : \A q \in top : p <= q

LatestEarliestStartTime(c, d) == GetEarliestPodStartTime(c) - GetEarliestPodStartTime(d)

FirstDecisive(results) ==
  LET k == SelectInSeq(results, LAMBDA r : r # 0) IN IF k = 0 THEN 0 ELSE results[k]

(* TRUE when c is to be preferred: nothing to evict, or the first plugin    *)
(* that tells the two apart says so.                                        *)
compareNominatedNodes(c, d) ==
  \/ c.victims = <<>> /\ d.victims # <<>>
  \/ /\ c.victims # <<>> /\ d.victims # <<>>
     /\ FirstDecisive(<<MinHighestPriority(c, d), MinPrioritySum(c, d),
                        LeastVictims(c, d), LatestEarliestStartTime(c, d)>>) > 0

(* RunCandidatesSortingPlugins: a stable sort of all the candidates ...     *)
SortCandidates(cs) ==
  FoldLeft(LAMBDA sorted, c :
             InsertAt(sorted,
                      1 + Len(SelectSeq(sorted, LAMBDA d : ~compareNominatedNodes(c, d))), c),
           <<>>, cs)

(* ... or the insertion of one candidate before the first not better one.   *)
InsertCandidate(cs, c) ==
  LET k == SelectInSeq(cs, LAMBDA d : ~compareNominatedNodes(d, c))
  IN  IF k = 0 THEN Append(cs, c) ELSE InsertAt(cs, k, c)

(* selectCandidate: take the first, keep as many others as members follow.  *)
selectCandidate(cs, cache) ==
  LET count == IF cache.count > 0 THEN cache.count - 1 ELSE 0
      rest == IF count < Len(cs) - 1 THEN SubSeq(cs, 2, count + 1) ELSE Tail(cs)
  IN  [cand |-> Head(cs),
       cache |-> [count |-> count, unused |-> rest,
                  used |-> IF rest = <<>> THEN Nobody ELSE Head(cs)]]

NotFound(cache) == [cand |-> Nobody, cache |-> [cache EXCEPT !.used = Nobody, !.unused = <<>>]]

(* The loop of SelectCandidate over cached candidates: each is evaluated    *)
(* again before it is trusted, and taken if it still is the best.           *)
RECURSIVE Probe(_, _, _, _)

(* The first cached node that can still be preempted on is fresh; sorted is *)
(* where it belongs among those after it.                                   *)
Judge(fresh, sorted, rounds, last, cache) ==
  IF Len(sorted) = 1 THEN Probe(sorted, rounds - 1, last, cache)
  ELSE IF sorted[1].name = fresh.name THEN selectCandidate(sorted, cache)
  ELSE IF Last(sorted).name = fresh.name THEN Probe(Front(sorted), rounds - 1, last, cache)
  ELSE Probe(sorted, rounds - 1, last, cache)

JudgeLast(fresh, last, cache) ==
  IF InsertCandidate(<<last>>, fresh)[1] = fresh
    THEN selectCandidate(<<fresh>>, cache) ELSE NotFound(cache)

ProbeFresh(cs, fresh, k, rounds, last, cache) ==
  CASE k = 0 -> NotFound(cache)
    [] k > 0 /\ Len(cs) = 1 -> JudgeLast(fresh[k], last, cache)
    [] k > 0 /\ Len(cs) > 1 ->
         Judge(fresh[k], InsertCandidate(SubSeq(cs, k + 1, Len(cs)), fresh[k]), rounds, last, cache)

ProbeAll(cs, fresh, rounds, last, cache) ==
  ProbeFresh(cs, fresh, SelectInSeq(fresh, LAMBDA c : c # Nobody), rounds, last, cache)

Probe(cs, rounds, last, cache) ==
  IF cs = <<>> \/ rounds = 0 THEN NotFound(cache)
  ELSE ProbeAll(cs, [i \in 1 .. Len(cs) |-> preemptOnNode(cs[i].name, allowed)], rounds, last, cache)

ProbeRest(cs, cache) == Probe(cs, Len(cs), Last(cs), cache)

(* SelectCandidate with cached candidates: the node used last is evaluated  *)
(* again and takes its place among the others.                              *)
SelectWithUsed(used, all, cache) ==
  IF all[1].name = used.name THEN selectCandidate(all, cache)
  ELSE ProbeRest(IF Last(all).name = used.name THEN Front(all) ELSE all, cache)

SelectAgain(used, cache) ==
  IF used = Nobody THEN ProbeRest(cache.unused, cache)
  ELSE SelectWithUsed(used, InsertCandidate(cache.unused, used), cache)

SelectCached(cache) ==
  SelectAgain(IF cache.used = Nobody THEN Nobody ELSE preemptOnNode(cache.used.name, allowed), cache)

CrossNodes == scn.twist = "cross"

(* PreemptBasedOnCachedNominatedNodes.                                      *)
FromCache(cache) ==
  IF cache.unused = <<>> \/ (CrossNodes /\ scn.policy # "Random")
    THEN [cand |-> Nobody, cache |-> cache] ELSE SelectCached(cache)

-----------------------------------------------------------------------------
(* What ParallelizeUntil may collect from the nodes that pass: at least as  *)
(* many as wanted if there are so many, in any order.                       *)
Collected(fit, want) ==
  {s \in SetToAllKPermutations(fit) \cup {<<>>} :
     Len(s) >= Cardinality(fit) \/ (Len(s) >= want /\ Len(s) > 0)}

Prioritised == {p \in UNION {GetPrioritiesForPodsMayBePreempted(n) : n \in Resolvable} :
                  p <= Priority}

prioritiesSlice == SetToSortSeq(Prioritised, <)

(* One check of a node in the search by priority: the victims of the range  *)
(* are taken out of the copy of the node.                                   *)
Removed(n, st, lower, priority) ==
  LET found == FilterVictimsPods(n, st, lower, priority + 1)
  IN  [gone |-> st.gone \cup ToSet(found.victims), budget |-> found.budget]

RECURSIVE ascendingFrom(_, _, _, _, _, _, _)
ascendingFrom(i, st, alive, lower, sel, first, want) ==
  LET next == [n \in alive |-> Removed(n, st[n], lower, prioritiesSlice[i])]
      fit == {n \in alive : Fits(n, next[n].gone)}
  IN  IF i > Len(prioritiesSlice) THEN {[nodes |-> sel, first |-> first]}
      ELSE UNION {LET index == IF first < 0 /\ s # <<>> THEN i - 1 ELSE first
                  IN  IF s # <<>> /\ Len(sel \o s) >= want
                        THEN {[nodes |-> sel \o s, first |-> index]}
                        ELSE ascendingFrom(i + 1, next, alive \ ToSet(s), prioritiesSlice[i],
                                           sel \o s, index, want)
                    : s \in Collected(fit, want - Len(sel))}

Start(budget) == [n \in Nodes |-> Untouched(budget)]

Hopeful == {n \in Resolvable : OccupiableResourcesCheck(n)}

(* ascendingOrderPreemption: allow victims of higher and higher priority.   *)
ascendingOrderPreemption(budget, want) ==
  ascendingFrom(1, Start(budget), Hopeful, Lowest, <<>>, -1, want)

(* The end of dichotomyPreemption: the nodes of the last successful rounds  *)
(* first, each node once, as many as wanted.                                *)
MergeRounds(found, want) ==
  FoldLeft(LAMBDA acc, n :
             IF Contains(acc, n) \/ (Len(acc) >= want /\ acc # <<>>) THEN acc ELSE Append(acc, n),
           <<>>, FlattenSeq(Reverse(found)))

RECURSIVE dichotomyBetween(_, _, _, _, _, _, _, _)
dichotomyBetween(low, high, st, alive, lower, found, first, want) ==
  LET mid == (low + high) \div 2
      next == [n \in alive |-> Removed(n, st[n], lower, prioritiesSlice[mid + 1])]
      fit == {n \in alive : Fits(n, next[n].gone)}
  IN  IF low > high THEN {[nodes |-> MergeRounds(found, want), first |-> first]}
      ELSE IF fit = {}
        THEN dichotomyBetween(mid + 1, high, next, alive, prioritiesSlice[mid + 1], found, first, want)
      ELSE UNION {UNION {dichotomyBetween(low, mid - 1, st, alive \ failed, lower,
                                          Append(found, s), mid, want)
                         : failed \in IF Len(s) >= want THEN SUBSET (alive \ fit) ELSE {alive \ fit}}
                  : s \in Collected(fit, want)}

(* dichotomyPreemption: search for the least priority by bisection.         *)
dichotomyPreemption(budget, want) ==
  dichotomyBetween(0, Len(prioritiesSlice) - 1, Start(budget), Hopeful, Lowest, <<>>, -1, want)

Log2(n) == CHOOSE k \in 0 .. n : 2 ^ k <= n /\ n < 2 ^ (k + 1)

Candidates(nodes, budget) ==
  SelectSeq([i \in 1 .. Len(nodes) |-> preemptOnNode(nodes[i], budget)], LAMBDA c : c # Nobody)

Found(cs, cache, policy) == [cs |-> cs, cache |-> cache, owner |-> policy, crashed |-> FALSE]

(* betterPreemption: search by the policy cached for the owner, remember    *)
(* which one suits it, then choose the victims on the nodes found.  Without *)
(* any priority to search the filters run on every entry of the node list,  *)
(* also on those prepareNodes left nil.                                     *)
betterPreemption(budget, cache, policy) ==
  LET c == IF CrossNodes THEN [cache EXCEPT !.count = 1] ELSE cache
      fitting == {n \in Resolvable : Fits(n, {})}
      searched == IF policy = "Dichotomy" THEN dichotomyPreemption(budget, c.count)
                  ELSE ascendingOrderPreemption(budget, c.count)
      Suited(r) == IF r.nodes = <<>> \/ r.first > Log2(Len(prioritiesSlice))
                     THEN "Dichotomy" ELSE "Ascending"
  IN  IF prioritiesSlice = <<>>
        THEN IF Resolvable # Nodes
               THEN {[cs |-> <<>>, cache |-> c, owner |-> policy, crashed |-> TRUE]}
               ELSE {Found(Candidates(s, budget), c,
                           IF s = <<>> THEN "Dichotomy" ELSE "Ascending")
                       : s \in Collected(fitting, c.count)}
        ELSE {Found(Candidates(r.nodes, budget), c, Suited(r)) : r \in searched}

(* bestPreemption: every node.                                              *)
bestPreemption(budget) == {Candidates(s, budget) : s \in SetToSeqs(Hopeful)}

(* randomPreemption: until as many nodes are found as members follow; a     *)
(* node with marked victims is not counted.                                 *)
randomPreemption(budget, want) ==
  {LET all == Candidates(s, budget)
       Counted(k) == Len(SelectSeq(SubSeq(all, 1, k), LAMBDA c : c.last = {}))
       enough == {k \in 0 .. Len(all) : Counted(k) >= want}
   IN  IF enough = {} THEN all ELSE SubSeq(all, 1, CHOOSE k \in enough : \A j \in enough : k <= j)
     : s \in SetToSeqs(Hopeful)}

FindCandidates(budget, cache, policy) ==
  CASE scn.policy = "Best" -> {Found(cs, cache, policy) : cs \in bestPreemption(budget)}
    [] scn.policy = "Better" -> betterPreemption(budget, cache, policy)
    [] scn.policy = "Random" -> {Found(cs, cache, policy) : cs \in randomPreemption(budget, cache.count)}

(* preparePod: PodEligibleToPreemptOthers.                                  *)
Eligible == scn.twist # "never"

(* runPreemption: what it may end with.                                     *)
runPreemption(cache, policy) ==
  IF ~Eligible \/ Resolvable = {}
    THEN {[cand |-> Nobody, cache |-> cache, owner |-> policy, crashed |-> FALSE]}
    ELSE {IF r.cs = <<>>
            THEN [cand |-> Nobody, cache |-> r.cache, owner |-> r.owner, crashed |-> r.crashed]
            ELSE LET s == selectCandidate(SortCandidates(r.cs), r.cache)
                 IN  [cand |-> s.cand, cache |-> s.cache, owner |-> r.owner, crashed |-> FALSE]
          : r \in FindCandidates(allowed, cache, policy)}

(* PreemptInNodeCircles: the cached nodes first, then a search.             *)
SearchUnlessCached(c) ==
  IF c.cand # Nobody
    THEN {[cand |-> c.cand, cache |-> c.cache, owner |-> owner, crashed |-> FALSE]}
    ELSE runPreemption(c.cache, owner)

PreemptInNodeCircles == SearchUnlessCached(FromCache(cached))

-----------------------------------------------------------------------------
NoScenario == [prio |-> [p \in Running |-> 0], free |-> 0, budget |-> 0, policy |-> "Best",
               twist |-> "none"]

Residents(n) == {p \in Running : NodeOf[p] = n}

Init ==
  /\ scn = NoScenario
  /\ present = [n \in Nodes |-> Residents(n)]
  /\ placed = [n \in Nodes |-> 0]
  /\ allowed = 0
  /\ cached = [count |-> 0, used |-> Nobody, unused |-> <<>>]
  /\ owner = ""
  /\ left = 0
  /\ crashed = FALSE

(* UnitFramework.Preempting: the members of one template share a cache and  *)
(* the state of the budgets.                                                *)
Preempting ==
  /\ scn = NoScenario /\ left = 0
  /\ \E prio \in [Running -> Priorities], free \in 0 .. 1, budget \in 1 .. 2,
        policy \in Policies, twist \in Twists :
       /\ scn' = [prio |-> prio, free |-> free, budget |-> budget, policy |-> policy, twist |-> twist]
       /\ allowed' = budget
  /\ cached' = [count |-> Members, used |-> Nobody, unused |-> <<>>]
  /\ left' = Members
  /\ UNCHANGED <<present, placed, owner, crashed>>

(* PDBChecker.NodePostPreempting and the reservation in the snapshot, which *)
(* takes the victims off the node.                                          *)
Place(c) ==
  /\ placed' = [placed EXCEPT ![c.name] = @ + 1]
  /\ present' = [present EXCEPT ![c.name] = @ \ ToSet(c.victims)]
  /\ allowed' = allowed - Cardinality(ToSet(c.victims) \cap Budgeted)

(* preemptOneUnitInstance; when it fails the members that follow fail too.  *)
preemptOneUnitInstance ==
  /\ left > 0 /\ ~crashed
  /\ \E r \in PreemptInNodeCircles :
       /\ cached' = r.cache
       /\ owner' = r.owner
       /\ crashed' = r.crashed
       /\ \/ r.cand # Nobody /\ Place(r.cand) /\ left' = left - 1
          \/ r.cand = Nobody /\ left' = 0 /\ UNCHANGED <<placed, present, allowed>>
  /\ UNCHANGED scn

Next == Preempting \/ preemptOneUnitInstance

Spec == Init /\ [][Next]_vars

-----------------------------------------------------------------------------
Chosen == {n \in Nodes : placed'[n] > placed[n]}
Victims(n) == present[n] \ present'[n]

TypeOK ==
  /\ \A n \in Nodes : present[n] \subseteq Residents(n)
  /\ placed \in [Nodes -> 0 .. Members]
  /\ cached.count \in 0 .. Members
  /\ left \in 0 .. Members
  /\ owner \in {"", "Ascending", "Dichotomy"}

(* The member fits once its victims are gone, and no victim could stay: not *)
(* even if all potential victims that come before it, those of lower        *)
(* priority first of all, were evicted instead (selectVictimsOnNode: "a     *)
(* higher-priority pod is never preempted when a lower-priority pod could   *)
(* be").                                                                    *)
VictimsAreNeeded ==
  \A n \in Chosen :
    LET potential == SortVictims(FilterVictimsPods(n, Untouched(allowed), Lowest, Priority + 1))
    IN  /\ Fits(n, Victims(n))
        /\ \A v \in Victims(n) :
             LET before == {potential[i] : i \in 1 .. SelectInSeq(potential, LAMBDA p : p = v) - 1}
             IN  ~Fits(n, (Victims(n) \ {v}) \cup before)

(* A unit evicts no more pods of a disruption budget than the budget allows *)
(* when it starts, whatever nodes its members come to and whether they come *)
(* from the cache of nominated nodes (the quick pass, which overrules the   *)
(* budget, aside).                                                          *)
BudgetIsKept ==
  scn.twist # "quick" =>
    Cardinality({p \in Budgeted : p \notin present[NodeOf[p]]}) <= scn.budget

(* Unless the policy is to take any node, a member is never put where a pod *)
(* of higher priority has to go than on another node: the search by         *)
(* priority, the bisection, the sorting of the candidates and the reuse of  *)
(* cached nodes all keep the least highest priority of the victims.         *)
ChosenNodeIsCheapest ==
  scn.policy # "Random" /\ scn.twist # "quick" =>
    \A n \in Chosen, m \in Resolvable :
      LET other == preemptOnNode(m, allowed)
      IN  other # Nobody =>
            \A v \in Victims(n) : \E w \in ToSet(other.victims) : Prio(v) <= Prio(w)

(* A member is given up only if no node can take it, by any victims the     *)
(* plugins allow: a search that stops early, a stale cache of nominated     *)
(* nodes and a policy learnt from earlier pods never hide a node.           *)
NoNodeIsMissed ==
  left' < left /\ Chosen = {} /\ ~crashed' /\ Eligible =>
    \A n \in Resolvable : preemptOnNode(n, allowed) = Nobody

(* The cache holds a node once, no more nodes than members follow, and a    *)
(* used node only with others to compare it to (SelectCandidate reads the   *)
(* last of them without looking).                                           *)
CacheIsSound ==
  /\ Len(cached.unused) <= cached.count
  /\ cached.used = Nobody <=> cached.unused = <<>>
  /\ \A i, j \in 1 .. Len(cached.unused) : cached.unused[i].name = cached.unused[j].name => i = j

(* What a unit may evict is bounded by the budgets, also through the nodes  *)
(* it has nominated and kept for later members.                             *)
EvictionsAreBounded == TypeOK /\ CacheIsSound /\ BudgetIsKept

(* A member evicts what it must where it costs least, and gives up only if  *)
(* nothing helps.                                                           *)
PreemptionIsJustified == VictimsAreNeeded /\ ChosenNodeIsCheapest /\ NoNodeIsMissed
=============================================================================
