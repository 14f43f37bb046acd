--------------------------- MODULE AdvancedMinimizer ---------------------------
(***************************************************************************)
(* One call of minimize_advanced (zbit-rs/src/advanced.rs): rounds of an   *)
(* espresso-like heuristic, rewriting, the removal of redundant terms by   *)
(* satisfiability checks, the exact cover as a second candidate, and the   *)
(* choice between the two.  The checks take the steps of Dpll, the exact   *)
(* cover those of ExactCover.  The statistics of the report are left out.  *)
(*                                                                         *)
(* Weights are floating-point numbers with two decimals in the code; here  *)
(* they are integers, ten or a hundred times as large.                     *)
(***************************************************************************)
EXTENDS ExactCover, Dpll

CONSTANT Calls     \* the calls of minimize_advanced: [n, on, dc, options]

Objectives == {"literal_count", "asic_area", "asic_delay", "fpga_lut4", "fpga_lut6"}
Options_ == [objective : Objectives, rounds : Nat, maxFree : Nat, rewrite : BOOLEAN,
             balancing : BOOLEAN, resubstitution : BOOLEAN, satInputs : Nat, exactInputs : Nat]

ASSUME CallAssumption ==
    \A c \in Calls : /\ c \in [n : Nat, on : SUBSET SUBSET Nat, dc : SUBSET SUBSET Nat, options : Options_]
                     /\ c.on \subseteq SUBSET (0..(c.n - 1)) /\ c.dc \subseteq SUBSET (0..(c.n - 1))
                     \* the exact minimizer counts with 32 bits
                     /\ c.n <= c.options.exactInputs => Cardinality(c.on) < Unbounded

VARIABLES
    stage,      \* idle, espresso, pick, trim, rewrite, prune, check, exact, done or failed
    request,    \* the call, its sets made disjoint
    round,      \* the rounds of the heuristic that were run
    cover,      \* the cover the heuristic or the rewriting has reached
    pool,       \* the terms greedy_cover picks from
    picks,      \* its picks, in order
    trimNo,     \* the pick that may be dropped next
    caller,     \* who called it: espresso or rewrite
    unchecked,  \* the terms of the cover that pruning has not yet looked at
    heuristic   \* the cover of the first flow, once the exact one is under way

greedyVars == <<pool, picks, trimNo, caller>>
ownVars == <<stage, request, round, cover, greedyVars, unchecked, heuristic>>
vars == <<coverVars, satVars, ownVars>>

n == request.n
on == request.on
dc == request.dc
options == request.options
Inputs == 0..(n - 1)

----------------------------------------------------------------------------
(* Cubes and covers.                                                       *)

CeilDiv(a, b) == (a + b - 1) \div b
CeilLog2(k) == Cardinality({b \in 0..k : 2 ^ b < k})
AtLeast1(k) == Max({1, k})

\* cube_covers_cube
CubeCovers(p, q) == p.mask \subseteq q.mask /\ q.value \cap p.mask = p.value

\* The order in which dedup_implicants leaves the terms.
Earlier(p, q) ==
    \/ Below(p.mask, q.mask)
    \/ p.mask = q.mask /\ Below(p.value, q.value)

\* Mutant of OnlyHitsAllowed: one minterm of the cube is looked at.
BaseIsAllowed(p) == Cardinality(Inputs \ p.mask) <= options.maxFree /\ p.value \in on \cup dc

\* cube_only_hits_allowed
OnlyHitsAllowed(p) ==
    /\ Cardinality(Inputs \ p.mask) <= options.maxFree
    /\ \A free \in SUBSET (Inputs \ p.mask) : p.value \cup free \in on \cup dc

\* cube_weight, ten times
CubeWeight(p) ==
    LET k == AtLeast1(LiteralCount(p))
    IN CASE options.objective = "literal_count" -> 10 * k
         [] options.objective = "asic_area" -> 8 + 10 * k
         [] options.objective = "asic_delay" -> 10 * (CeilLog2(k) + 1)
         [] options.objective = "fpga_lut4" -> 10 * CeilDiv(k, 4)
         [] options.objective = "fpga_lut6" -> 10 * CeilDiv(k, 6)

\* The sum of a weight over the terms, as the number of pairs of a term and one of
\* the units it weighs.
Sum(c, weight) == Cardinality(UNION {{p} \X (1..weight[p]) : p \in c})

Negated(c) == UNION {p.mask \ p.value : p \in c}
And2(c) == Sum(c, [p \in c |-> AtLeast1(LiteralCount(p)) - 1]) + AtLeast1(Cardinality(c)) - 1
TermLevels(p, balanced) ==
    IF balanced THEN CeilLog2(LiteralCount(p)) + 1 ELSE AtLeast1(LiteralCount(p))
OutputLevels(c, balanced) ==
    Max({0} \cup {TermLevels(p, balanced) : p \in c})
    + (IF Cardinality(c) <= 1 THEN 0
       ELSE IF balanced THEN CeilLog2(Cardinality(c)) ELSE Cardinality(c) - 1)
Luts(c, k) ==
    Sum(c, [p \in c |-> CeilDiv(AtLeast1(LiteralCount(p)), k)])
    + (IF Cardinality(c) <= 1 THEN 0 ELSE CeilDiv(Cardinality(c), k))

\* evaluate_cover_objective: the weighted cost under the options o, a hundred times
Cost(c, o) ==
    CASE o.objective = "literal_count" -> 100 * Literals(c)
      [] o.objective = "asic_area" -> 100 * And2(c) + 20 * Cardinality(Negated(c))
      [] o.objective = "asic_delay" -> 100 * OutputLevels(c, o.balancing) + And2(c)
      [] o.objective = "fpga_lut4" -> 100 * Luts(c, 4) + 5 * OutputLevels(c, o.balancing)
      [] o.objective = "fpga_lut6" -> 100 * Luts(c, 6) + 5 * OutputLevels(c, o.balancing)

\* estimate_better
IsBetter(c, d, o) ==
    \/ Cost(c, o) < Cost(d, o)
    \/ Cost(c, o) = Cost(d, o) /\ Literals(c) < Literals(d)
    \/ Cost(c, o) = Cost(d, o) /\ Literals(c) = Literals(d) /\ Cardinality(c) < Cardinality(d)

----------------------------------------------------------------------------
(* The heuristic.                                                          *)

Missed(c) == {m \in on : \A p \in c : ~Covers(p, m)}
Hits(p, minterms) == Cardinality({m \in minterms : Covers(p, m)})

\* The cube greedy_cover takes next: the largest gain for its weight, then the largest
\* gain, then the first.
Preferred(p, q, minterms) ==
    LET a == Hits(p, minterms) * CubeWeight(q)
        b == Hits(q, minterms) * CubeWeight(p)
    IN \/ a > b
       \/ a = b /\ Hits(p, minterms) > Hits(q, minterms)
       \/ a = b /\ Hits(p, minterms) = Hits(q, minterms) /\ Earlier(p, q)

\* remove_absorbed_terms
Unabsorbed(c) == {p \in c : \A q \in c \ {p} : ~CubeCovers(q, p)}

\* generate_consensus_merges
ConsensusMerges(c) ==
    {q \in {Merged(u[1], u[2]) : u \in {w \in c \X c : Mergeable(w[1], w[2])}} : OnlyHitsAllowed(q)}

\* The expansion of a cube: literals go, from the lowest input on, while it stays
\* within what is allowed.
Without(p, v) == [mask |-> p.mask \ {v}, value |-> p.value \ {v}]
Cubes == [mask : SUBSET Inputs, value : SUBSET Inputs]
Expansion[p \in Cubes] ==
    LET free == {v \in p.mask : OnlyHitsAllowed(Without(p, v))}
    IN IF free = {} THEN p ELSE Expansion[Without(p, Min(free))]

\* The pool of a round: the terms, their expansions, what those merge to, and not what
\* others absorb.
WithMerges(c) == c \cup (IF options.rewrite THEN ConsensusMerges(c) ELSE {})
WithoutAbsorbed(c) == IF options.resubstitution THEN Unabsorbed(c) ELSE c

----------------------------------------------------------------------------

NoRequest == [n |-> 0, on |-> {}, dc |-> {},
              options |-> [objective |-> "literal_count", rounds |-> 0, maxFree |-> 0, rewrite |-> FALSE,
                           balancing |-> FALSE, resubstitution |-> FALSE, satInputs |-> 0, exactInputs |-> 0]]

Init ==
    /\ CoverInit /\ SatInit
    /\ stage = "idle" /\ request = NoRequest /\ round = 0
    /\ cover = {} /\ unchecked = {} /\ heuristic = {}
    /\ pool = {} /\ picks = <<>> /\ trimNo = 1 /\ caller = "espresso"

\* minimize_advanced: canonicalize_sets gives the ON-set precedence; there is nothing to
\* do for an empty one.
Begin(c) ==
    /\ stage = "idle" /\ sat = "idle"
    /\ request' = [c EXCEPT !.dc = c.dc \ c.on]
    /\ cover' = {Minterm(m, 0..(c.n - 1)) : m \in c.on}
    /\ stage' = IF c.on = {} THEN "done" ELSE "espresso"
    /\ UNCHANGED <<coverVars, satVars, round, greedyVars, unchecked, heuristic>>

\* greedy_cover is called; an empty pool for a function that is not empty is an error.
Greedy(from, by) ==
    /\ pool' = from /\ picks' = <<>> /\ trimNo' = 1 /\ caller' = by
    /\ stage' = IF from = {} THEN "failed" ELSE "pick"

\* A round of run_espresso_heuristic.
EspressoRound ==
    /\ stage = "espresso" /\ round < options.rounds
    /\ round' = round + 1
    /\ \E cubes \in {cover \cup {Expansion[p] : p \in cover}} :
           \E all \in {WithMerges(cubes)} : Greedy(WithoutAbsorbed(all), "espresso")
    /\ UNCHANGED <<coverVars, satVars, request, cover, unchecked, heuristic>>

\* One iteration of its first loop; it fails if no term gains a minterm.
Pick ==
    /\ stage = "pick"
    /\ \E missed \in {Missed(ToSet(picks))} :
       \E useful \in {{p \in pool \ ToSet(picks) : Hits(p, missed) > 0}} :
           /\ stage' = IF missed = {} THEN "trim" ELSE IF useful = {} THEN "failed" ELSE "pick"
           /\ IF missed = {} \/ useful = {} THEN UNCHANGED picks
              ELSE \E p \in useful : /\ \A q \in useful \ {p} : Preferred(p, q, missed)
                                     /\ picks' = Append(picks, p)
    /\ UNCHANGED <<coverVars, satVars, request, round, cover, pool, trimNo, caller, unchecked, heuristic>>

\* Mutant of Trim: the first pick is taken for needed.
TrimButFirst ==
    /\ stage = "trim" /\ trimNo <= Len(picks)
    /\ IF trimNo > 1 /\ Missed(ToSet(RemoveAt(picks, trimNo))) = {}
       THEN picks' = RemoveAt(picks, trimNo) /\ UNCHANGED trimNo
       ELSE trimNo' = trimNo + 1 /\ UNCHANGED picks
    /\ UNCHANGED <<coverVars, satVars, stage, request, round, cover, pool, caller, unchecked, heuristic>>

\* One iteration of its second loop: a pick that the others make superfluous is dropped.
Trim ==
    /\ stage = "trim" /\ trimNo <= Len(picks)
    /\ IF Missed(ToSet(RemoveAt(picks, trimNo))) = {}
       THEN picks' = RemoveAt(picks, trimNo) /\ UNCHANGED trimNo
       ELSE trimNo' = trimNo + 1 /\ UNCHANGED picks
    /\ UNCHANGED <<coverVars, satVars, stage, request, round, cover, pool, caller, unchecked, heuristic>>

\* The pruning of sat_prune_redundant_terms begins, where it is enabled.
BeginPruning(c) ==
    /\ unchecked' = IF 0 < n /\ n <= options.satInputs THEN c ELSE {}
    /\ stage' = "prune"

\* The caller takes the picks only if they are better than what it has.
GreedyReturns ==
    /\ stage = "trim" /\ trimNo > Len(picks)
    /\ \E next \in {ToSet(picks)} : cover' = IF IsBetter(next, cover, options) THEN next ELSE cover
    /\ IF caller = "espresso" THEN stage' = "espresso" /\ UNCHANGED unchecked
       ELSE BeginPruning(cover')
    /\ UNCHANGED <<coverVars, satVars, request, round, greedyVars, heuristic>>

EspressoDone ==
    /\ stage = "espresso" /\ round = options.rounds
    /\ stage' = "rewrite"
    /\ UNCHANGED <<coverVars, satVars, request, round, cover, unchecked, heuristic, greedyVars>>

\* run_rewrite_flows up to the pruning: absorbed terms go, and merged terms are tried.
Rewrite ==
    /\ stage = "rewrite"
    /\ \E base \in {WithoutAbsorbed(cover)} :
           /\ cover' = base
           /\ IF options.rewrite /\ ConsensusMerges(base) # {}
              THEN /\ \E all \in {WithMerges(base)} : Greedy(WithoutAbsorbed(all), "rewrite")
                   /\ UNCHANGED unchecked
              ELSE BeginPruning(base) /\ UNCHANGED greedyVars
    /\ UNCHANGED <<coverVars, satVars, request, round, heuristic>>

----------------------------------------------------------------------------
(* Pruning.  Variable v + 1 of a formula is input v.                       *)

\* cube_false_clause
FalseClause(p) == {<<v + 1, IF v \in p.value THEN -1 ELSE 1>> : v \in p.mask}
\* forbid_assignment_clause
ForbidClause(m) == {<<v + 1, IF v \in m THEN -1 ELSE 1>> : v \in Inputs}
TrueClauses(p) == {{<<v + 1, IF v \in p.value THEN 1 ELSE -1>>} : v \in p.mask}

\* The order of the unit clauses, of the other terms, and of the don't-cares is that of
\* the code.
InOrder(S, Before(_, _)) ==
    [i \in 1..Cardinality(S) |-> CHOOSE x \in S : Cardinality({y \in S : Before(y, x)}) = i - 1]
VarOf(unit) == (CHOOSE l \in unit : TRUE)[1]
UnitOrder(p) == InOrder(TrueClauses(p), LAMBDA a, b : VarOf(a) < VarOf(b))
CoverOrder(c) == InOrder(c, Earlier)
MintermOrder(ms) == InOrder(ms, Below)
Mapped(s, Op(_)) == [i \in DOMAIN s |-> Op(s[i])]

\* The formula of sat_term_is_redundant: an input that only this term covers.
TermFormula(p) ==
    [vars |-> n,
     clauses |-> UnitOrder(p) \o Mapped(CoverOrder(cover \ {p}), FalseClause) \o Mapped(MintermOrder(dc), ForbidClause)]

NextTerm == CHOOSE p \in unchecked : \A q \in unchecked \ {p} : Earlier(p, q)

CheckTerm ==
    /\ stage = "prune" /\ unchecked # {}
    /\ Solve(TermFormula(NextTerm))
    /\ stage' = "check"
    /\ UNCHANGED <<coverVars, request, round, cover, unchecked, heuristic, greedyVars>>

SatRuns == stage = "check" /\ SatStep /\ UNCHANGED <<coverVars, ownVars>>

TermChecked ==
    /\ stage = "check" /\ sat \in {"sat", "unsat"}
    /\ cover' = IF sat = "unsat" THEN cover \ {NextTerm} ELSE cover
    /\ unchecked' = unchecked \ {NextTerm}
    /\ stage' = "prune"
    /\ UNCHANGED <<coverVars, satVars, request, round, heuristic, greedyVars>>

----------------------------------------------------------------------------
(* The two candidates.                                                     *)

UsesExact == n <= options.exactInputs
ExactStarted == phase # "idle"

\* The first flow is done: the exact cover goes through the second one.
SeedExact ==
    /\ stage = "prune" /\ unchecked = {} /\ UsesExact /\ ~ExactStarted
    /\ heuristic' = cover
    /\ Minimize(Inputs, on, dc)
    /\ stage' = "exact"
    /\ UNCHANGED <<satVars, request, round, cover, unchecked, greedyVars>>

ExactRuns == stage = "exact" /\ CoverStep /\ UNCHANGED <<satVars, ownVars>>

ExactReady ==
    /\ stage = "exact" /\ phase \in {"done", "failed"}
    /\ stage' = IF phase = "done" THEN "rewrite" ELSE "failed"
    /\ cover' = best.selected
    /\ UNCHANGED <<coverVars, satVars, request, round, unchecked, heuristic, greedyVars>>

\* Mutant of Chosen: the better of the two is left.
ChosenWorse == IF ExactStarted /\ IsBetter(cover, heuristic, options) THEN heuristic ELSE cover

\* The exact cover is taken if it is the better one.
Chosen == IF ExactStarted /\ ~IsBetter(cover, heuristic, options) THEN heuristic ELSE cover

Choose ==
    /\ stage = "prune" /\ unchecked = {} /\ (UsesExact => ExactStarted)
    /\ cover' = Chosen
    /\ stage' = IF Missed(Chosen) = {} THEN "done" ELSE "failed"
    /\ UNCHANGED <<coverVars, satVars, request, round, unchecked, heuristic, greedyVars>>

\* A formula of any other caller of is_satisfiable.
SolveOther(f) ==
    /\ stage = "idle" /\ sat = "idle"
    /\ Solve(f)
    /\ UNCHANGED <<coverVars, ownVars>>

OtherRuns == stage = "idle" /\ SatStep /\ UNCHANGED <<coverVars, ownVars>>

Step ==
    EspressoRound \/ Pick \/ Trim \/ GreedyReturns \/ EspressoDone \/ Rewrite \/ CheckTerm \/ SatRuns \/ TermChecked
    \/ SeedExact \/ ExactRuns \/ ExactReady \/ Choose \/ OtherRuns
Next == (\E c \in Calls : Begin(c)) \/ (\E f \in Formulas : SolveOther(f)) \/ Step

\* A call runs on one thread until it returns.
Spec == Init /\ [][Next]_vars /\ WF_vars(Step)

----------------------------------------------------------------------------
(* Properties.                                                             *)

\* What is returned is the function: true on the ON-set, false outside ON-set and
\* don't-cares, whichever cubes were expanded, merged, absorbed or pruned on the way;
\* and no call fails (advanced.rs:270-306, 583-650, 738-826).
CoverIsTheFunction ==
    /\ stage = "done" =>
           \A m \in SUBSET Inputs :
               /\ m \in on => \E p \in cover : Covers(p, m)
               /\ m \notin on \cup dc => \A p \in cover : ~Covers(p, m)
    /\ stage # "failed"

\* No term of the result can be left out, with the pruning enabled or not: the terms
\* that greedy_cover's second loop leaves are all needed for the ON-set, and the pruning,
\* which looks for an input that only one term covers, never finds one to drop
\* (advanced.rs:393-407, 652-675).
CoverIsIrredundant ==
    /\ stage = "check" => sat # "unsat"
    /\ stage = "done" => \A p \in cover : Missed(cover \ {p}) # {}

\* With the exact seed the result is never worse by the objective asked for than the
\* cover the exact minimizer gives, and never worse than the minterms, although each of
\* the flows compares its own candidates only (advanced.rs:573-577, 710-720, 801).
NeverWorseThanExact ==
    (stage = "done" /\ on # {}) =>
        /\ ExactStarted => ~IsBetter(best.selected, cover, options)
        /\ ~IsBetter({Minterm(m, Inputs) : m \in on}, cover, options)

\* Every call ends: expansions, picks, checks and the search under the exact cover.
MinimizeReturns == (stage = "espresso" \/ sat = "propagate") ~> (stage \in {"idle", "done", "failed"} /\ sat # "propagate")

================================================================================
