------------------------------- MODULE ExactCover -------------------------------
(***************************************************************************)
(* The exact two-level minimizer of zbit-rs/src/minimizer.rs: prime        *)
(* implicants by merging, rows that some column forces, and a depth-first  *)
(* search with bounds for the cover with the fewest terms and, among       *)
(* those, the fewest literals.  One level of merging, one pass over the    *)
(* columns, and one visit of a node of the search is a step.               *)
(*                                                                         *)
(* A minterm is the set of the inputs that are 1 in it.  A row of the      *)
(* covering problem is a prime implicant, a column is a minterm of the     *)
(* ON-set; terms, literals and covered columns are those of the rows       *)
(* selected.                                                               *)
(***************************************************************************)
EXTENDS Integers, FiniteSets, Sequences, FiniteSetsExt, SequencesExt

\* The order of the columns is that of the minterms as numbers: the highest of the
\* inputs in which two of them differ is 1 in the larger.
Below(a, b) == \E v \in b \ a : \A u \in a \ b : u < v

\* Implicant::covers and literal_count, and the literals of all the terms of a cover:
\* as many as there are pairs of a term and an input of its mask.
Covers(p, minterm) == minterm \cap p.mask = p.value
LiteralCount(p) == Cardinality(p.mask)
Literals(cover) == Cardinality(UNION {{p} \X p.mask : p \in cover})

----------------------------------------------------------------------------
(* generate_prime_implicants                                               *)

Minterm(m, inputs) == [mask |-> inputs, value |-> m]
Mergeable(p, q) == p.mask = q.mask /\ Cardinality(SymDiff(p.value, q.value)) = 1
Merged(p, q) ==
    LET diff == SymDiff(p.value, q.value)
    IN [mask |-> p.mask \ diff, value |-> p.value \ diff]

----------------------------------------------------------------------------

VARIABLES
    phase,     \* idle, merge, essential, visit, loop, done or failed
    onSet,     \* the minterms that must be covered
    terms,     \* the implicants of the level being merged
    primes,    \* the implicants that could not be merged
    rows,      \* the primes that cover a column
    selected,  \* the rows every cover needs
    call,      \* the rows of the call of dfs_cover that is visited
    open,      \* the calls under way: their rows, and the rows not yet tried
    best       \* the best cover found so far

coverVars == <<phase, onSet, terms, primes, rows, selected, call, open, best>>

Unbounded == 2147483647      \* i32::MAX
NoCover == [terms |-> Unbounded, literals |-> Unbounded, selected |-> {}]

CoverInit ==
    /\ phase = "idle" /\ onSet = {} /\ terms = {} /\ primes = {} /\ rows = {}
    /\ selected = {} /\ call = {} /\ open = <<>> /\ best = NoCover

Uncovered(sel) == {m \in onSet : \A p \in sel : ~Covers(p, m)}
Options(m, sel) == {p \in rows \ sel : Covers(p, m)}
Gain(p, sel) == Cardinality({m \in Uncovered(sel) : Covers(p, m)})

\* minimize_exact: no term is needed for an empty ON-set.
Minimize(inputs, on, dc) ==
    /\ onSet' = on
    /\ terms' = {Minterm(m, inputs) : m \in on \cup dc}
    /\ phase' = IF on = {} THEN "done" ELSE "merge"
    /\ best' = IF on = {} THEN [terms |-> 0, literals |-> 0, selected |-> {}] ELSE NoCover
    /\ primes' = {} /\ rows' = {} /\ selected' = {} /\ call' = {} /\ open' = <<>>

\* One level of generate_prime_implicants: the terms that merge with none are prime.
MergeLevel ==
    /\ phase = "merge" /\ terms # {}
    /\ primes' = primes \cup {p \in terms : \A q \in terms : ~Mergeable(p, q)}
    /\ terms' = {Merged(pq[1], pq[2]) : pq \in {u \in terms \X terms : Mergeable(u[1], u[2])}}
    /\ UNCHANGED <<phase, onSet, rows, selected, call, open, best>>

\* select_minimum_cover: the rows of the covering problem.
BuildRows ==
    LET usable == {p \in primes : \E m \in onSet : Covers(p, m)} IN
    /\ phase = "merge" /\ terms = {}
    /\ rows' = usable
    /\ phase' = IF usable = {} THEN "failed" ELSE "essential"
    /\ UNCHANGED <<onSet, terms, primes, selected, call, open, best>>

\* Mutant of EssentialRows: a row of a column with two rows is taken for the only one.
EssentialOfTwo ==
    selected \cup {p \in rows : \E m \in Uncovered(selected) :
                        Cardinality(Options(m, selected)) <= 2 /\ p \in Options(m, selected)}

\* One pass of the loop over the columns: a row that is the only one for a column not
\* yet covered is selected.  The order of the columns is of no account: what covers a
\* column that has one row is that row.
EssentialRows ==
    selected \cup UNION {o \in {Options(m, selected) : m \in Uncovered(selected)} : Cardinality(o) = 1}

SelectEssential ==
    /\ phase = "essential"
    /\ selected' = EssentialRows
    /\ phase' = IF \E m \in Uncovered(selected) : Options(m, selected) = {} THEN "failed"
                ELSE IF EssentialRows # selected THEN "essential"
                ELSE IF Uncovered(selected) = {} THEN "done" ELSE "visit"
    /\ IF phase' = "done"
       THEN best' = [terms |-> Cardinality(selected), literals |-> Literals(selected),
                     selected |-> selected]
       ELSE UNCHANGED best
    /\ call' = IF phase' = "visit" THEN selected ELSE {}
    /\ UNCHANGED <<onSet, terms, primes, rows, open>>

----------------------------------------------------------------------------
(* dfs_cover                                                               *)

\* A call is given up at once if it cannot beat the best cover.
Worse(sel) ==
    \/ Cardinality(sel) > best.terms
    \/ Cardinality(sel) = best.terms /\ Literals(sel) >= best.literals

\* branch_column: the first of the columns with the fewest rows left.
IsBranchColumn(m, sel) ==
    \A n \in Uncovered(sel) \ {m} :
        \/ Cardinality(Options(m, sel)) < Cardinality(Options(n, sel))
        \/ Cardinality(Options(m, sel)) = Cardinality(Options(n, sel)) /\ Below(m, n)

MaxGain(sel) == Max({0} \cup {Gain(p, sel) : p \in rows \ sel})
MinLiterals(sel) == Min({LiteralCount(p) : p \in {q \in rows \ sel : Gain(q, sel) > 0}})

\* Mutant of BoundOnTerms: one term too many when the division leaves no rest.
BoundOnTermsPlusOne(sel) == Cardinality(Uncovered(sel)) \div MaxGain(sel) + 1

\* The terms any cover of what is left needs.
BoundOnTerms(sel) == (Cardinality(Uncovered(sel)) + MaxGain(sel) - 1) \div MaxGain(sel)

\* The bounds that end a call.
Hopeless(sel) ==
    LET bound == Cardinality(sel) + BoundOnTerms(sel)
    IN \/ bound > best.terms
       \/ /\ bound = best.terms
          /\ Literals(sel) + MinLiterals(sel) * BoundOnTerms(sel) >= best.literals

\* A column is left and no row for it, or no row gains a column.
Stuck(sel) == (\E m \in Uncovered(sel) : Options(m, sel) = {}) \/ MaxGain(sel) = 0

GiveUp ==
    /\ phase = "visit"
    /\ Worse(call) \/ (Uncovered(call) # {} /\ (Stuck(call) \/ Hopeless(call)))
    /\ phase' = "loop" /\ call' = {}
    /\ UNCHANGED <<onSet, terms, primes, rows, selected, open, best>>

Record ==
    /\ phase = "visit" /\ ~Worse(call) /\ Uncovered(call) = {}
    /\ best' = [terms |-> Cardinality(call), literals |-> Literals(call), selected |-> call]
    /\ phase' = "loop" /\ call' = {}
    /\ UNCHANGED <<onSet, terms, primes, rows, selected, open>>

Branch ==
    /\ phase = "visit" /\ ~Worse(call)
    /\ Uncovered(call) # {} /\ ~Stuck(call) /\ ~Hopeless(call)
    /\ \E m \in Uncovered(call) :
           /\ IsBranchColumn(m, call)
           /\ open' = Append(open, [selected |-> call, untried |-> Options(m, call)])
    /\ phase' = "loop" /\ call' = {}
    /\ UNCHANGED <<onSet, terms, primes, rows, selected, best>>

\* The order of the candidates: larger gains first, then fewer literals; the order of
\* equal ones is that of an unstable sort.
Precedes(p, q, sel) ==
    \/ Gain(p, sel) > Gain(q, sel)
    \/ Gain(p, sel) = Gain(q, sel) /\ LiteralCount(p) < LiteralCount(q)

\* Mutant of TryRow: a row that was tried is tried again.
TryRowAgain ==
    /\ phase = "loop" /\ open # <<>> /\ Last(open).untried # {}
    /\ \E p \in Last(open).untried :
           /\ \A q \in Last(open).untried : ~Precedes(q, p, Last(open).selected)
           /\ call' = Last(open).selected \cup {p}
    /\ phase' = "visit"
    /\ UNCHANGED <<onSet, terms, primes, rows, selected, open, best>>

\* The next iteration of the loop over the candidates.
TryRow ==
    /\ phase = "loop" /\ open # <<>> /\ Last(open).untried # {}
    /\ \E p \in Last(open).untried :
           /\ \A q \in Last(open).untried : ~Precedes(q, p, Last(open).selected)
           /\ call' = Last(open).selected \cup {p}
           /\ open' = [open EXCEPT ![Len(open)].untried = @ \ {p}]
    /\ phase' = "visit"
    /\ UNCHANGED <<onSet, terms, primes, rows, selected, best>>

EndCall ==
    /\ phase = "loop" /\ open # <<>> /\ Last(open).untried = {}
    /\ open' = Front(open)
    /\ UNCHANGED <<phase, onSet, terms, primes, rows, selected, call, best>>

EndSearch ==
    /\ phase = "loop" /\ open = <<>>
    /\ phase' = IF best = NoCover THEN "failed" ELSE "done"
    /\ UNCHANGED <<onSet, terms, primes, rows, selected, call, open, best>>

CoverStep ==
    MergeLevel \/ BuildRows \/ SelectEssential \/ GiveUp \/ Record \/ Branch
    \/ TryRow \/ EndCall \/ EndSearch

----------------------------------------------------------------------------
(* Properties.                                                             *)

\* The rows the search will go on from.
Ahead ==
    (UNION {{frame.selected \cup {p} : p \in frame.untried} : frame \in ToSet(open)})
    \cup (IF phase = "visit" THEN {call} ELSE {})

\* While the search runs it has not lost what it looks for: every cover that is better
\* than the best one found can still be reached from the call that is visited or from a
\* row that an open call has not tried (minimizer.rs:193-281).
SearchKeepsAMinimum ==
    phase \in {"visit", "loop"} =>
        \A cover \in SUBSET rows :
            Uncovered(cover) = {} => Worse(cover) \/ \E sel \in Ahead : sel \subseteq cover

================================================================================
