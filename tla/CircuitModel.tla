------------------------------ MODULE CircuitModel ------------------------------
(***************************************************************************)
(* The circuit graph of zbit-rs/src/model.rs: nodes are interned, so that  *)
(* equal ones are stored once, and simplified while they are; a truth      *)
(* table is minimized (ExactCover), or taken from the advanced minimizer   *)
(* as any cover that is the function, and built node by node; a graph is   *)
(* saved and loaded.  One input of one term is a step of the building.     *)
(*                                                                         *)
(* Node ids start at 1 here and at 0 in the code.  A truth table is the    *)
(* set of the input vectors it is true for, a vector the set of its inputs *)
(* that are 1.                                                             *)
(***************************************************************************)
EXTENDS ExactCover

CONSTANTS
    Tables,      \* the tables compressed: [inputs, outputs, dontCares]
    MaxTerms,    \* the most terms of a cover of the advanced minimizer
    MaxNodes,    \* no node is interned by hand in a graph of this size
    MaxArgs      \* the most operands of a node interned by hand

ASSUME ConstantAssumption ==
    /\ \A t \in Tables : /\ t.inputs \in Nat
                         /\ t.outputs \cup t.dontCares \subseteq SUBSET (0..(t.inputs - 1))
    /\ \A t \in Tables : Cardinality(t.outputs \ t.dontCares) < Unbounded   \* counted in 32 bits
    /\ MaxTerms \in Nat /\ MaxNodes \in Nat /\ MaxArgs \in Nat

VARIABLES
    state,     \* none, ready, minimize, term or refused
    numInputs,
    nodes,     \* the nodes, an operand before every node that uses it
    pinIds,    \* the node of each input
    rootId,
    counts,    \* the terms and literals of the cover the graph was built from
    table,     \* the table the graph is to have, where one was given
    todo,      \* the implicants that are not yet in the graph
    bit,       \* the next input of the implicant that is built
    andIds,    \* the operands of its AND
    orIds      \* the operands of the OR

graphVars == <<numInputs, nodes, pinIds, rootId, counts, table>>
buildVars == <<todo, bit, andIds, orIds>>
modelVars == <<coverVars, state, graphVars, buildVars>>

----------------------------------------------------------------------------
(* Interning.  What interning returns is the graph and the id of the node. *)

Commutative == {"And", "Or", "Xor"}
At(g, id) == [nodes |-> g, id |-> id]

\* Mutant of InternRaw: the index of the nodes is not asked.
InternAnew(g, type, value, inputs) ==
    At(Append(g, [type |-> type, value |-> value, inputs |-> inputs]), Len(g) + 1)

\* intern_node_raw
InternRaw(g, type, value, inputs) ==
    LET node == [type |-> type, value |-> value, inputs |-> inputs]
    IN IF node \in ToSet(g) THEN At(g, CHOOSE i \in DOMAIN g : g[i] = node)
       ELSE At(Append(g, node), Len(g) + 1)

True(g) == InternRaw(g, "And", -1, <<>>)
False(g) == InternRaw(g, "Or", -1, <<>>)
IsTrueId(g, id) == g[id].type = "And" /\ g[id].inputs = <<>>
IsFalseId(g, id) == g[id].type = "Or" /\ g[id].inputs = <<>>

\* Operands are kept in growing order, each once.
Ascending(S) == [i \in 1..Cardinality(S) |-> CHOOSE x \in S : Cardinality({y \in S : y < x}) = i - 1]
\* Mutant of Odd: an operand given twice is one operand, as it is of AND and OR.
OddOnce(s) == ToSet(s)
\* Of the operands of an XOR those given an odd number of times are left.
Odd(s) == {x \in ToSet(s) : Cardinality({i \in DOMAIN s : s[i] = x}) % 2 = 1}

\* An AND, OR or XOR of one operand is the operand.
Collapsed(g, type, args) ==
    IF Cardinality(args) = 1 THEN At(g, Ascending(args)[1]) ELSE InternRaw(g, type, -1, Ascending(args))

\* A double negation is no negation, and that of a constant is a constant.
InternNot(g, arg) ==
    IF g[arg].type = "Not" THEN At(g, g[arg].inputs[1])
    ELSE IF IsTrueId(g, arg) THEN False(g)
    ELSE IF IsFalseId(g, arg) THEN True(g)
    ELSE InternRaw(g, "Not", -1, <<arg>>)

\* An operand that decides an AND or OR alone, and one that does not matter to it.
Decides(g, type, id) == IF type = "And" THEN IsFalseId(g, id) ELSE IsTrueId(g, id)
Neutral(g, type, id) == IF type = "And" THEN IsTrueId(g, id) ELSE IsFalseId(g, id)

\* AND and OR lose what does not decide them; one operand that decides them, or a node
\* and its negation, leave the constant.
InternAndOr(g, type, inputs) ==
    LET rest == {id \in ToSet(inputs) : ~Neutral(g, type, id)}
    IN IF \/ \E id \in ToSet(inputs) : Decides(g, type, id)
          \/ \E id \in rest : g[id].type = "Not" /\ g[id].inputs[1] \in rest
       THEN IF type = "And" THEN False(g) ELSE True(g)
       ELSE Collapsed(g, type, rest)

\* Whether the constant operands of an XOR invert it.
Parity(g, args) == Cardinality({id \in args : IsTrueId(g, id)}) % 2 = 1

\* XOR loses its constants; if they invert it, TRUE is an operand again.
InternXor(g, inputs) ==
    LET rest == {id \in Odd(inputs) : ~IsTrueId(g, id) /\ ~IsFalseId(g, id)}
    IN IF ~Parity(g, Odd(inputs))
       THEN IF rest = {} THEN False(g) ELSE Collapsed(g, "Xor", rest)
       ELSE IF rest = {} THEN True(g)
       ELSE InternRaw(True(g).nodes, "Xor", -1, Ascending(rest \cup {True(g).id}))

\* intern_node
InternNode(g, type, inputs) ==
    CASE type = "Not" -> InternNot(g, inputs[1])
      [] type = "Xor" -> InternXor(g, inputs)
      [] OTHER -> InternAndOr(g, type, inputs)

\* reset_graph: a node for each input, and the constant 0, which is the root.
Pin(i) == [type |-> "Pin", value |-> i, inputs |-> <<>>]
EmptyGraph(k) == False([i \in 1..k |-> Pin(i - 1)])
ResetGraph(k) ==
    /\ nodes' = EmptyGraph(k).nodes
    /\ pinIds' = [i \in 1..k |-> i]
    /\ rootId' = EmptyGraph(k).id

----------------------------------------------------------------------------
(* Evaluation.                                                             *)

\* The value of a node, from those of the nodes before it.
NodeValue(node, vector, value) ==
    LET args == node.inputs
    IN CASE node.type = "Pin" -> node.value \in vector
         [] node.type = "Not" -> ~value[args[1]]
         [] node.type = "And" -> \A i \in DOMAIN args : value[args[i]]
         [] node.type = "Or" -> \E i \in DOMAIN args : value[args[i]]
         [] node.type = "Xor" -> Cardinality({i \in DOMAIN args : value[args[i]]}) % 2 = 1
Values(g, vector) ==
    LET value[id \in DOMAIN g] == NodeValue(g[id], vector, value) IN value

Vectors(k) == SUBSET (0..(k - 1))
\* decompress_to_table
Table(g, root, k) == {v \in Vectors(k) : Values(g, v)[root]}

----------------------------------------------------------------------------
(* A table becomes a graph.                                                *)

NoTable == [on |-> {}, dc |-> {}]
NoCounts == [implicants |-> 0, literals |-> 0]

\* ZbitModel::new
New(k) ==
    /\ state = "none"
    /\ numInputs' = k /\ ResetGraph(k)
    /\ state' = "ready" /\ table' = NoTable /\ counts' = NoCounts
    /\ UNCHANGED <<coverVars, buildVars>>

GraphInit ==
    /\ CoverInit
    /\ state = "none" /\ numInputs = 0 /\ nodes = <<>> /\ pinIds = <<>> /\ rootId = 0
    /\ table = NoTable /\ counts = NoCounts
    /\ todo = {} /\ bit = 0 /\ andIds = <<>> /\ orIds = <<>>

\* collect_sets_from_table: a don't-care is one whatever the output is.
Collected(t) == [on |-> t.outputs \ t.dontCares, dc |-> t.dontCares]

\* compress_from_table
Compress(t) ==
    /\ state = "ready" /\ t.inputs = numInputs
    /\ table' = Collected(t)
    /\ Minimize(0..(numInputs - 1), table'.on, table'.dc)
    /\ state' = "minimize"
    /\ UNCHANGED <<numInputs, nodes, pinIds, rootId, counts, buildVars>>

Minimizes == state = "minimize" /\ CoverStep /\ UNCHANGED <<state, graphVars, buildVars>>

\* Mutant of BuildFrom: the graph is not reset.
BuildOnOldGraph(implicants) ==
    /\ todo' = implicants /\ counts' = [implicants |-> Cardinality(implicants), literals |-> Literals(implicants)]
    /\ UNCHANGED <<pinIds, rootId>> /\ nodes' = True(nodes).nodes
    /\ state' = IF implicants = {} THEN "ready" ELSE "term"
    /\ bit' = 0 /\ andIds' = <<>> /\ orIds' = <<>>

\* build_from_implicants: without implicants the constant 0 is all there is.
BuildFrom(implicants) ==
    /\ todo' = implicants /\ counts' = [implicants |-> Cardinality(implicants), literals |-> Literals(implicants)]
    /\ pinIds' = [i \in 1..numInputs |-> i] /\ rootId' = EmptyGraph(numInputs).id
    /\ nodes' = IF implicants = {} THEN EmptyGraph(numInputs).nodes ELSE True(EmptyGraph(numInputs).nodes).nodes
    /\ state' = IF implicants = {} THEN "ready" ELSE "term"
    /\ bit' = 0 /\ andIds' = <<>> /\ orIds' = <<>>

\* The minimizer keeps nothing from one call to the next.
Forget ==
    /\ phase' = "idle" /\ onSet' = {} /\ terms' = {} /\ primes' = {} /\ rows' = {}
    /\ selected' = {} /\ call' = {} /\ open' = <<>> /\ best' = NoCover

\* The exact cover; the graph stays as it is if there is none.
Minimized ==
    /\ state = "minimize" /\ phase \in {"done", "failed"}
    /\ IF phase = "done" THEN BuildFrom(best.selected)
       ELSE state' = "refused" /\ UNCHANGED <<nodes, pinIds, rootId, counts, buildVars>>
    /\ Forget
    /\ UNCHANGED <<numInputs, table>>

\* What a cover of a table may consist of.
TableImplicants(t) ==
    {p \in [mask : Vectors(t.inputs), value : Vectors(t.inputs)] :
        /\ p.value \subseteq p.mask
        /\ \A m \in Vectors(t.inputs) : Covers(p, m) => m \in t.outputs \cup t.dontCares}

\* compress_from_table_advanced: any cover that is the function may come back.
CompressAdvanced(t) ==
    /\ state = "ready" /\ t.inputs = numInputs
    /\ table' = Collected(t)
    /\ \E c \in SUBSET TableImplicants(t) :
           /\ Cardinality(c) <= MaxTerms /\ (Collected(t).on = {} => c = {})
           /\ \A m \in Collected(t).on : \E p \in c : Covers(p, m)
           /\ BuildFrom(c)
    /\ UNCHANGED <<coverVars, numInputs>>

\* The next implicant.  In which order they come is the minimizer's choice.
Term == CHOOSE p \in todo : TRUE

\* One input of the term: its node, or the negation of it, becomes an operand.
Literal ==
    IF bit \notin Term.mask THEN UNCHANGED <<nodes, andIds>>
    ELSE IF bit \in Term.value THEN andIds' = Append(andIds, pinIds[bit + 1]) /\ UNCHANGED nodes
    ELSE LET not == InternNode(nodes, "Not", <<pinIds[bit + 1]>>)
         IN nodes' = not.nodes /\ andIds' = Append(andIds, not.id)

AddLiteral ==
    /\ state = "term" /\ todo # {} /\ bit < numInputs /\ Term.mask # {}
    /\ Literal
    /\ bit' = bit + 1
    /\ UNCHANGED <<coverVars, state, numInputs, pinIds, rootId, counts, table, todo, orIds>>

\* The AND of a term; a term without literals is TRUE.
EndTerm ==
    /\ state = "term" /\ todo # {} /\ (bit = numInputs \/ Term.mask = {})
    /\ LET and == IF Term.mask = {} THEN True(nodes) ELSE InternNode(nodes, "And", andIds)
       IN nodes' = and.nodes /\ orIds' = Append(orIds, and.id)
    /\ todo' = todo \ {Term} /\ bit' = 0 /\ andIds' = <<>>
    /\ UNCHANGED <<coverVars, state, numInputs, pinIds, rootId, counts, table>>

\* The OR of the terms is the root.
EndBuild ==
    /\ state = "term" /\ todo = {}
    /\ LET or == InternNode(nodes, "Or", orIds) IN nodes' = or.nodes /\ rootId' = or.id
    /\ state' = "ready" /\ orIds' = <<>>
    /\ UNCHANGED <<coverVars, numInputs, pinIds, counts, table, todo, bit, andIds>>

\* intern_node for any operands there are, as a caller may give them.
ByHand(g) ==
    {<<type, args>> : type \in Commutative, args \in UNION {[1..k -> DOMAIN g] : k \in 0..MaxArgs}}
    \cup {<<"Not", <<id>>>> : id \in DOMAIN g}
Intern(type, args) ==
    /\ state = "ready" /\ table = NoTable /\ Len(nodes) < MaxNodes
    /\ nodes' = InternNode(nodes, type, args).nodes
    /\ UNCHANGED <<coverVars, state, numInputs, pinIds, rootId, counts, table, buildVars>>

----------------------------------------------------------------------------
(* Saving and loading.                                                     *)

\* from_bytes: what it sorts, and what it accepts.  Sorting puts at a place the operand
\* that has fewer smaller ones than places up to there, and enough that are no larger.
InOrder(s) ==
    [i \in DOMAIN s |->
        CHOOSE x \in ToSet(s) : /\ Cardinality({j \in DOMAIN s : s[j] < x}) < i
                               /\ Cardinality({j \in DOMAIN s : s[j] <= x}) >= i]
Sorted(node) == IF node.type \in Commutative THEN [node EXCEPT !.inputs = InOrder(@)] ELSE node
FirstPin(g, i) == CHOOSE id \in DOMAIN g : g[id] = Pin(i) /\ \A k \in 1..(id - 1) : g[k] # Pin(i)
Accepted(g, root, k) ==
    /\ \A id \in DOMAIN g :
           /\ g[id].type = "Pin" => g[id].inputs = <<>>
           /\ g[id].type = "Not" => Len(g[id].inputs) = 1
           /\ \A i \in DOMAIN g[id].inputs : g[id].inputs[i] < id
    /\ root \in DOMAIN g
    /\ \A a, b \in DOMAIN g : Sorted(g[a]) = Sorted(g[b]) => a = b
    /\ \A i \in 0..(k - 1) : Pin(i) \in ToSet(g)

\* from_bytes of what to_bytes gives.  The counts are not in the file.
Reload ==
    /\ state = "ready"
    /\ IF Accepted(nodes, rootId, numInputs)
       THEN /\ nodes' = [id \in DOMAIN nodes |-> Sorted(nodes[id])]
            /\ pinIds' = [i \in 1..numInputs |-> FirstPin(nodes, i - 1)]
            /\ counts' = NoCounts
            /\ UNCHANGED state
       ELSE state' = "refused" /\ UNCHANGED <<nodes, pinIds, counts>>
    /\ UNCHANGED <<coverVars, numInputs, rootId, table, buildVars>>

GraphNext ==
    \/ \E t \in Tables : New(t.inputs) \/ Compress(t) \/ CompressAdvanced(t)
    \/ Minimizes \/ Minimized \/ AddLiteral \/ EndTerm \/ EndBuild
    \/ \E ask \in ByHand(nodes) : Intern(ask[1], ask[2])
    \/ Reload

GraphSpec == GraphInit /\ [][GraphNext]_modelVars

----------------------------------------------------------------------------
(* Properties.                                                             *)

Apply(type, values) ==
    CASE type = "Not" -> ~values[1]
      [] type = "And" -> \A i \in DOMAIN values : values[i]
      [] type = "Or" -> \E i \in DOMAIN values : values[i]
      [] type = "Xor" -> Cardinality({i \in DOMAIN values : values[i]}) % 2 = 1

\* Whatever node is asked for next, in whatever order and however often its operands
\* are given, the node that is returned has the value of the operation, and no node
\* that was there has another value (model.rs:190-324).
InternIsTheOperation ==
    (state = "ready" /\ table = NoTable) =>
        \A ask \in ByHand(nodes) :
            LET new == InternNode(nodes, ask[1], ask[2])
            IN \A v \in Vectors(numInputs) :
                   LET values == Values(new.nodes, v)
                   IN /\ values[new.id] = Apply(ask[1], [i \in DOMAIN ask[2] |-> values[ask[2][i]]])
                      /\ \A id \in DOMAIN nodes : values[id] = Values(nodes, v)[id]

\* Every node is simplified as far as its operands allow and there is no other of its
\* kind: no negation of a negation or of a constant, no operand twice, no constant and no
\* node beside its negation under AND and OR, and operands are older than their node
\* (model.rs:190-324).
GraphIsReduced ==
    \A id \in DOMAIN nodes :
        LET node == nodes[id]
            args == node.inputs
            Constant(a) == IsTrueId(nodes, a) \/ IsFalseId(nodes, a)
        IN /\ \A i \in DOMAIN args : args[i] < id /\ (i > 1 => args[i - 1] < args[i])
           /\ node.type \in Commutative => Len(args) # 1
           /\ node.type = "Not" => nodes[args[1]].type # "Not" /\ ~Constant(args[1])
           /\ node.type \in {"And", "Or"} =>
                  \A a \in ToSet(args) :
                      /\ ~Constant(a)
                      /\ nodes[a].type = "Not" => nodes[a].inputs[1] \notin ToSet(args)
           /\ \A other \in DOMAIN nodes : nodes[other] = node => other = id

\* No graph that was built or interned is refused when it is saved and loaded, and no
\* table is refused (model.rs:534-670).
NothingIsRefused == state # "refused"

\* The graph of a table is true where the table is and false where it is not, also if
\* another was built before, and after it was saved and loaded (model.rs:326-486, 534-670).
GraphIsTheTable ==
    (state = "ready" /\ table # NoTable) =>
        /\ table.on \subseteq Table(nodes, rootId, numInputs)
        /\ Table(nodes, rootId, numInputs) \subseteq table.on \cup table.dc

================================================================================
