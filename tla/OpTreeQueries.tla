---------------------------- MODULE OpTreeQueries ----------------------------
(***************************************************************************)
(* How a tree is matched with a pattern, a tree whose leaves may be named  *)
(* queries (expression.rs).                                                *)
(***************************************************************************)
EXTENDS OpTrees, SequencesExt

Query(name) == [kind |-> "query", name |-> name]

-----------------------------------------------------------------------------
(***************************************************************************)
(* OpTree::in_query.  A tree of a program holds no query, so the panic     *)
(* about one on the left is left out.                                      *)
(***************************************************************************)

SameArity(tree, query) == Len(tree.inputs) = Len(query.inputs)

SameOperation(tree, query) ==
    tree.op = query.op /\ Len(tree.inputs) = Len(query.inputs)

RECURSIVE InQuery(_, _)
InQuery(tree, query) ==
    \/ query.kind = "query"
    \/ /\ tree.kind = "operation" /\ query.kind = "operation"
       /\ SameOperation(tree, query)
       /\ \A i \in DOMAIN query.inputs : InQuery(tree.inputs[i], query.inputs[i])
    \/ query.kind \in {"constant", "argument"} /\ tree = query

\* The bindings of a match, from left to right.
RECURSIVE Bindings(_, _)
Bindings(tree, query) ==
    CASE query.kind = "query"     -> << <<query.name, tree>> >>
      [] query.kind = "operation" ->
            FlattenSeq([i \in DOMAIN query.inputs |->
                            Bindings(tree.inputs[i], query.inputs[i])])
      [] OTHER                    -> <<>>

\* Collected into a HashMap: of two bindings of a name the later one stays.
Answer(tree, query) ==
    LET found == Bindings(tree, query)
        Latest(name) == CHOOSE i \in DOMAIN found :
                          /\ found[i][1] = name
                          /\ \A j \in DOMAIN found : found[j][1] = name => j <= i
    IN  [name \in {found[i][1] : i \in DOMAIN found} |-> found[Latest(name)][2]]

-----------------------------------------------------------------------------
(***************************************************************************)
(* What a query means, to check the matching against: a tree is an         *)
(* instance of a pattern if putting trees for its names gives the tree.    *)
(***************************************************************************)

RECURSIVE NamesIn(_)
NamesIn(query) ==
    CASE query.kind = "query"     -> <<query.name>>
      [] query.kind = "operation" ->
            FlattenSeq([i \in DOMAIN query.inputs |-> NamesIn(query.inputs[i])])
      [] OTHER                    -> <<>>

IsLinear(query) == IsInjective(NamesIn(query))

RECURSIVE Instance(_, _)
Instance(query, trees) ==
    CASE query.kind = "query"     -> trees[query.name]
      [] query.kind = "operation" ->
            Operation(query.op, [i \in DOMAIN query.inputs |->
                                    Instance(query.inputs[i], trees)])
      [] OTHER                    -> query

RECURSIVE SubTrees(_)
SubTrees(tree) ==
    {tree} \cup (IF tree.kind = "operation"
                 THEN UNION {SubTrees(tree.inputs[i]) : i \in DOMAIN tree.inputs}
                 ELSE {})

IsInstance(tree, query) ==
    \E trees \in [Range(NamesIn(query)) -> SubTrees(tree)] : Instance(query, trees) = tree

=============================================================================
