------------------------- MODULE WorkflowDefinition -------------------------
(***************************************************************************)
(* Workflow definitions: which ones the service accepts, and the graph the *)
(* executor builds from an accepted one.  The validator compares node ids  *)
(* without the blanks around them, the executor compares them as they were *)
(* sent; both readings are kept apart here.                                *)
(*                                                                         *)
(* A definition is a record of two sequences, in the order they were sent: *)
(* nodes of the form [id, type] and edges of the form [from, to, label].   *)
(***************************************************************************)
EXTENDS Naturals, Sequences, FiniteSets

CONSTANTS
    RawIds,     \* node ids as clients send them
    Trimmed,    \* strings.TrimSpace on them
    Blank       \* the empty id

ASSUME BlankAssumption == Blank \notin RawIds
ASSUME TrimmedAssumption == Trimmed \in [RawIds -> RawIds \union {Blank}]

\* "task" stands for retrieve_documents, llm, http_tool and audit_log, "padded"
\* for any supported type with blanks around it, "refused" for an unsupported
\* type and for an http_tool whose url or method is not allowed.
Types == {"task", "condition", "approval", "padded", "refused"}

\* A label, normalised as validator and executor both do.
Labels == {"true", "false", "none"}

Nodes(d) == {d.nodes[i] : i \in DOMAIN d.nodes}
Edges(d) == {d.edges[i] : i \in DOMAIN d.edges}

\* What a client's request is decoded into.
IsDefinition(d) ==
    /\ d.nodes \in Seq([id : RawIds, type : Types])
    /\ d.edges \in Seq([from : RawIds, to : RawIds, label : Labels])

-----------------------------------------------------------------------------
(* ValidateDefinition *)

Ids(d) == {Trimmed[node.id] : node \in Nodes(d)}

Incoming(d, id) == Cardinality({i \in DOMAIN d.edges : Trimmed[d.edges[i].to] = id})
Outgoing(d, id) == Cardinality({i \in DOMAIN d.edges : Trimmed[d.edges[i].from] = id})

NodesAreValid(d) ==
    /\ d.nodes # <<>>
    /\ \A i, j \in DOMAIN d.nodes :
            Trimmed[d.nodes[i].id] = Trimmed[d.nodes[j].id] => i = j
    /\ \A node \in Nodes(d) : Trimmed[node.id] # Blank /\ node.type # "refused"

EdgesAreValid(d) ==
    \A edge \in Edges(d) :
        /\ {Trimmed[edge.from], Trimmed[edge.to]} \subseteq Ids(d)
        /\ Trimmed[edge.from] # Trimmed[edge.to]

\* The branches of a condition node are found by its id as it was sent.
BranchesAreValid(d) ==
    \A node \in Nodes(d) : node.type = "condition" =>
        /\ Outgoing(d, Trimmed[node.id]) >= 2
        /\ {edge.label : edge \in {e \in Edges(d) : e.from = node.id}}
                = {"true", "false"}

\* Broken variant: nobody asks for a root.
ValidWithoutRoot(d) ==
    /\ NodesAreValid(d)
    /\ EdgesAreValid(d)
    /\ \A id \in Ids(d) : Incoming(d, id) <= 1
    /\ BranchesAreValid(d)

Valid(d) ==
    /\ NodesAreValid(d)
    /\ EdgesAreValid(d)
    /\ \A id \in Ids(d) : Incoming(d, id) <= 1
    /\ \E id \in Ids(d) : Incoming(d, id) = 0
    /\ BranchesAreValid(d)

-----------------------------------------------------------------------------
(* buildGraph and graph.next *)

RawNodes(d) == {node.id : node \in Nodes(d)}

\* The executor's view of a node; an id without a node yields the zero Node.
NodeOf(d, id) ==
    IF id \in RawNodes(d)
    THEN CHOOSE node \in Nodes(d) : node.id = id
    ELSE [id |-> Blank, type |-> "zero"]

IsRoot(d, node) == \A edge \in Edges(d) : edge.to # node.id

\* The members of a list at the given positions, in their order.
Picked(list, positions) ==
    LET upTo[k \in 0..Len(list)] ==
            IF k = 0 THEN <<>>
            ELSE IF k \in positions THEN Append(upTo[k - 1], list[k])
            ELSE upTo[k - 1]
    IN  upTo[Len(list)]

\* The nodes without an incoming edge, in the order of the definition.
Roots(d) ==
    Picked([i \in DOMAIN d.nodes |-> d.nodes[i].id],
           {i \in DOMAIN d.nodes : IsRoot(d, d.nodes[i])})

\* The nodes behind a node, in the order of the edges: all of them, or those
\* on the matching branch of a condition.
NextNodes(d, node, output) ==
    LET IsTaken(edge) == /\ edge.from = node.id
                         /\ node.type = "condition" => edge.label = output
    IN  Picked([i \in DOMAIN d.edges |-> d.edges[i].to],
               {i \in DOMAIN d.edges : IsTaken(d.edges[i])})
=============================================================================
