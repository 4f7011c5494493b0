----------------------------- MODULE KfdbIndex -----------------------------
(***************************************************************************)
(* IndexedRelayStore: after a push is stored, its objects are projected    *)
(* into the KFDB graph (kfdb_index_batch), in several writes of which any  *)
(* may fail, by several server threads at once.  Nodes have deterministic  *)
(* ids, so that writing one again merges it.                               *)
(***************************************************************************)
EXTENDS RelayContents, FiniteSets, Sequences

CONSTANTS
    Values,     \* names that objects give: public keys, files, ids of runs
    Kind,       \* [Ids -> kind]
    Body,       \* [Ids -> [field -> list of names]]: a single name is a list of one
    Signers,    \* [Ids -> list of public keys]
    Threads,    \* server threads of the relay
    Bundles,    \* the lists of objects that clients push
    IndexLimit, \* operations per KFDB write: 100 in the code
    NoObject    \* a node without the property object_id

ASSUME IndexConstants ==
    /\ IndexLimit \in Nat \ {0}
    /\ \A b \in Bundles : b \in Seq(Ids)
    /\ \A i \in Ids : \A f \in DOMAIN Body[i] : Body[i][f] \in Seq(Values)
    /\ \A i \in Ids : Signers[i] \in Seq(Values)
    /\ NoObject \notin Ids

VARIABLES
    recorded,   \* the bundles that have an idempotency record
    thread,     \* [Threads -> the operations left to write]
    graph       \* nodes, edges, and the object_id that nodes carry

indexVars == <<stored, recorded, thread, graph, mixed>>

(* create_node and create_edge. *)
Node(x, o) == [op |-> "node", node |-> x, object |-> o]
Edge(x, y) == [op |-> "edge", from |-> x, to |-> y]

(* deterministic_uuid: node ids are made of a label and a name. *)
Repo      == <<"RickydataRepository">>
Bundle(b) == <<"RickydataBundle", b>>
Mirror(i) == <<"RickydataObjectMirror", i>>
Actor(k)  == <<"RickydataActor", k>>

(* projection_label_and_edge: the kinds that are projected; each has its   *)
(* own label.                                                              *)
Projected ==
    {"agent.intent", "agent.attempt", "agent.attempt_status", "agent.run",
     "agent.run_trace", "agent.change", "agent.patch", "agent.patch_retirement"}

(* The body fields that name a projected object, the first one present     *)
(* counts.                                                                 *)
KeyFields(kind) ==
    CASE kind = "agent.intent"                                -> <<"objective">>
      [] kind \in {"agent.attempt", "agent.attempt_status"}   -> <<"attempt_id">>
      [] kind = "agent.run"                                   -> <<"run_id">>
      [] kind = "agent.run_trace"    -> <<"trace_id", "run_id", "attempt_id">>
      [] kind = "agent.change"                                -> <<"change_id">>
      [] kind \in {"agent.patch", "agent.patch_retirement"}   -> <<"patch_id">>

ProjectionKey(i) ==
    LET present == SelectSeq(KeyFields(Kind[i]), LAMBDA f : f \in DOMAIN Body[i])
    IN  IF present = <<>> THEN i ELSE Body[i][present[1]][1]

Projection(i) == <<Kind[i], ProjectionKey(i)>>

(* The names in a body field, as nodes with this label. *)
Named(i, field, label) ==
    IF field \in DOMAIN Body[i]
      THEN [n \in DOMAIN Body[i][field] |-> <<label, Body[i][field][n]>>]
      ELSE <<>>

(* append_provenance_operations: what an object descends from. *)
Origins(i) ==
    CASE Kind[i] = "agent.attempt" -> Named(i, "intent_id", "agent.intent")
      [] Kind[i] = "agent.run"     -> Named(i, "attempt_id", "agent.attempt")
      [] Kind[i] = "agent.change"  -> Named(i, "run_ids", "agent.run")
                                        \o Named(i, "run_id", "agent.run")
      [] Kind[i] = "agent.patch"   -> Named(i, "change_ids", "agent.change")
                                        \o Named(i, "change_id", "agent.change")
      [] OTHER                     -> <<>>

(* A node and the edge from x to it. *)
Linked(x, y, o) == <<Node(y, o), Edge(x, y)>>

(* The same for each node of a list, one after the other. *)
LinkedAll(x, ys) ==
    [n \in 1..(2 * Len(ys)) |-> IF n % 2 = 1 THEN Node(ys[(n + 1) \div 2], NoObject)
                                            ELSE Edge(x, ys[n \div 2])]

SignatureOps(i) ==
    LinkedAll(Mirror(i), [n \in DOMAIN Signers[i] |-> Actor(Signers[i][n])])

FileOps(i) ==
    IF Kind[i] \in {"agent.change", "agent.patch"}
      THEN LinkedAll(Projection(i), Named(i, "file_paths", "CodeFile"))
      ELSE <<>>

ProjectionOps(i) ==
    IF Kind[i] \in Projected
      THEN Linked(Mirror(i), Projection(i), i) \o FileOps(i)
      ELSE <<>>

LineageOps(i) == LinkedAll(Projection(i), Origins(i))

ObjectOps(b, i) ==
    Linked(Repo, Mirror(i), i) \o <<Edge(Bundle(b), Mirror(i))>>
      \o SignatureOps(i) \o ProjectionOps(i) \o LineageOps(i)

(* kfdb_index_batch of the objects of a request, for the bundle that the   *)
(* push report names.                                                      *)
IndexBatch(b, objects) ==
    LET ops[n \in 0..Len(objects)] ==
          IF n = 0 THEN <<Node(Repo, NoObject)>> \o Linked(Repo, Bundle(b), NoObject)
                   ELSE ops[n - 1] \o ObjectOps(b, objects[n])
    IN  ops[Len(objects)]

----------------------------------------------------------------------------
(* Writing the graph                                                       *)

Nodes(ops) == {ops[n].node : n \in {k \in DOMAIN ops : ops[k].op = "node"}}
Edges(ops) == {<<ops[n].from, ops[n].to>> : n \in {k \in DOMAIN ops : ops[k].op = "edge"}}

(* The operations that give a node its object_id. *)
Naming(ops) == {n \in DOMAIN ops : ops[n].op = "node" /\ ops[n].object # NoObject}

(* KFDB merges a node: the last object_id given replaces older ones. *)
WriteAll(g, ops) ==
    [nodes   |-> g.nodes \cup Nodes(ops),
     edges   |-> g.edges \cup Edges(ops),
     objects |-> {p \in g.objects : \A n \in Naming(ops) : ops[n].node # p[1]}
                   \cup {<<ops[n].node, ops[n].object>> : n \in
                          {k \in Naming(ops) : \A m \in Naming(ops) :
                              ops[m].node = ops[k].node => m <= k}}]

IndexInit ==
    /\ stored = {}
    /\ recorded = {}
    /\ thread = [t \in Threads |-> <<>>]
    /\ graph = [nodes |-> {}, edges |-> {}, objects |-> {}]
    /\ mixed = {}

Objects(b) == {b[n] : n \in DOMAIN b}

(* The inner store fails; it may have stored some objects. *)
PushFails(b) ==
    /\ \E n \in 0..Len(b) : stored' = stored \cup {b[k] : k \in 1..n}
    /\ UNCHANGED <<recorded, thread, graph, mixed>>

(* The inner store has stored the objects, or has answered with the report *)
(* of a recorded bundle: the objects of the request are indexed either     *)
(* way, under the bundle of the report.                                    *)
Push(t, b) ==
    /\ thread[t] = <<>>
    /\ \/ /\ stored' = stored \cup Objects(b)
          /\ recorded' = recorded \cup {b}
          /\ thread' = [thread EXCEPT ![t] = IndexBatch(b, b)]
          /\ UNCHANGED mixed
       \/ \E r \in recorded :
            /\ thread' = [thread EXCEPT ![t] = IndexBatch(r, b)]
            /\ mixed' = IF r = b THEN mixed ELSE mixed \cup Objects(b)
            /\ UNCHANGED <<stored, recorded>>
    /\ UNCHANGED graph

(* The operations of the next write. *)
Batch(t) == SubSeq(thread[t], 1, IF Len(thread[t]) < IndexLimit THEN Len(thread[t]) ELSE IndexLimit)
Rest(t)  == SubSeq(thread[t], Len(Batch(t)) + 1, Len(thread[t]))

Advance(t) == thread' = [thread EXCEPT ![t] = Rest(t)]

(* A write succeeds; after the last one the push is answered. *)
Index(t) ==
    /\ thread[t] # <<>>
    /\ graph' = WriteAll(graph, Batch(t))
    /\ Advance(t)
    /\ UNCHANGED <<stored, recorded, mixed>>

(* Mutant: the next write follows although one has failed. *)
IndexFailsOn(t) ==
    /\ thread[t] # <<>>
    /\ Advance(t)
    /\ UNCHANGED <<stored, recorded, graph, mixed>>

(* A write fails, or its answer is lost: the rest is given up, and the     *)
(* push is answered as if nothing had happened.                            *)
IndexFails(t) ==
    /\ thread[t] # <<>>
    /\ graph' \in {graph, WriteAll(graph, Batch(t))}
    /\ thread' = [thread EXCEPT ![t] = <<>>]
    /\ UNCHANGED <<stored, recorded, mixed>>

IndexNext ==
    \/ \E b \in Bundles : PushFails(b)
    \/ \E t \in Threads :
         \/ \E b \in Bundles : Push(t, b)
         \/ Index(t) \/ IndexFails(t)

IndexSpec == IndexInit /\ [][IndexNext]_indexVars

----------------------------------------------------------------------------
(* The proof                                                               *)

Mirrored(g) == {i \in Ids : Mirror(i) \in g.nodes}

(* The rows that the proof asks for: one per patch node. *)
PatchObjects(g) == {p[2] : p \in {q \in g.objects : q[1][1] = "agent.patch"}}

(* Mutant: mirrors are not counted. *)
KfdbProofOkPatches(local) ==
    Cardinality(PatchObjects(graph)) = Cardinality({i \in local : Kind[i] = "agent.patch"})

(* build_kfdb_proof of a clone with these objects: mirrors are counted     *)
(* against objects, the objects named by patch nodes against patches.      *)
KfdbProofOk(local) ==
    /\ Cardinality(Mirrored(graph)) = Cardinality(local)
    /\ Cardinality(PatchObjects(graph)) = Cardinality({i \in local : Kind[i] = "agent.patch"})

----------------------------------------------------------------------------
(* Whatever writes fail, are cut short, overlap or are repeated, the graph *)
(* is whole and true: no edge has an end that is not there, and only       *)
(* objects that the relay has stored are mirrored (or objects that were    *)
(* pushed under the key of another bundle).                                *)
GraphSound ==
    /\ \A e \in graph.edges : e[1] \in graph.nodes /\ e[2] \in graph.nodes
    /\ Mirrored(graph) \subseteq stored \cup mixed

(* For a clone that has everything on the relay the counts of the proof    *)
(* are enough: if it reports parity and no bundles were mixed up, every    *)
(* object of the clone is on the relay and mirrored, and every patch has a *)
(* node of its own.                                                        *)
ProofSound ==
    \A local \in SUBSET Ids :
        IsFiniteSet(local) /\ mixed = {} /\ stored \subseteq local /\ KfdbProofOk(local) =>
            /\ stored = local /\ Mirrored(graph) = local
            /\ \A i, j \in local :
                 Kind[i] = "agent.patch" /\ Kind[j] = "agent.patch"
                   /\ Projection(i) = Projection(j) => i = j
=============================================================================
