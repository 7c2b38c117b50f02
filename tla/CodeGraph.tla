----------------------------- MODULE CodeGraph ------------------------------
(***************************************************************************)
(* The knowledge graph of CORTEX (cortex/graph.py) and the command that    *)
(* rebuilds it, `danza cortex index' (commands.py, repo_intel.py,          *)
(* git_intel.py): clear, scan the tree, ingest the history, link the       *)
(* observations.  Each write is a commit of its own: another process sees  *)
(* a graph in the making, a run may die in the middle, and two runs may    *)
(* overlap.                                                                *)
(*                                                                         *)
(* A node is <<kind, name>>; an edge <<source, target, relation>>.  All    *)
(* nodes are of one project.  A file stands for its module; its symbols    *)
(* (nodes that only their own file points to), weights and attributes are  *)
(* left out, and so is the language of an import.                          *)
(***************************************************************************)
EXTENDS Naturals, FiniteSets, Sequences, SequencesExt

CONSTANTS
  File,      (* paths the tree may hold                                    *)
  Library,   (* what a file may import besides                             *)
  Commit,    (* commits of the log, with the paths they touch:             *)
  Touches,   (*   [Commit -> SUBSET File]                                  *)
  Obs,       (* observations, and for each of them                         *)
  About,     (*   its files: [Obs -> SUBSET Path]                          *)
  Cites,     (*   the commits in related_commits and evidence              *)
  Path,      (* paths as recorded: relative or absolute                    *)
  Tails,     (* [Path -> SUBSET File]: the names that a path ends with     *)
  Run,       (* processes that run the index                               *)
  Imports,   (* bound: the sets a file's imports are taken from            *)
  Trees, Stores,         (* bound: what an index starts from               *)
  MaxEdits   (* bound: edits of the tree and of the store                  *)

ASSUME GraphAssumption ==
  /\ File \subseteq Path /\ Touches \in [Commit -> SUBSET File]
  /\ About \in [Obs -> SUBSET Path] /\ Cites \in [Obs -> SUBSET Commit]
  /\ Tails \in [Path -> SUBSET File] /\ Imports \subseteq SUBSET (File \cup Library)
  /\ Trees \subseteq UNION {[fs -> Imports] : fs \in SUBSET File}
  /\ Stores \subseteq [Obs -> {"absent", "live", "archived", "superseded"}]
  /\ IsFiniteSet(File) /\ IsFiniteSet(Commit) /\ IsFiniteSet(Obs)
  /\ \A is \in Imports : IsFiniteSet(is)
  /\ \A o \in Obs : IsFiniteSet(About[o])

VARIABLES
  tree,      (* the repository: a function from its files to their imports *)
  store,     (* [Obs -> "absent", "live", "archived" or "superseded"]      *)
  nodes, edges,          (* the two tables                                 *)
  run,       (* [Run -> [phase, todo]]: the writes left in this phase      *)
  edits,     (* edits so far                                               *)
  seen,      (* what each run read: [Run -> [tree, obs]]                   *)
  cleared,   (* the run that cleared last                                  *)
  overlap    (* two runs were under way at once                            *)

tables == <<nodes, edges>>
aux == <<seen, cleared, overlap>>
graphVars == <<tree, store, tables, run, edits, aux>>

Phases == {"idle", "walk", "scan", "git", "link"}

CodeGraphInit ==
  /\ tree \in Trees /\ store \in Stores
  /\ nodes = {} /\ edges = {}
  /\ run = [r \in Run |-> [phase |-> "idle", todo |-> <<>>]]
  /\ edits = 0
  /\ seen = [r \in Run |-> [tree |-> <<>>, obs |-> {}]]
  /\ cleared = (CHOOSE r \in Run : TRUE) /\ overlap = FALSE

------------------------------------------------------------------------------
(* Reading.                                                                *)
IsNode(n) == n \in nodes

(* resolve_file(): the path itself, or the one file name it ends with.     *)
Resolve(path) ==
  IF IsNode(<<"file", path>>) THEN {<<"file", path>>}
  ELSE LET matches == {n \in nodes : n[1] = "file" /\ n[2] \in Tails[path]}
       IN IF Cardinality(matches) = 1 THEN matches ELSE {}

(* The files that import n, or with reverse off those that n imports.      *)
Adjacent(n, reverse) ==
  IF reverse THEN {e[1] : e \in {x \in edges : x[2] = n /\ x[3] = "imports"}}
             ELSE {e[2] : e \in {x \in edges : x[1] = n /\ x[3] = "imports"}}

(* _closure(): the recursive query's table of rows (id, depth), then the   *)
(* least depth of each id but the start.                                   *)
Closure(n, depth, reverse) ==
  LET rows[k \in 1 .. depth] ==
        IF k = 1 THEN {<<m, 1>> : m \in Adjacent(n, reverse)}
        ELSE rows[k - 1] \cup
             UNION {{<<m, row[2] + 1>> : m \in Adjacent(row[1], reverse)} :
                      row \in {x \in rows[k - 1] : x[2] < depth}}
  IN {row \in rows[depth] :
        row[1] # n /\ \A x \in rows[depth] : x[1] = row[1] => row[2] <= x[2]}

(* Mutant: the cap is tested after the step.                               *)
ImpactDeep(n, depth) == Closure(n, depth + 1, TRUE)

Impact(n, depth) == Closure(n, depth, TRUE)
Dependencies(n, depth) == Closure(n, depth, FALSE)

Attached(n) ==
  {e[1][2] : e \in {x \in edges : x[2] = n /\ x[3] = "about" /\ IsNode(x[1])}}

------------------------------------------------------------------------------
(* The index.                                                              *)
AddNode(n) == [op |-> "node", node |-> n]
AddEdge(e) == [op |-> "edge", edge |-> e]

(* An edge to what a lookup finds when its turn comes: a node, or for      *)
(* "about" the file that a path resolves to.                               *)
Link(from, to, rel) == [op |-> "link", from |-> from, to |-> to, rel |-> rel]

Found(w) == IF w.rel = "about" THEN Resolve(w.to) ELSE {w.to} \cap nodes

Target(name, t) == IF name \in DOMAIN t THEN <<"file", name>> ELSE <<"module", name>>

(* What scan_repo writes about one file, t being all it has read.          *)
FileWrites(f, t) ==
  LET One(name) ==
        (IF name \in DOMAIN t THEN <<>> ELSE <<AddNode(<<"module", name>>)>>)
          \o <<AddEdge(<< <<"file", f>>, Target(name, t), "imports" >>)>>
  IN <<AddNode(<<"file", f>>), AddNode(<<"module", f>>)>>
       \o FlattenSeq([i \in 1 .. Cardinality(t[f]) |-> One(SetToSeq(t[f])[i])])

ScanWrites(t) ==
  LET fs == SetToSeq(DOMAIN t) IN FlattenSeq([i \in DOMAIN fs |-> FileWrites(fs[i], t)])

(* ingest_git.                                                             *)
GitWrites ==
  LET cs == SetToSeq(Commit)
      One(c) == <<AddNode(<<"commit", c>>)>> \o
                [i \in 1 .. Cardinality(Touches[c]) |->
                   Link(<<"commit", c>>, <<"file", SetToSeq(Touches[c])[i]>>, "modifies")]
  IN FlattenSeq([i \in DOMAIN cs |-> One(cs[i])])

Linked(s) == {o \in Obs : s[o] \notin {"absent", "superseded"}}

(* link_observations.                                                      *)
LinkWrites(os) ==
  LET Refs(o) == SetToSeq(Cites[o])
      Files(o) == SetToSeq(About[o])
      One(o) == <<AddNode(<<"observation", o>>)>> \o
                [i \in DOMAIN Files(o) |-> Link(<<"observation", o>>, Files(o)[i], "about")] \o
                [i \in DOMAIN Refs(o) |->
                   Link(<<"observation", o>>, <<"commit", Refs(o)[i]>>, "references")]
  IN FlattenSeq([i \in 1 .. Cardinality(os) |-> One(SetToSeq(os)[i])])

(* Mutant: the edges are left to be replaced.                              *)
ClearNodes == edges

(* clear(): the edges at a node of the project go, then its nodes.         *)
ClearEdges == {e \in edges : ~IsNode(e[1]) /\ ~IsNode(e[2])}

Clear(r) ==
  /\ run[r].phase = "idle"
  /\ edges' = ClearEdges /\ nodes' = {}
  /\ run' = [run EXCEPT ![r].phase = "walk"]
  /\ cleared' = r
  /\ overlap' = (overlap \/ \E x \in Run : run[x].phase # "idle")
  /\ UNCHANGED <<tree, store, edits, seen>>

(* scan_repo reads and analyzes every file before it writes.               *)
Walk(r) ==
  /\ run[r].phase = "walk"
  /\ run' = [run EXCEPT ![r] = [phase |-> "scan", todo |-> ScanWrites(tree)]]
  /\ seen' = [seen EXCEPT ![r].tree = tree]
  /\ UNCHANGED <<tree, store, tables, edits, cleared, overlap>>

Write(r) ==
  /\ run[r].todo # <<>>
  /\ LET w == Head(run[r].todo) IN
       /\ nodes' = IF w.op = "node" THEN nodes \cup {w.node} ELSE nodes
       /\ edges' = CASE w.op = "node" -> edges
                     [] w.op = "edge" -> edges \cup {w.edge}
                     [] w.op = "link" -> edges \cup {<<w.from, n, w.rel>> : n \in Found(w)}
  /\ run' = [run EXCEPT ![r].todo = Tail(@)]
  /\ UNCHANGED <<tree, store, edits, aux>>

(* The next part of the index begins, or the command ends.                 *)
Advance(r) ==
  /\ run[r].phase \in {"scan", "git", "link"} /\ run[r].todo = <<>>
  /\ run' = [run EXCEPT ![r] =
       CASE run[r].phase = "scan" -> [phase |-> "git", todo |-> GitWrites]
         [] run[r].phase = "git" -> [phase |-> "link", todo |-> LinkWrites(Linked(store))]
         [] OTHER -> [phase |-> "idle", todo |-> <<>>]]
  /\ seen' = IF run[r].phase # "git" THEN seen
             ELSE [seen EXCEPT ![r].obs = {o \in Obs : store[o] \in {"live", "archived"}}]
  /\ UNCHANGED <<tree, store, tables, edits, cleared, overlap>>

Die(r) ==
  /\ run[r].phase # "idle"
  /\ run' = [run EXCEPT ![r] = [phase |-> "idle", todo |-> <<>>]]
  /\ UNCHANGED <<tree, store, tables, edits, aux>>

(* Other processes: the tree is edited, observations come and go.          *)
EditTree ==
  /\ edits < MaxEdits /\ edits' = edits + 1
  /\ \E f \in File :
       \/ \E is \in Imports : tree' = [g \in DOMAIN tree \cup {f} |-> IF g = f THEN is ELSE tree[g]]
       \/ tree' = [g \in DOMAIN tree \ {f} |-> tree[g]]
  /\ tree' # tree
  /\ UNCHANGED <<store, tables, run, aux>>

EditStore ==
  /\ edits < MaxEdits /\ edits' = edits + 1
  /\ \E o \in Obs :
       \/ store[o] = "absent" /\ store' = [store EXCEPT ![o] = "live"]
       \/ store[o] = "live" /\ \E s \in {"archived", "superseded"} : store' = [store EXCEPT ![o] = s]
  /\ UNCHANGED <<tree, tables, run, aux>>

CodeGraphNext ==
  \/ \E r \in Run : Clear(r) \/ Walk(r) \/ Write(r) \/ Advance(r) \/ Die(r)
  \/ EditTree \/ EditStore

------------------------------------------------------------------------------
(* The graph of a tree and a set of observations, said at once.            *)
NodesOf(t, os) ==
  {<<"file", f>> : f \in DOMAIN t} \cup {<<"module", f>> : f \in DOMAIN t}
    \cup {<<"module", i>> : i \in (UNION {t[f] : f \in DOMAIN t}) \ DOMAIN t}
    \cup {<<"commit", c>> : c \in Commit} \cup {<<"observation", o>> : o \in os}

FilesFor(path, t) ==
  IF path \in DOMAIN t THEN {path}
  ELSE {f \in Tails[path] \cap DOMAIN t : Tails[path] \cap DOMAIN t = {f}}

CodeEdgesOf(t) ==
  (UNION {{<< <<"file", f>>, Target(i, t), "imports" >> : i \in t[f]} : f \in DOMAIN t})
    \cup UNION {{<< <<"commit", c>>, <<"file", f>>, "modifies" >> : f \in Touches[c] \cap DOMAIN t} :
                  c \in Commit}

ObsEdgesOf(t, os) ==
  (UNION {{<< <<"observation", o>>, <<"commit", c>>, "references" >> : c \in Cites[o]} : o \in os})
    \cup UNION {{<< <<"observation", o>>, <<"file", f>>, "about" >> :
                   f \in UNION {FilesFor(p, t) : p \in About[o]}} : o \in os}

(* When an index run that cleared last comes to its end, the graph is that *)
(* of the tree and the observations it read, whatever died, was edited or  *)
(* superseded before; unless two runs ever overlapped, then what either    *)
(* left behind may be there too ("deterministic rebuild (clear + rescan)   *)
(* so the graph never drifts from reality", commands.py:346-348).          *)
IndexRebuilds ==
  \A r \in Run :
    run[r] = [phase |-> "link", todo |-> <<>>] /\ cleared = r =>
      LET t == seen[r].tree
          os == seen[r].obs
      IN /\ NodesOf(t, os) \subseteq nodes /\ CodeEdgesOf(t) \subseteq edges
         /\ ~overlap => /\ nodes = NodesOf(t, os)
                        /\ edges = CodeEdgesOf(t) \cup ObsEdgesOf(t, os)

(* A chain of d imports from one file to another, and the shortest one.    *)
Files == {"file"} \X File

Chain(x, y, d) ==
  \E p \in [1 .. d - 1 -> Files] :
    \A i \in 1 .. d : << IF i = 1 THEN x ELSE p[i - 1],
                       IF i = d THEN y ELSE p[i], "imports" >> \in edges

Shortest(x, y, d) == x # y /\ Chain(x, y, d) /\ \A k \in 1 .. d - 1 : ~Chain(x, y, k)

ReachesTo(cap) ==
  \A f \in Files :
    /\ Impact(f, cap) = {row \in Files \X (1 .. cap) : Shortest(row[1], f, row[2])}
    /\ {row \in Dependencies(f, cap) : row[1] \in Files}
         = {row \in Files \X (1 .. cap) : Shortest(f, row[1], row[2])}

(* "What breaks if X changes" is every file from which a chain of imports  *)
(* leads to X, at the length of the shortest one, cycles or not, up to the *)
(* depth asked for; the dependencies are the same, backwards.  Looked at   *)
(* when no index is under way, also after one died (graph.py:149-174).     *)
ImpactIsReach ==
  (\A r \in Run : run[r].phase = "idle") => \A cap \in 1 .. 2 : ReachesTo(cap)
=============================================================================
