------------------------------ MODULE Episodes ------------------------------
(***************************************************************************)
(* How the normalizer stitches sessions into task episodes, and what the   *)
(* validator derives again from the manifest                               *)
(* (src/mybench/normalizer/claude.py: _check_input_sessions, _episode_map, *)
(* _episode_root, _git_closure_evidence, _validate_identity_semantics).    *)
(*                                                                         *)
(* A session is a record                                                   *)
(*   id            a natural number, ordered as the opaque ids are         *)
(*   parent        the id its parent_session_id names, or None; a session  *)
(*                 of that id may be in the input or not                   *)
(*   start, end    when it began and ended, or None                        *)
(*   repo, before, after    the repository and its heads, or all None      *)
(*   bound         the commits bound to repo within its ledger rows, or    *)
(*                 None for a session that has no row range                *)
(*   earliest      the first date of its events, or None                   *)
(* The input is a set of such sessions, one for each id.                   *)
(***************************************************************************)
EXTENDS Naturals, FiniteSets, FiniteSetsExt

CONSTANTS None,              \* an absent field
          AdjacencySeconds   \* EPISODE_ADJACENCY_SECONDS

(* What _check_input_sessions refuses of the fields that are kept here. *)
Admissible(sessions) ==
    \A s \in sessions :
        /\ s.parent # s.id
        /\ s.start # None /\ s.end # None => s.start <= s.end
        /\ s.bound # None => s.repo # None
        /\ \A t \in sessions : s.id = t.id => s = t

Ids(sessions) == {s.id : s \in sessions}

(* An edge is <<child, predecessor>>. *)
RecordedParents(sessions) ==
    {<<s.id, s.parent>> : s \in {t \in sessions : t.parent \in Ids(sessions)}}

Unresolved(sessions) ==
    Cardinality({s \in sessions : /\ s.parent # None
                                  /\ s.parent \notin Ids(sessions)})

(* The sessions met when edges are followed from start, start included. *)
Reached(edges, start) ==
    LET within[n \in 0 .. Cardinality(edges)] ==
          IF n = 0 THEN {start}
          ELSE within[n - 1]
                 \cup {e[2] : e \in {f \in edges : f[1] \in within[n - 1]}}
    IN  within[Cardinality(edges)]

Cyclic(edges) == \E e \in edges : e[1] \in Reached(edges, e[2])

-----------------------------------------------------------------------------
(* Links inferred from repository, heads and times. *)

Temporal(sessions) ==
    {s \in sessions : None \notin {s.repo, s.start, s.end}}

Before(s, t) ==
    \/ s.start < t.start
    \/ s.start = t.start /\ s.end < t.end
    \/ s.start = t.start /\ s.end = t.end /\ s.id < t.id

Continues(later, earlier) ==
    /\ Before(earlier, later)
    /\ earlier.repo = later.repo
    /\ earlier.after = later.before
    /\ earlier.end <= later.start
    /\ later.start - earlier.end <= AdjacencySeconds

Latest(S) == CHOOSE s \in S : \A t \in S \ {s} : Before(t, s)

(* Mutant: what the edges so far say is not asked. *)
InferAnyLink(acc, later, sessions) ==
    LET candidates == {s \in Temporal(sessions) : Continues(later, s)}
        edge == <<later.id, Latest(candidates).id>>
    IN  IF candidates = {}
          THEN acc
          ELSE [edges    |-> acc.edges \cup {edge},
                inferred |-> IF edge \in RecordedParents(sessions)
                               THEN acc.inferred
                               ELSE acc.inferred \cup {edge}]

(* One session looks for its predecessor: the latest that it continues and *)
(* that does not, by the edges so far, come after it.                      *)
InferLink(acc, later, sessions) ==
    LET candidates == {s \in Temporal(sessions) : /\ Continues(later, s)
                        /\ later.id \notin Reached(acc.edges, s.id)}
        edge == <<later.id, Latest(candidates).id>>
    IN  IF candidates = {}
          THEN acc
          ELSE [edges    |-> acc.edges \cup {edge},
                inferred |-> IF edge \in RecordedParents(sessions)
                               THEN acc.inferred
                               ELSE acc.inferred \cup {edge}]

(* The sessions look one after the other: the latest adds its link to      *)
(* those of the ones before it.                                            *)
InferredLinks(sessions) ==
    MapThenFoldSet(LAMBDA later, acc : InferLink(acc, later, sessions),
                   [edges |-> RecordedParents(sessions), inferred |-> {}],
                   LAMBDA s : s, Latest, Temporal(sessions)).inferred

-----------------------------------------------------------------------------
(* Union-find: root maps each session to the root of its tree. *)

Union(root, edge) ==
    LET a == root[edge[1]]
        b == root[edge[2]]
        first == IF a < b THEN a ELSE b
    IN  [k \in DOMAIN root |-> IF root[k] \in {a, b} THEN first ELSE root[k]]

Roots(ids, edges) ==
    FoldSet(LAMBDA edge, root : Union(root, edge), [k \in ids |-> k], edges)

(* The episode of each session: an id is a hash of the members, so here it *)
(* is the set of them.  A lone session has none.                           *)
EpisodeMap(ids, edges) ==
    LET root == Roots(ids, edges)
        members(k) == {l \in ids : root[l] = root[k]}
    IN  [k \in ids |-> IF Cardinality(members(k)) < 2 THEN None
                                                      ELSE members(k)]

(* bound-commit: the head moved to a commit that was bound meanwhile. *)
GitClosureEvidence(s) ==
    CASE s.bound = None -> "unknown"
      [] s.bound # None /\ s.before # s.after /\ s.after \in s.bound ->
           "bound-commit"
      [] s.bound # None /\ s.before = s.after /\ s.bound = {} ->
           "ended-without-head-change"
      [] OTHER -> "unknown"

-----------------------------------------------------------------------------
(* The manifest: for each session what the artifact says of it. *)

Predecessor(inferred, id) ==
    LET found == {e[2] : e \in {f \in inferred : f[1] = id}}
    IN  IF found = {} THEN None ELSE CHOOSE p \in found : TRUE

ManifestSessions(sessions) ==
    LET inferred == InferredLinks(sessions)
        episodes == EpisodeMap(Ids(sessions),
                               RecordedParents(sessions) \cup inferred)
    IN  {[id          |-> s.id,
          parent      |-> s.parent,
          predecessor |-> Predecessor(inferred, s.id),
          episode     |-> episodes[s.id],
          started     |-> s.start,
          earliest    |-> s.earliest,
          closure     |-> GitClosureEvidence(s)] : s \in sessions}

(* The one member that no other member precedes, if there is exactly one. *)
EpisodeRoot(manifest, episode) ==
    LET members == {m \in manifest : m.episode = episode}
        first   == {m \in members : {m.parent, m.predecessor} \cap Ids(members)
                                      = {}}
    IN  IF Cardinality(first) = 1 THEN CHOOSE m \in first : TRUE ELSE None

EpisodeOpenedAt(manifest, episode) ==
    LET root == EpisodeRoot(manifest, episode)
    IN  CASE root = None -> None
          [] root # None /\ root.started # None -> root.started
          [] OTHER -> root.earliest

EpisodeOutcome(manifest, episode) ==
    LET evidence == {m.closure : m \in {n \in manifest : n.episode = episode}}
    IN  CASE "bound-commit" \in evidence -> "closed-with-bound-commit"
          [] evidence = {"ended-without-head-change"} -> "abandoned"
          [] OTHER -> "unknown"

EpisodeOutputs(manifest) ==
    {[id      |-> e,
      opened  |-> EpisodeOpenedAt(manifest, e),
      outcome |-> EpisodeOutcome(manifest, e)] :
        e \in {m.episode : m \in manifest} \ {None}}

(* None when the input is refused or the lineage has a cycle: there is no  *)
(* artifact then, of any of the sessions.                                  *)
Normalize(sessions) ==
    IF ~Admissible(sessions) \/ Cyclic(RecordedParents(sessions))
      THEN None
      ELSE LET manifest == ManifestSessions(sessions)
           IN  [sessions   |-> manifest,
                episodes   |-> EpisodeOutputs(manifest),
                unresolved |-> Unresolved(sessions)]

-----------------------------------------------------------------------------
(* The validator, which has the manifest and not the sessions. *)

ManifestEdges(manifest) ==
    {<<m.id, m.parent>> : m \in {n \in manifest : n.parent \in Ids(manifest)}}
      \cup {<<m.id, m.predecessor>> :
              m \in {n \in manifest : n.predecessor # None}}

LineageResolved(manifest) ==
    \A m \in manifest :
        /\ m.parent # m.id
        /\ m.predecessor # None => /\ m.predecessor # m.id
                                   /\ m.predecessor \in Ids(manifest)

ManifestAccepted(artifact) ==
    /\ LineageResolved(artifact.sessions)
    /\ ~Cyclic(ManifestEdges(artifact.sessions))
    /\ \A m \in artifact.sessions :
         m.episode = EpisodeMap(Ids(artifact.sessions),
                                ManifestEdges(artifact.sessions))[m.id]
    /\ artifact.episodes = EpisodeOutputs(artifact.sessions)
    /\ artifact.unresolved =
         Cardinality({m \in artifact.sessions :
                        /\ m.parent # None
                        /\ m.parent \notin Ids(artifact.sessions)})

-----------------------------------------------------------------------------
(* Reference: what an episode is, said without the algorithm. *)

Linked(artifact, a, b) == <<a, b>> \in ManifestEdges(artifact.sessions)
                          \/ <<b, a>> \in ManifestEdges(artifact.sessions)

(* Two sessions are of one episode when no way of parting the sessions in  *)
(* two without cutting a link parts them.                                  *)
Together(artifact, a, b) ==
    \A part \in SUBSET Ids(artifact.sessions) :
        a \in part /\ b \notin part =>
            \E x \in part, y \in Ids(artifact.sessions) \ part :
                Linked(artifact, x, y)

EpisodesAreComponents(artifact) ==
    \A m, n \in artifact.sessions :
        m # n => ( Together(artifact, m.id, n.id)
                     <=> m.episode # None /\ m.episode = n.episode )
-----------------------------------------------------------------------------
(* The loader (loader.py): from the ledger's rows of one session to what   *)
(* is known of its boundaries.  A row has a type, "start", "end" or        *)
(* "binding", a repository (None when the hook found none) and a head.     *)
(* A row has the time its hook saw, and rows come in that order: here its  *)
(* position is its time.                                                   *)

OfType(rows, type) == {i \in DOMAIN rows : rows[i].type = type}

Earliest(I) == IF I = {} THEN None ELSE CHOOSE i \in I : \A j \in I : i <= j
Newest(I) == IF I = {} THEN None ELSE CHOOSE i \in I : \A j \in I : j <= i

Observation(rows, id) ==
    LET starts == OfType(rows, "start")
        ends   == OfType(rows, "end")
        start  == Earliest(starts)
        end    == Newest(ends)
        window == /\ Cardinality(starts) = 1
                  /\ Cardinality(ends) = 1
                  /\ start < end
                  /\ rows[start].repo # None
                  /\ rows[start].repo = rows[end].repo
        within == {i \in OfType(rows, "binding") :
                     start < i /\ i < end /\ rows[i].repo = rows[start].repo}
    IN  [id       |-> id,
         parent   |-> None,
         start    |-> start,
         end      |-> end,
         repo     |-> IF window THEN rows[start].repo ELSE None,
         before   |-> IF window THEN rows[start].head ELSE None,
         after    |-> IF window THEN rows[end].head ELSE None,
         bound    |-> IF window THEN {rows[i].head : i \in within} ELSE None,
         earliest |-> None]
=============================================================================
