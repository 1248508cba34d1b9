------------------------------- MODULE Evidence --------------------------------
(***************************************************************************)
(* From what was captured to evidence.  The normalizer and its neighbours  *)
(* (src/mybench/normalizer, commitment_tree.py, scorer/agent_hours.py) are *)
(* pure functions, in modules of their own; what grows and changes is      *)
(* their input.  A behaviour of this module is about one stream of input:  *)
(*   "claude", "codex"   the records of a session are read one by one      *)
(*   "sessions"          sessions are admitted, in the order of their ids  *)
(*   "rows"              the ledger gains the lifecycle rows of a session  *)
(*   "times"             the dated records of a session, after its hooks   *)
(*   "leaves"            leaves under a commitment                         *)
(*   "repo"              an enrolled repository and those who work in it;  *)
(*                       snapshots are captured of it at any moment        *)
(* The invariants say of each function what it promises of any such input. *)
(***************************************************************************)
EXTENDS Integers, Sequences, FiniteSets

CONSTANTS None,
          ClaudeLine, CodexLine,      \* the records that a transcript may have
          SessionShape,               \* sessions, whose id is still to be set
          LedgerRow, DatedRecord,
          SessionId, IdleGap, AdjacencySeconds,
          ClassOf, Entry,             \* paths with their classes; blobs with their modes
          MaxRecords, MaxRows, MaxDated, MaxLeaves, MaxCommits

(* A block of a record, or an event of it. *)
Place == Nat \X Nat

(* What is read of a transcript: whose record it is, the blocks of its text *)
(* in order, and a generation that is a number where there is one.         *)
LineForm(line) ==
    /\ line.attribution \in {"subject", "unknown"}
    /\ line.content \in Seq({line.content[b] : b \in DOMAIN line.content})
    /\ line.generation \in Int \cup {None}

ASSUME EvidenceAssumption == /\ None \notin Int
                             /\ None \notin [{ClassOf[p] : p \in DOMAIN ClassOf} -> Nat]
                             /\ IsFiniteSet(DOMAIN ClassOf)
                             /\ IdleGap \in Nat \ {0}
                             /\ AdjacencySeconds \in Nat
                             /\ SessionId \subseteq Nat
                             /\ \A ids \in SUBSET SessionId : ids # None
                             /\ None \notin {"plain", "paste", "input"}
                             /\ None \notin Place
                             /\ None \notin {"linked"} \X Place
                             /\ \A why \in {"missing", "ambiguous", "dangling"} :
                                  None # <<why, None>>
                             /\ \A line \in ClaudeLine :
                                  /\ LineForm(line)
                                  /\ line.metadata \in Seq({"model", "token-usage"})
                             /\ \A line \in CodexLine : LineForm(line)
                             /\ \A shape \in SessionShape :
                                  /\ {"id", "start", "end"} \subseteq DOMAIN shape
                                  /\ shape.start \in Int \cup {None}
                                  /\ shape.end \in Int \cup {None}
                             /\ DatedRecord \subseteq
                                  [attribution : {"subject", "unknown"},
                                   marker : {"open", "close", "plain", "malformed"},
                                   at : Int \cup {None}]

VARIABLES stream,
          input,     \* of every stream but "repo"
          repo,
          captured   \* the pointers of the last snapshot

vars == <<stream, input, repo, captured>>

Corp     == INSTANCE Corpus
Claude   == INSTANCE ClaudeTranscript
Codex    == INSTANCE CodexTranscript
Stitch   == INSTANCE Episodes
Clock    == INSTANCE SessionTiming
Tree     == INSTANCE CommitmentTree
Git      == INSTANCE RepoEvidence

-----------------------------------------------------------------------------
Streams == {"claude", "codex", "sessions", "rows", "times", "leaves", "repo"}

Hooked == {[source |-> "claude", started |-> s, ended |-> e, records |-> <<>>] :
             s \in {None, 1, 2}, e \in {None, 2, 3}}
          \cup {[source |-> "codex", started |-> None, ended |-> None,
                 records |-> <<>>]}

NoTree == [p \in DOMAIN ClassOf |-> None]

EmptyRepo == [commits |-> <<>>, present |-> {}, branches |-> {}, head |-> 0,
              reflog |-> {}, enrolled |-> None]

Empty(s) == CASE s = "sessions" -> {{}}
              [] s = "times" -> Hooked
              [] OTHER -> {<<>>}

Init ==
    /\ stream \in Streams
    /\ input \in Empty(stream)
    /\ repo = EmptyRepo
    /\ captured = {}

Read(s, bound, items) ==
    /\ stream = s
    /\ Len(input) < bound
    /\ \E item \in items : input' = Append(input, item)
    /\ UNCHANGED <<stream, repo, captured>>

ReadClaude == Read("claude", MaxRecords, ClaudeLine)
ReadCodex  == Read("codex", MaxRecords, CodexLine)
AppendRow  == Read("rows", MaxRows, LedgerRow)
AddLeaf    == Read("leaves", MaxLeaves,
                   {Tree!LeafCommitment(n) : n \in {1, 2}})

AdmitSession ==
    /\ stream = "sessions"
    /\ \E id \in SessionId, shape \in SessionShape :
         /\ \A s \in input : s.id < id
         /\ shape.parent # id
         /\ input' = input \cup {[shape EXCEPT !.id = id]}
    /\ UNCHANGED <<stream, repo, captured>>

ReadDated ==
    /\ stream = "times"
    /\ Len(input.records) < MaxDated
    /\ \E record \in DatedRecord :
         input' = [input EXCEPT !.records = Append(@, record)]
    /\ UNCHANGED <<stream, repo, captured>>

-----------------------------------------------------------------------------
(* Git, and the people who use it. *)

TreeOf(c) == IF c = 0 THEN NoTree ELSE repo.commits[c].tree

(* A new commit on the branch of the head; keep says that the branch was   *)
(* forked first.                                                           *)
Commits(parents, author, tree, keep) ==
    LET c == Len(repo.commits) + 1
    IN  repo' = [repo EXCEPT
                   !.commits  = Append(@, [parents |-> parents,
                                           author  |-> author,
                                           tree    |-> tree]),
                   !.present  = @ \cup {c},
                   !.branches = (IF keep THEN @ ELSE @ \ {repo.head}) \cup {c},
                   !.head     = c,
                   !.reflog   = @ \cup {c}]

Working == /\ stream = "repo"
           /\ UNCHANGED <<stream, input>>

Commit ==
    /\ Working
    /\ Len(repo.commits) < MaxCommits
    /\ \E author \in {"subject", "other"}, keep \in BOOLEAN,
          p \in DOMAIN ClassOf, e \in Entry \cup {None} :
         /\ TreeOf(repo.head)[p] # e
         /\ keep => repo.head # 0
         /\ Commits(IF repo.head = 0 THEN <<>> ELSE <<repo.head>>, author,
                    [TreeOf(repo.head) EXCEPT ![p] = e], keep)
    /\ UNCHANGED captured

(* Either side's content at each path. *)
Merge ==
    /\ Working
    /\ Len(repo.commits) < MaxCommits
    /\ \E author \in {"subject", "other"}, other \in repo.branches \ {repo.head},
          theirs \in SUBSET DOMAIN ClassOf :
         Commits(<<repo.head, other>>, author,
                 [p \in DOMAIN ClassOf |-> IF p \in theirs THEN TreeOf(other)[p]
                                           ELSE TreeOf(repo.head)[p]],
                 FALSE)
    /\ UNCHANGED captured

Switch ==
    /\ Working
    /\ \E c \in repo.branches \ {repo.head} : repo' = [repo EXCEPT !.head = c]
    /\ UNCHANGED captured

(* Back to the first parent: the commit is only in the reflog now. *)
Reset ==
    /\ Working
    /\ repo.head # 0
    /\ Git!ParentsOf(repo, repo.head) # <<>>
    /\ LET parent == Git!ParentsOf(repo, repo.head)[1]
       IN  repo' = [repo EXCEPT !.branches = (@ \ {repo.head}) \cup {parent},
                                !.head = parent]
    /\ UNCHANGED captured

(* The reflog expires and what nothing names any more is deleted. *)
Prune ==
    /\ Working
    /\ LET rest == [repo EXCEPT !.reflog = {}]
       IN  /\ repo.reflog # {}
           /\ repo' = [rest EXCEPT !.present = Git!Candidates(rest)]
    /\ UNCHANGED captured

(* enroll: the present head, if there is one, is where history begins. *)
Enroll ==
    /\ Working
    /\ repo.enrolled = None
    /\ repo' = [repo EXCEPT !.enrolled = repo.head]
    /\ UNCHANGED captured

Capture ==
    /\ Working
    /\ Git!CaptureEnrolled(repo) # None
    /\ captured' = Git!Pointers(Git!CaptureEnrolled(repo))
    /\ captured' # captured
    /\ UNCHANGED repo

Next == \/ ReadClaude \/ ReadCodex \/ AppendRow \/ AddLeaf
        \/ AdmitSession \/ ReadDated
        \/ Commit \/ Merge \/ Switch \/ Reset \/ Prune \/ Enroll \/ Capture

Spec == Init /\ [][Next]_vars

-----------------------------------------------------------------------------
(* The adapters never make a corpus that the validator refuses, which      *)
(* would leave the owner with none: whatever order calls, results and forge*)
(* actions come in, however ids, parents and generations repeat, and       *)
(* whoever wrote the records (validate_corpus_artifact, which the store    *)
(* and the consumers of a corpus call: normalize_claude and normalize_codex*)
(* return the bytes as they are).                                          *)
CorpusAccepted ==
    /\ stream = "claude" =>
         Corp!Accepted(Claude!NormalizeClaude(input))
    /\ stream = "codex" =>
         Corp!Accepted(Codex!NormalizeCodex(input))

(* Every pointer an adapter emits is one its resolver follows, to a text   *)
(* or an input that is not empty (_pointer_value, resolve_content_pointer).*)
PointersResolve ==
    /\ stream = "claude" =>
         LET corpus == Claude!NormalizeClaude(input)
         IN  \A i \in DOMAIN corpus.events :
               corpus.events[i].pointer # None =>
                 Claude!ClaudeTarget(input, corpus.events[i])
                   \notin {None, "empty"}
    /\ stream = "codex" =>
         LET corpus == Codex!NormalizeCodex(input)
         IN  \A i \in DOMAIN corpus.events :
               corpus.events[i].pointer # None =>
                 Codex!CodexTarget(input, corpus.events[i])
                   \notin {None, "empty"}

(* Sessions are stitched into episodes that the validator, which sees only *)
(* the manifest, stitches in the same way; an inferred link never closes a *)
(* cycle with the recorded ones; and an episode is exactly what is linked  *)
(* (_episode_map, _validate_identity_semantics).                           *)
EpisodesStitched ==
    stream = "sessions" =>
      LET artifact == Stitch!Normalize(input)
      IN  artifact # None => /\ Stitch!ManifestAccepted(artifact)
                             /\ Stitch!EpisodesAreComponents(artifact)

(* Time is what the subject's own records and the hooks show: a timing can *)
(* be built, activity is within the session, nobody else's records count,  *)
(* and full coverage is said only of what is fully dated                   *)
(* (normalize_session_timings, score_agent_hours).                         *)
TimesHonest ==
    stream = "times" => /\ Clock!TimingHonest(input)
                        /\ Clock!CompleteIsEarned(input)

(* A commitment binds its leaves, their order and their number, and only   *)
(* what is there has a proof (merkle_root, inclusion_proof, verify_-       *)
(* session_inclusion).                                                     *)
CommitmentBinds ==
    stream = "leaves" /\ input # <<>> =>
      /\ Tree!ProofsAreSound(input, {Tree!MerkleRoot(input)})
      /\ Tree!RootBinds(input)

(* At any moment a capture of an enrolled repository is one the normalizer *)
(* takes and its validator accepts; every blob in it is one that its       *)
(* subject's commit brought in, or another's whose mode alone it changed;  *)
(* and what was captured is found or missing later on, never refused       *)
(* (capture_enrolled_repo, _diff_changes, resolve_repo_pointer).           *)
RepoEvidenceHolds ==
    stream = "repo" =>
      /\ LET snapshot == Git!CaptureEnrolled(repo)
         IN  snapshot # None =>
               /\ Git!SnapshotChecked(snapshot)
               /\ Git!RepoAccepted(Git!NormalizeRepo(snapshot))
      /\ \A pointer \in captured :
           /\ repo.commits[pointer[1]].author = "subject"
           /\ pointer[2] # None =>
                pointer[2] \in Git!Introduced(repo, pointer[1])
                                 \cup Git!Remoded(repo, pointer[1])
           /\ Git!ResolveRepoPointer(repo, pointer) # "refused"

(* docs/episode-outcome-closure.md: boundaries in reversed order, like any *)
(* others that are of no use, make the outcome unknown.                    *)
ReversedIsUnknown ==
    stream = "rows" /\ input # <<>> =>
      Stitch!Normalize({Stitch!Observation(input, 1)}) # None
=============================================================================
