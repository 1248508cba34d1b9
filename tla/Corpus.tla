------------------------------- MODULE Corpus -------------------------------
(***************************************************************************)
(* The normalized corpus (src/mybench/normalizer): what the Claude and the *)
(* Codex adapter share, and what validate_corpus_artifact, which the store *)
(* and the consumers call, asks of the artifact either of them returned.   *)
(*                                                                         *)
(* A corpus here is that of one session: the events of all of its records  *)
(* and the coverage counts.  A record has a position 1..n among the        *)
(* admitted ones.  An event is a record                                    *)
(*   at         <<record, subevent>>                                       *)
(*   kind       its event_kind                                             *)
(*   pointer    the block it points into, as <<record, block>>, or None    *)
(*   parent     the record its record answers, or None                     *)
(*   relation   <<"linked", at>>, <<"ambiguous", None>>, ... or None       *)
(*   status     result_status of a result, outcome of a forge action       *)
(*   generation context_generation_id, or None                             *)
(* Texts, names, shapes and timestamps are left out.                       *)
(***************************************************************************)
EXTENDS Integers, Sequences, FiniteSets

CONSTANT None \* an absent field

CoverageKeys == {"records_parsed", "records_malformed", "records_unsupported",
                 "user_turns_ambiguous", "blocks_seen", "blocks_unsupported",
                 "content_references", "content_unknown"}

NothingCovered == [k \in CoverageKeys |-> 0]

Count(coverage, keys) ==
    [k \in CoverageKeys |-> IF k \in keys THEN coverage[k] + 1 ELSE coverage[k]]

CountMany(coverage, key, n) == [coverage EXCEPT ![key] = @ + n]

(* What an adapter says of an event before it is given its place. *)
Partial(kind) == [kind |-> kind, pointer |-> None, relation |-> None,
                  status |-> "unknown", generation |-> None]

Pointing(kind, pointer) == [Partial(kind) EXCEPT !.pointer = pointer]

Linked(at) == <<"linked", at>>

(* The relation of a result to the call whose id it names: counts says how *)
(* often the session uses an id, positions where those used once were met. *)
ToolRelation(id, counts, positions) ==
    CASE id = None -> <<"missing", None>>
      [] id # None /\ counts[id] > 1 -> <<"ambiguous", None>>
      [] id # None /\ counts[id] <= 1 /\ positions[id] = None ->
             <<"dangling", None>>
      [] OTHER -> Linked(positions[id])

(* The events of one call, the first of which stands at `at`: the call and *)
(* what is derived from its input, for which a pointer is needed.          *)
CallPartials(call, pointer, at) ==
    LET derived(name) == name \in call.derives /\ pointer # None
    IN  <<Pointing("tool-call", pointer)>>
        \o (IF derived("forge")
              THEN <<[Pointing("forge-action", pointer)
                        EXCEPT !.relation = Linked(at)]>>
              ELSE <<>>)
        \o (IF derived("reference") THEN <<Pointing("reference", pointer)>>
                                    ELSE <<>>)
        \o (IF derived("test") THEN <<Pointing("test", pointer)>> ELSE <<>>)

(* Of partials or of events, how many point to something. *)
References(partials) ==
    Cardinality({n \in DOMAIN partials : partials[n].pointer # None})

(* The events of record r in order: the n-th partial is subevent n. *)
EventsOf(r, parent, partials) ==
    [n \in 1 .. Len(partials) |->
        [at |-> <<r, n>>, parent |-> parent, kind |-> partials[n].kind,
         pointer |-> partials[n].pointer, relation |-> partials[n].relation,
         status |-> partials[n].status, generation |-> partials[n].generation]]

ResultsFor(events, at) ==
    {i \in DOMAIN events : /\ events[i].kind = "tool-result"
                           /\ events[i].relation = Linked(at)}

OutcomeFor(events, at) ==
    LET results == ResultsFor(events, at)
    IN  IF Cardinality(results) = 1
          THEN events[CHOOSE i \in results : TRUE].status
          ELSE "unknown"

(* A forge action's outcome is the status of the one result of its call. *)
JoinForgeOutcomes(events) ==
    [i \in DOMAIN events |->
        IF events[i].kind = "forge-action"
          THEN [events[i] EXCEPT !.status =
                    OutcomeFor(events, events[i].relation[2])]
          ELSE events[i]]

-----------------------------------------------------------------------------
(* The validator. corpus = [events, coverage, admitted]. *)

Precedes(a, b) == \/ a[1] < b[1]
                  \/ a[1] = b[1] /\ a[2] < b[2]

KindsValid(corpus) ==
    \A i \in DOMAIN corpus.events :
        LET e == corpus.events[i]
        IN  /\ e.pointer # None =>
                 e.kind \in {"turn", "tool-call", "reference", "test",
                             "forge-action"}
            /\ e.kind \in {"reference", "forge-action"} => e.pointer # None
            /\ e.relation # None <=> e.kind \in {"tool-result", "forge-action"}
            /\ e.generation # None => e.kind = "context-boundary"

ParseCounted(corpus) ==
    corpus.coverage["records_parsed"] + corpus.coverage["records_malformed"]
      + corpus.coverage["records_unsupported"] = corpus.admitted

ReferencesCounted(corpus) ==
    corpus.coverage["content_references"] = References(corpus.events)

ParentsPrecede(corpus) ==
    \A i \in DOMAIN corpus.events :
        LET e == corpus.events[i]
        IN  /\ e.at[1] <= corpus.admitted
            /\ e.parent # None => e.parent < e.at[1]

SameRecordAgrees(corpus) ==
    \A i, j \in DOMAIN corpus.events :
        LET e == corpus.events[i]
            f == corpus.events[j]
        IN  e.at[1] = f.at[1] =>
              /\ e.parent = f.parent
              /\ e.pointer # None /\ f.pointer # None =>
                   e.pointer[1] = f.pointer[1]

SubeventsContiguous(corpus) ==
    \A i \in DOMAIN corpus.events :
        corpus.events[i].at[2] =
            Cardinality({j \in 1 .. i :
                           corpus.events[j].at[1] = corpus.events[i].at[1]})

GenerationsIncrease(corpus) ==
    \A i, j \in {n \in DOMAIN corpus.events :
                    corpus.events[n].generation # None} :
        i < j => corpus.events[i].generation < corpus.events[j].generation

IsCallBefore(corpus, e, at) ==
    \E i \in DOMAIN corpus.events :
        /\ corpus.events[i].at = at
        /\ corpus.events[i].kind = "tool-call"
        /\ Precedes(at, e.at)

ResultsAnswerCalls(corpus) ==
    \A i \in DOMAIN corpus.events :
        LET e == corpus.events[i]
        IN  e.kind = "tool-result" /\ e.relation[1] = "linked" =>
                IsCallBefore(corpus, e, e.relation[2])

ForgeBound(corpus) ==
    LET forge == {i \in DOMAIN corpus.events :
                      corpus.events[i].kind = "forge-action"}
    IN  /\ \A i \in forge :
             LET e == corpus.events[i]
             IN  /\ e.relation[1] = "linked"
                 /\ IsCallBefore(corpus, e, e.relation[2])
                 /\ \A j \in DOMAIN corpus.events :
                      corpus.events[j].at = e.relation[2] =>
                        corpus.events[j].pointer = e.pointer
                 /\ e.status = OutcomeFor(corpus.events, e.relation[2])
        /\ \A i, j \in forge :
             corpus.events[i].relation = corpus.events[j].relation => i = j

(* Events that stand for a block each, and those whose content is unknown. *)
PrimaryEvents(events) ==
    Cardinality({n \in DOMAIN events :
                   events[n].kind \in {"turn", "pasted-span", "tool-call",
                                       "tool-result"}})

UnknownContent(events) ==
    Cardinality({n \in DOMAIN events :
                   \/ events[n].kind \in {"pasted-span", "tool-result"}
                   \/ events[n].kind = "turn" /\ events[n].pointer = None})

BlocksCounted(corpus) ==
    LET c == corpus.coverage
    IN  /\ c["records_parsed"] >=
             Cardinality({corpus.events[i].at[1] : i \in DOMAIN corpus.events})
        /\ PrimaryEvents(corpus.events) <= c["blocks_seen"]
        /\ c["blocks_unsupported"] <= c["blocks_seen"]
        /\ UnknownContent(corpus.events) <= c["content_unknown"]
        /\ c["content_unknown"] <= c["blocks_seen"]
        /\ c["user_turns_ambiguous"] <= c["content_unknown"]

InOrder(corpus) ==
    \A i, j \in DOMAIN corpus.events :
        i < j => Precedes(corpus.events[i].at, corpus.events[j].at)

Accepted(corpus) ==
    /\ KindsValid(corpus)
    /\ ParseCounted(corpus)
    /\ ReferencesCounted(corpus)
    /\ ParentsPrecede(corpus)
    /\ SameRecordAgrees(corpus)
    /\ SubeventsContiguous(corpus)
    /\ GenerationsIncrease(corpus)
    /\ ResultsAnswerCalls(corpus)
    /\ ForgeBound(corpus)
    /\ BlocksCounted(corpus)
    /\ InOrder(corpus)
=============================================================================
