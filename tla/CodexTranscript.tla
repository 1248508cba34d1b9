--------------------------- MODULE CodexTranscript ---------------------------
(***************************************************************************)
(* The Codex adapter (src/mybench/normalizer/codex.py): from the admitted  *)
(* records of one session to its normalized corpus.                        *)
(*                                                                         *)
(* A record of the rollout is                                              *)
(*   attribution "subject" or "unknown"                                    *)
(*   type        "message", "call", "output", "compacted", "settings",     *)
(*               "session_meta", "token_count", "silent" (read, but with   *)
(*               no event), "other", or "malformed" (not JSON)             *)
(*   role        of a message: "user" or "assistant"                       *)
(*   content     of a message: its blocks, with type "input_text",         *)
(*               "output_text" or "other" and text as in ClaudeTranscript  *)
(*   text        of an output or a compaction: whether it is a string      *)
(*   id, input, derives, status      of a call or an output                *)
(*   model       of settings: the model they name, or None                 *)
(*   provider    of settings and session_meta: whether they name one       *)
(*   generation  the context generation of a compaction, or None           *)
(***************************************************************************)
EXTENDS Corpus

Subjects(records) == {r \in DOMAIN records :
                        records[r].attribution = "subject"}

CallIds(records) == {records[r].id : r \in DOMAIN records} \ {None}

CallIdCounts(records) ==
    [id \in CallIds(records) |->
        Cardinality({r \in Subjects(records) : /\ records[r].type = "call"
                                               /\ records[r].id = id})]

(* A record answers the one before it, whatever became of that one. *)
PriorRecord(r) == IF r = 1 THEN None ELSE r - 1

-----------------------------------------------------------------------------
(* What one record comes to: its partial events, or None, and coverage. *)

Nothing(coverage) == [partials |-> <<>>, coverage |-> coverage]

Put(acc, partial, keys) ==
    [partials |-> Append(acc.partials, partial),
     coverage |-> Count(acc.coverage, keys)]

Cover(acc, keys) == [acc EXCEPT !.coverage = Count(@, keys)]

MessageBlock(acc, r, record, b) ==
    LET block    == record.content[b]
        expected == IF record.role = "user" THEN "input_text"
                                            ELSE "output_text"
    IN  CASE block.type # expected \/ block.text = None ->
               Cover(acc, {"blocks_seen", "blocks_unsupported"})
          [] block.type = expected /\ record.role = "user"
               /\ block.text = "paste" ->
               Put(acc, Partial("pasted-span"), {"blocks_seen",
                                                 "content_unknown"})
          [] block.type = expected /\ record.role = "assistant"
               /\ block.text \in {"plain", "paste"} ->
               Put(acc, Pointing("turn", <<r, b>>), {"blocks_seen",
                                                     "content_references"})
          [] OTHER -> Put(acc, Partial("turn"), {"blocks_seen",
                                                 "content_unknown"})

MessagePartials(coverage, r, record) ==
    LET after[b \in 0 .. Len(record.content)] ==
            IF b = 0 THEN Nothing(coverage)
            ELSE MessageBlock(after[b - 1], r, record, b)
    IN  after[Len(record.content)]

CodexCall(coverage, r, record) ==
    LET calls == CallPartials(record, IF record.input THEN <<r, 1>> ELSE None,
                              <<r, 1>>)
    IN  [partials |-> calls,
         coverage |-> CountMany(Count(coverage, {"blocks_seen"}),
                                "content_references", References(calls))]

OutputPartials(coverage, record, counts, positions) ==
    Put(Nothing(coverage),
        [Partial("tool-result") EXCEPT
           !.relation = ToolRelation(record.id, counts, positions),
           !.status   = record.status],
        {"blocks_seen", "content_unknown"})

CompactionPartials(acc, record) ==
    LET event == [Partial("context-boundary") EXCEPT
                    !.generation = IF /\ record.generation # None
                                      /\ record.generation > acc.generation
                                     THEN record.generation
                                     ELSE None]
    IN  Put(Nothing(acc.coverage), event,
            IF record.text THEN {"blocks_seen", "content_unknown"} ELSE {})

(* The start of a session, its model, and whether that is another one. *)
MetadataPartials(acc, record) ==
    [partials |->
       (IF record.type = "session_meta" THEN <<Partial("session_start")>>
                                        ELSE <<>>)
       \o (IF record.model # None \/ record.provider THEN <<Partial("model")>>
                                                     ELSE <<>>)
       \o (IF record.model # None /\ acc.model # None
              /\ record.model # acc.model
             THEN <<Partial("model-change")>> ELSE <<>>),
     coverage |-> acc.coverage]

UnknownBlock(acc, record, b) ==
    IF record.content[b].type = "other" \/ record.content[b].text = None
      THEN Cover(acc, {"blocks_seen", "blocks_unsupported"})
      ELSE Put(acc, Partial("pasted-span"), {"blocks_seen", "content_unknown"})

UnknownMessage(coverage, record) ==
    LET after[b \in 0 .. Len(record.content)] ==
            IF b = 0 THEN Nothing(coverage)
            ELSE UnknownBlock(after[b - 1], record, b)
    IN  after[Len(record.content)]

UnknownPartials(coverage, record) ==
    CASE record.type = "message" -> UnknownMessage(coverage, record)
      [] record.type = "output" /\ record.text ->
           Put(Nothing(coverage), Partial("pasted-span"),
               {"blocks_seen", "content_unknown"})
      [] record.type = "output" /\ ~record.text ->
           Cover(Nothing(coverage), {"blocks_seen", "blocks_unsupported"})
      [] OTHER -> Nothing(coverage)

SubjectPartials(acc, r, record, counts) ==
    CASE record.type = "compacted" -> CompactionPartials(acc, record)
      [] record.type \in {"session_meta", "settings"} ->
           MetadataPartials(acc, record)
      [] record.type = "message" -> MessagePartials(acc.coverage, r, record)
      [] record.type = "call" -> CodexCall(acc.coverage, r, record)
      [] record.type = "output" ->
           OutputPartials(acc.coverage, record, counts, acc.positions)
      [] record.type = "token_count" ->
           Put(Nothing(acc.coverage), Partial("token-usage"), {})
      [] OTHER -> Nothing(acc.coverage)

(* A record of a kind the adapter knows is parsed though it has no event;  *)
(* one that may not be the subject's must show something.                  *)
IsParsed(record, taken) ==
    IF record.attribution = "unknown" THEN taken.partials # <<>>
                                      ELSE record.type # "other"

CodexRecord(acc, r, records, counts) ==
    LET record == records[r]
        taken  == IF record.attribution = "unknown"
                    THEN UnknownPartials(acc.coverage, record)
                    ELSE SubjectPartials(acc, r, record, counts)
        parsed == IsParsed(record, taken)
        mine   == record.attribution = "subject"
    IN  IF record.type = "malformed"
          THEN [acc EXCEPT !.coverage = Count(@, {"records_malformed"})]
          ELSE
            [events |-> acc.events
               \o (IF parsed THEN EventsOf(r, PriorRecord(r), taken.partials)
                             ELSE <<>>),
             coverage |-> Count(taken.coverage,
                                {IF parsed THEN "records_parsed"
                                           ELSE "records_unsupported"}),
             positions |->
               IF /\ mine
                  /\ record.type = "call"
                  /\ record.id # None
                  /\ counts[record.id] = 1
                 THEN [acc.positions EXCEPT ![record.id] = <<r, 1>>]
                 ELSE acc.positions,
             model |-> IF /\ mine
                          /\ record.type = "settings"
                          /\ record.model # None
                         THEN record.model
                         ELSE acc.model,
             generation |->
               IF /\ mine
                  /\ record.type = "compacted"
                  /\ record.generation # None
                  /\ record.generation > acc.generation
                 THEN record.generation
                 ELSE acc.generation]

(* What is known after the first n records. *)
NormalizeCodex(records) ==
    LET counts == CallIdCounts(records)
        after[n \in 0 .. Len(records)] ==
            IF n = 0 THEN [events     |-> <<>>,
                           coverage   |-> NothingCovered,
                           positions  |-> [id \in CallIds(records) |-> None],
                           model      |-> None,
                           generation |-> -1]
            ELSE CodexRecord(after[n - 1], n, records, counts)
        all == after[Len(records)]
    IN  [events   |-> JoinForgeOutcomes(all.events),
         coverage |-> all.coverage,
         admitted |-> Len(records)]
-----------------------------------------------------------------------------
(* What the resolver finds when it is given the record an event points to. *)
CodexTarget(records, event) ==
    LET record == records[event.pointer[1]]
        b      == event.pointer[2]
    IN  CASE record.attribution # "subject" -> None
          [] record.attribution = "subject" /\ event.kind = "turn"
               /\ record.type = "message" /\ record.role = "assistant"
               /\ b \in DOMAIN record.content
               /\ record.content[b].type = "output_text" ->
               record.content[b].text
          [] record.attribution = "subject" /\ event.kind # "turn"
               /\ record.type = "call" /\ record.input /\ b = 1 -> "input"
          [] OTHER -> None
=============================================================================
