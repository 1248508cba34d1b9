-------------------------- MODULE ClaudeTranscript --------------------------
(***************************************************************************)
(* The Claude adapter (src/mybench/normalizer/claude.py): from the         *)
(* admitted records of one session to its normalized corpus.               *)
(*                                                                         *)
(* A record of the transcript is                                           *)
(*   attribution "subject" or "unknown"                                    *)
(*   type        "user", "assistant", "compact_boundary", "session_start", *)
(*               "queue-operation", "other", or "malformed" (not JSON)     *)
(*   message     whether its message can be read and has the type's role   *)
(*   session     the sessionId it states, or None                          *)
(*   uuid, parentUuid, isSidechain, generation   or None                   *)
(*   metadata    the model and token-usage events of its message           *)
(*   content     the blocks of its message, each with                      *)
(*                 type     "text", "tool_use", "tool_result", "other"     *)
(*                 text     "plain", "paste", "empty", or None: no string  *)
(*                 id       the call's id, or that of a result's call      *)
(*                 input    whether a call's input can be pointed to       *)
(*                 derives  what a call's input is also evidence of        *)
(*                 status   a result's is_error                            *)
(***************************************************************************)
EXTENDS Corpus

IsMessage(record) == record.type \in {"user", "assistant"}

(* The positions of the records whose fields count as the subject's. *)
SubjectDecoded(records) ==
    {r \in DOMAIN records : /\ records[r].attribution = "subject"
                            /\ records[r].type # "malformed"}

(* TRUE or FALSE when all of the subject's messages say so, None when one  *)
(* does not, or two differ.                                                *)
SidechainMode(records) ==
    LET markers == {records[r].isSidechain :
                      r \in {q \in SubjectDecoded(records) :
                               IsMessage(records[q])}}
    IN  IF Cardinality(markers) = 1 THEN CHOOSE m \in markers : TRUE ELSE None

InconsistentSession(records) ==
    Cardinality({records[r].session : r \in SubjectDecoded(records)} \ {None}) > 1

(* The earlier record that alone carries the parentUuid of record r. *)
ParentLink(records, r) ==
    LET holders == {q \in SubjectDecoded(records) :
                      /\ records[q].uuid # None
                      /\ records[q].uuid = records[r].parentUuid}
    IN  IF Cardinality(holders) = 1 /\ \A q \in holders : q < r
          THEN CHOOSE q \in holders : TRUE
          ELSE None

ToolIds(records) ==
    (UNION {{records[r].content[b].id : b \in DOMAIN records[r].content} :
              r \in DOMAIN records}) \ {None}

ToolIdCounts(records) ==
    LET blocks == UNION {{r} \X DOMAIN records[r].content :
                           r \in {q \in SubjectDecoded(records) :
                                    records[q].type = "assistant"}}
    IN  [id \in ToolIds(records) |->
          Cardinality({p \in blocks :
              /\ records[p[1]].content[p[2]].type = "tool_use"
              /\ records[p[1]].content[p[2]].id = id})]

-----------------------------------------------------------------------------
(* A message under way: partials so far, positions of the calls, coverage. *)

Emit(acc, partial, keys) ==
    [acc EXCEPT !.partials = Append(@, partial),
                !.coverage = Count(@, keys)]

(* Mutant: a text beside a call is pointed to like any other. *)
TextOfAnyMessage(acc, record, side, block, pointer) ==
    CASE block.text \in {"plain", "paste"} /\ record.type = "assistant" ->
           Emit(acc, Pointing("turn", pointer), {"content_references"})
      [] OTHER -> Emit(acc, Partial("turn"), {"content_unknown"})

TakeText(acc, record, side, block, pointer) ==
    LET textOnly == \A b \in DOMAIN record.content :
                        record.content[b].type = "text"
    IN  CASE block.text = None ->
               [acc EXCEPT !.coverage = Count(@, {"blocks_unsupported"})]
          [] block.text # None /\ record.type = "user" /\ side = None ->
               [acc EXCEPT !.coverage = Count(@, {"user_turns_ambiguous",
                                                  "content_unknown"})]
          [] block.text = "paste" /\ record.type = "user" /\ side = FALSE ->
               Emit(acc, Partial("pasted-span"), {"content_unknown"})
          [] block.text \in {"plain", "paste"} /\ record.type = "assistant"
               /\ textOnly ->
               Emit(acc, Pointing("turn", pointer), {"content_references"})
          [] OTHER -> Emit(acc, Partial("turn"), {"content_unknown"})

TakeCall(acc, r, counts, block, pointer) ==
    LET at    == <<r, Len(acc.partials) + 1>>
        calls == CallPartials(block, IF block.input THEN pointer ELSE None, at)
    IN  [partials  |-> acc.partials \o calls,
         coverage  |-> CountMany(acc.coverage, "content_references",
                                 References(calls)),
         positions |-> IF block.id # None /\ counts[block.id] = 1
                         THEN [acc.positions EXCEPT ![block.id] = at]
                         ELSE acc.positions]

TakeResult(acc, counts, block) ==
    Emit(acc,
         [Partial("tool-result") EXCEPT
            !.relation = ToolRelation(block.id, counts, acc.positions),
            !.status   = block.status],
         {"content_unknown"})

TakeBlock(acc, r, record, side, counts, b) ==
    LET block   == record.content[b]
        seen    == [acc EXCEPT !.coverage = Count(@, {"blocks_seen"})]
        pointer == <<r, b>>
    IN  CASE block.type = "text" -> TakeText(seen, record, side, block, pointer)
          [] block.type = "tool_use" /\ record.type = "assistant" ->
               TakeCall(seen, r, counts, block, pointer)
          [] block.type = "tool_result" /\ record.type = "user" ->
               TakeResult(seen, counts, block)
          [] OTHER ->
               [seen EXCEPT !.coverage = Count(@, {"blocks_unsupported"})]

(* The partial events of one readable message, block after block. *)
MessageEvents(acc, r, record, side, counts) ==
    LET start == [partials  |-> IF record.type = "assistant"
                                  THEN [n \in DOMAIN record.metadata |->
                                          Partial(record.metadata[n])]
                                  ELSE <<>>,
                  positions |-> acc.positions,
                  coverage  |-> acc.coverage]
        after[b \in 0 .. Len(record.content)] ==
            IF b = 0 THEN start
            ELSE TakeBlock(after[b - 1], r, record, side, counts, b)
    IN  after[Len(record.content)]

TakeUnknownBlock(acc, record, b) ==
    IF /\ record.content[b].type \in {"text", "tool_result"}
       /\ record.content[b].text # None
      THEN Emit(acc, Partial("pasted-span"), {"blocks_seen", "content_unknown"})
      ELSE [acc EXCEPT !.coverage = Count(@, {"blocks_seen",
                                              "blocks_unsupported"})]

(* A record that may not be the subject's: only the shape of its texts. *)
UnknownAuthorshipEvents(acc, record) ==
    LET after[b \in 0 .. Len(record.content)] ==
            IF b = 0 THEN [partials |-> <<>>, positions |-> acc.positions,
                           coverage |-> acc.coverage]
            ELSE TakeUnknownBlock(after[b - 1], record, b)
    IN  after[Len(record.content)]

(* Mutant: a generation that is repeated is taken again. *)
NotOlder(acc, record) ==
    IF record.type = "compact_boundary"
      THEN [Partial("context-boundary") EXCEPT
              !.generation = IF /\ record.generation # None
                                /\ record.generation >= acc.generation
                               THEN record.generation
                               ELSE None]
      ELSE Partial(record.type)

LifecycleEvent(acc, record) ==
    IF record.type = "compact_boundary"
      THEN [Partial("context-boundary") EXCEPT
              !.generation = IF /\ record.generation # None
                                /\ record.generation > acc.generation
                               THEN record.generation
                               ELSE None]
      ELSE Partial(record.type)

Parsed(acc, r, parent, taken) ==
    [events     |-> acc.events \o EventsOf(r, parent, taken.partials),
     positions  |-> taken.positions,
     coverage   |-> Count(taken.coverage, {"records_parsed"}),
     generation |-> acc.generation]

Uncounted(acc, coverage, key) ==
    [acc EXCEPT !.coverage = Count(coverage, {key})]

TakeUnknown(acc, r, record) ==
    LET taken == UnknownAuthorshipEvents(acc, record)
    IN  IF record.message /\ taken.partials # <<>>
          THEN Parsed(acc, r, None, taken)
          ELSE Uncounted(acc, IF record.message THEN taken.coverage
                                                ELSE acc.coverage,
                         "records_unsupported")

TakeLifecycle(acc, r, parent, record) ==
    LET event == LifecycleEvent(acc, record)
    IN  [Parsed(acc, r, parent, [partials  |-> <<event>>,
                                 positions |-> acc.positions,
                                 coverage  |-> acc.coverage])
           EXCEPT !.generation =
             IF event.generation # None THEN event.generation ELSE @]

TakeRecord(acc, r, records, side, counts) ==
    LET record == records[r]
        parent == ParentLink(records, r)
    IN  CASE record.type = "malformed" ->
               Uncounted(acc, acc.coverage, "records_malformed")
          [] record.type # "malformed" /\ record.attribution = "unknown" ->
               TakeUnknown(acc, r, record)
          [] r \in SubjectDecoded(records) /\ InconsistentSession(records) ->
               Uncounted(acc, acc.coverage, "records_unsupported")
          [] r \in SubjectDecoded(records) /\ ~InconsistentSession(records)
               /\ IsMessage(record) /\ record.message ->
               Parsed(acc, r, parent,
                      MessageEvents(acc, r, record, side, counts))
          [] r \in SubjectDecoded(records) /\ ~InconsistentSession(records)
               /\ record.type \in {"compact_boundary", "session_start"} ->
               TakeLifecycle(acc, r, parent, record)
          [] r \in SubjectDecoded(records) /\ ~InconsistentSession(records)
               /\ record.type = "queue-operation" ->
               Parsed(acc, r, parent, [partials  |-> <<>>,
                                       positions |-> acc.positions,
                                       coverage  |-> acc.coverage])
          [] OTHER -> Uncounted(acc, acc.coverage, "records_unsupported")

(* What is known after the first n records. *)
NormalizeClaude(records) ==
    LET side   == SidechainMode(records)
        counts == ToolIdCounts(records)
        after[n \in 0 .. Len(records)] ==
            IF n = 0 THEN [events     |-> <<>>,
                           positions  |-> [id \in ToolIds(records) |-> None],
                           coverage   |-> NothingCovered,
                           generation |-> -1]
            ELSE TakeRecord(after[n - 1], n, records, side, counts)
        all == after[Len(records)]
    IN  [events   |-> JoinForgeOutcomes(all.events),
         coverage |-> all.coverage,
         admitted |-> Len(records)]
-----------------------------------------------------------------------------
(* What the resolver finds when it is given the record an event points to: *)
(* the text of a turn or the input of a call, or None when it refuses.     *)
ClaudeTarget(records, event) ==
    LET record == records[event.pointer[1]]
        b      == event.pointer[2]
        texts  == \A c \in DOMAIN record.content :
                      record.content[c].type = "text"
    IN  CASE \/ record.attribution # "subject"
             \/ record.type # "assistant"
             \/ ~record.message
             \/ b \notin DOMAIN record.content -> None
          [] event.kind = "turn" /\ texts -> record.content[b].text
          [] event.kind # "turn" /\ record.content[b].type = "tool_use"
               /\ record.content[b].input -> "input"
          [] OTHER -> None
=============================================================================
