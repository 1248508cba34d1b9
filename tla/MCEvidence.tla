------------------------------ MODULE MCEvidence -------------------------------
(***************************************************************************)
(* The inputs that TLC feeds to Evidence: of each stream the records,      *)
(* sessions and rows between which something can go wrong.                 *)
(***************************************************************************)
EXTENDS Evidence, TLC

Text(text) == [type |-> "text", text |-> text, id |-> None, input |-> FALSE,
               derives |-> {}, status |-> "unknown"]

Call(id, given, derives) ==
    [Text(None) EXCEPT !.type = "tool_use", !.id = id, !.input = given,
                       !.derives = derives]

Result(id, status) ==
    [Text("plain") EXCEPT !.type = "tool_result", !.id = id, !.status = status]

Said(type, content) ==
    [attribution |-> "subject", type |-> type, message |-> TRUE,
     session |-> "s", uuid |-> "u", parentUuid |-> None,
     isSidechain |-> FALSE, generation |-> None, metadata |-> <<>>,
     content |-> content]

Bare(type, generation) ==
    [Said(type, <<>>) EXCEPT !.message = FALSE, !.generation = generation,
                             !.uuid = None, !.parentUuid = "u"]

MCClaudeLine ==
    {Said("assistant", <<Text("plain"), Text("empty")>>),
     Said("assistant", <<Text("plain"), Call(1, TRUE, {"forge", "test"})>>),
     [Said("assistant", <<Call(1, TRUE, {"forge", "reference"}),
                          Call(2, FALSE, {"forge"})>>)
        EXCEPT !.uuid = "v", !.metadata = <<"model", "token-usage">>],
     [Said("assistant", <<Call(2, TRUE, {"forge"}), Call(None, TRUE, {"forge"})>>)
        EXCEPT !.isSidechain = None],
     [Said("user", <<Result(1, "success"), Text("paste"), Result(2, "error")>>)
        EXCEPT !.uuid = "w", !.parentUuid = "v"],
     [Said("user", <<Result(1, "error"), Result(None, "error"), Text(None)>>)
        EXCEPT !.parentUuid = "u"],
     [Said("user", <<Text("paste")>>)
        EXCEPT !.attribution = "unknown", !.session = "t"],
     [Said("assistant", <<Call(1, TRUE, {"forge"})>>)
        EXCEPT !.attribution = "unknown", !.uuid = "v"],
     [Said("user", <<Text("plain")>>) EXCEPT !.message = FALSE],
     [Said("user", <<Text("plain")>>) EXCEPT !.session = "t"],
     Bare("compact_boundary", 1), Bare("compact_boundary", 2),
     Bare("session_start", None), Bare("queue-operation", None),
     Bare("malformed", None), Bare("other", None)}

Rolled(type) ==
    [attribution |-> "subject", type |-> type, role |-> "user",
     content |-> <<>>, text |-> TRUE, id |-> None, input |-> FALSE,
     derives |-> {}, status |-> "unknown", model |-> None, provider |-> FALSE,
     generation |-> None]

Block(type, text) == [type |-> type, text |-> text]

MCCodexLine ==
    {[Rolled("message") EXCEPT !.role = "assistant",
        !.content = <<Block("output_text", "plain"), Block("output_text", "empty"),
                      Block("input_text", "plain")>>],
     [Rolled("message") EXCEPT
        !.content = <<Block("input_text", "paste"), Block("input_text", None)>>],
     [Rolled("message") EXCEPT !.attribution = "unknown",
        !.content = <<Block("input_text", "plain")>>],
     [Rolled("message") EXCEPT !.attribution = "unknown",
        !.content = <<Block("other", None)>>],
     [Rolled("call") EXCEPT !.id = 1, !.input = TRUE,
                            !.derives = {"forge", "reference"}],
     [Rolled("call") EXCEPT !.id = 1, !.derives = {"forge"}],
     [Rolled("call") EXCEPT !.id = 2, !.input = TRUE, !.derives = {"forge", "test"}],
     [Rolled("call") EXCEPT !.attribution = "unknown", !.id = 1, !.input = TRUE,
                            !.derives = {"forge"}],
     [Rolled("output") EXCEPT !.id = 1, !.status = "success"],
     [Rolled("output") EXCEPT !.id = 2, !.status = "error", !.text = FALSE],
     [Rolled("output") EXCEPT !.id = 2, !.status = "error"],
     [Rolled("output") EXCEPT !.attribution = "unknown", !.id = 1],
     [Rolled("compacted") EXCEPT !.generation = 1],
     [Rolled("compacted") EXCEPT !.generation = 2, !.text = FALSE],
     [Rolled("settings") EXCEPT !.model = 1, !.provider = TRUE],
     [Rolled("settings") EXCEPT !.model = 2],
     [Rolled("session_meta") EXCEPT !.provider = TRUE],
     Rolled("token_count"), Rolled("silent"), Rolled("other"), Rolled("malformed")}

(* Heads move x -> y, x -> x or y -> x; 9 is a session that is not there. *)
MCSessionShape ==
    {[id |-> None, parent |-> p, repo |-> None, before |-> None, after |-> None,
      start |-> None, end |-> 4, bound |-> None, earliest |-> 2] :
        p \in {None, 1, 2, 3, 9}}
    \cup {[id |-> None, parent |-> p, repo |-> 1, before |-> h[1], after |-> h[2],
           start |-> w[1], end |-> w[2],
           bound |-> CASE h = <<0, 1>> -> {1} [] h = <<0, 0>> -> {}
                       [] OTHER -> None,
           earliest |-> w[1]] :
        p \in {None, 1, 2, 3, 9}, h \in {<<0, 1>>, <<0, 0>>, <<1, 0>>},
        w \in {<<0, 1>>, <<1, 1>>, <<2, 4>>}}

MCLedgerRow ==
    {[type |-> t, repo |-> 1, head |-> h] : t \in {"start", "end", "binding"},
                                            h \in {0, 1}}
    \cup {[type |-> t, repo |-> None, head |-> None] : t \in {"start", "end"}}

MCDatedRecord ==
    {[attribution |-> "subject", marker |-> m, at |-> t] :
        m \in {"open", "close", "plain"}, t \in {None, 1, 2, 3}}
    \cup {[attribution |-> "subject", marker |-> "malformed", at |-> None],
          [attribution |-> "unknown", marker |-> "open", at |-> 2],
          [attribution |-> "unknown", marker |-> "plain", at |-> 1]}

MCSessionId == {1, 2, 3}

CONSTANTS p1, p2, b1, b2
MCClassOf == (p1 :> "docs") @@ (p2 :> "docs")
MCEntry == {[blob |-> b1, mode |-> "file"], [blob |-> b2, mode |-> "file"],
            [blob |-> b1, mode |-> "executable"]}
Symmetric == Permutations({p1, p2})
=============================================================================
