-------------------------- MODULE MCMutationJournal --------------------------
(* Two small turns for TLC, one per behaviour: a chat turn with Jira       *)
(* writes (an attachment and its retry, an item of an approved draft) and  *)
(* an MCP write, and a turn of a coding run with native MCP writes of two  *)
(* tool calls.                                                             *)
EXTENDS MutationJournal, TLC

CONSTANTS attach, retry, item, tool,    \* invocations of the chat turn
          first, second, other,         \* invocations of the coding turn
          fileA, itemA, toolA, firstA, secondA, otherA, callA, callB

ChatInvocations == {attach, retry, item, tool}
NativeInvocations == {first, second, other}
AllInvocations == ChatInvocations \cup NativeInvocations

Actions == (attach :> fileA) @@ (retry :> fileA) @@ (item :> itemA) @@ (tool :> toolA)
           @@ (first :> firstA) @@ (second :> secondA) @@ (other :> otherA)
Sources == [i \in AllInvocations |->
               CASE i \in NativeInvocations -> "native" [] i = tool -> "mcp" [] OTHER -> "jira"]
Calls == [i \in AllInvocations |->
             CASE i \in {first, second} -> callA [] i = other -> callB [] OTHER -> None]
Items == {item}
Files == {fileA}

(* The records of one turn are those of a chat or those of a coding run.    *)
OneKindOfTurn ==
    LET present == {i \in AllInvocations : rec'[i] # None}
    IN present \subseteq ChatInvocations \/ present \subseteq NativeInvocations
=============================================================================
