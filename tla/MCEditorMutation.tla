--------------------------- MODULE MCEditorMutation ---------------------------
(* Two reviewed edits and one without review, of one run and its editor     *)
(* session.                                                                 *)
EXTENDS EditorMutation, TLC

CONSTANTS e1, e2, e3

ThreeEdits == {e1, e2, e3}
OneRun == [e \in Edits |-> "a"]
OneSession == [e \in Edits |-> "s"]
ReviewedEdits == Edits \ {e3}
=============================================================================
