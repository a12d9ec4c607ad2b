--------------------------- MODULE MCEditorSession ---------------------------
(* Small instances of EditorSession: memos of up to three paragraphs, one of *)
(* them with a delimited block that holds a blank line.                      *)
EXTENDS EditorSession, TLC

CONSTANTS a, b, c

MCText == {a, b, c}
MCReplacement == a :> b @@ b :> b @@ c :> c

MCSaved == {<<>>, <<Open, a, Close, b>>}
MCPuts == {<<a, b>>}
MCUploads == {c}
MCTyped == {<<>>, <<b, c>>, <<Table, c>>}
EveryGesture == {"flush", "mode", "source", "reset", "assistant", "upload", "ime", "open",
                 "arrow", "append", "enter", "undo", "replace"}
=============================================================================
