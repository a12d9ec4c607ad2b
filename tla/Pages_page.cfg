SPECIFICATION Spec
CONSTANTS
  Widgets = {"tree", "trees", "pickers", "list", "bars", "looks", "memo", "panel", "references", "attachments", "tools", "recording", "reading", "find", "paste", "tags", "paths", "snippets", "popups", "albums", "suggestions", "previews", "figures", "diagrams", "live", "viewer", "calendar", "calendars", "cut"}
CHECK_DEADLOCK FALSE
INVARIANT PagesTypeOK
INVARIANT EntriesAreForest
INVARIANT ChoicesAreShown
INVARIANT AnswersAreLatest
INVARIANT PageShowsServer
INVARIANT StorageIsShown
INVARIANT ChatShowsWhatIsSent
INVARIANT EditorKeepsUp
INVARIANT MenusAreReachable
INVARIANT OtherLinesKept
INVARIANT BlocksStayWhole
PROPERTY StepsKeepTheRest
