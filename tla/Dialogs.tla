------------------------------- MODULE Dialogs -------------------------------
(***************************************************************************)
(* The dialogs of "bgit setup" (internal/app/setup.go): lists of rows over *)
(* two buttons, forms of text fields, and the confirmation of a deletion.  *)
(***************************************************************************)
EXTENDS Keys, FiniteSets

CONSTANTS
  Height,   \* rows that a list shows at once; 10 in the code
  PerPage,  \* regions on a page; 10 in the code
  Limit,    \* bytes of a field; 160 in the code
  MaxItems, \* brokers, choices or regions of a dialog (a bound of the model)
  MaxFields \* fields of a form (a bound of the model)

VARIABLES
  kind,       \* which dialog it is
  items,      \* how many things it lists
  creatable,  \* home: a provider is there to create a broker with
  cursor,     \* the marked row, from 0
  button,     \* -1: the rows; 0: OK; 1: Cancel
  page,       \* regions: the page that is shown
  ticked,     \* the items that are selected
  fields,     \* the text of each field
  required,   \* whether the fields must not be blank
  editing,    \* a field is being edited
  original,   \* what it held before
  escape,     \* bytes of an escape sequence that were read: "none", "esc" or "["
  ending,     \* "open", or how the dialog ended
  chosen,     \* the rows or items that it returned
  \* History: the terminal's escape sequence, and whether Tab was ever pressed.
  sequence, tabbed

setting == <<kind, items, creatable, required>>
place == <<cursor, button, page>>
text == <<fields, editing, original>>
result == <<ending, chosen>>
vars == <<setting, place, ticked, text, escape, result, sequence, tabbed>>

Kind == {"home", "action", "manage", "select", "multi", "region", "form", "delete", "output"}
-----------------------------------------------------------------------------
(***************************************************************************)
(* Rows                                                                    *)
(***************************************************************************)

Least(a, b) == IF a < b THEN a ELSE b
Largest(a, b) == IF a < b THEN b ELSE a

\* visibleRegions: the regions of the page.
OnPage == {i \in 0..(items - 1) : i \div PerPage = page}
Paged == items > PerPage

RegionRows == Cardinality(OnPage) + (IF Paged THEN 1 ELSE 0)
HomeRows == Largest(1, items + (IF creatable THEN 1 ELSE 0))

Rows ==
  CASE kind = "home" -> HomeRows
    [] kind = "action" -> 4
    [] kind = "manage" -> 3
    [] kind = "region" -> RegionRows
    [] kind \in {"delete", "output"} -> 0
    [] OTHER -> items

\* visibleRange: the rows that are shown.  Each frame is drawn from a copy of the
\* state, so the window never stays where the last frame had it.
Window(rows) ==
  LET first == Largest(0, Least(cursor - Height + 1, rows - Height))
  IN first..(Least(first + Height, rows) - 1)

Shown == IF kind \in {"region", "form"} THEN 0..(Rows - 1) ELSE Window(Rows)

TypeOK ==
  /\ kind \in Kind /\ items \in 0..MaxItems /\ creatable \in BOOLEAN /\ required \in BOOLEAN
  /\ cursor \in Nat /\ button \in -1..1 /\ page \in Nat
  /\ ticked \subseteq 0..(items - 1)
  /\ fields \in Seq(Seq({"space", "x"})) /\ editing \in BOOLEAN
  /\ \A i \in DOMAIN fields : Len(fields[i]) <= Limit
  /\ escape \in Escapes /\ sequence \in Escapes
  /\ ending \in {"open", "error", "cancel", "back", "chosen"}
  /\ chosen \subseteq 0..(MaxItems + 4) /\ tabbed \in BOOLEAN

Init ==
  /\ kind \in Kind
  /\ items \in 0..MaxItems /\ (kind # "home" => items > 0)
  /\ kind \in {"action", "manage", "delete", "output"} => items = 1
  /\ kind = "form" => items <= MaxFields
  /\ creatable \in BOOLEAN /\ (kind # "home" => ~creatable)
  /\ required \in BOOLEAN /\ (kind # "form" => ~required)
  /\ cursor \in IF kind = "select" THEN 0..(items - 1) ELSE {0}
  /\ button = IF kind = "delete" THEN 1 ELSE -1
  /\ page = 0
  /\ ticked \in IF kind = "region" THEN SUBSET (0..(items - 1)) ELSE {{}}
  /\ fields = IF kind = "form" THEN [i \in 1..items |-> << >>] ELSE << >>
  /\ editing = (kind = "form" /\ items = 1)
  /\ original = << >>
  /\ escape = "none"
  /\ ending = "open"
  /\ chosen = {}
  /\ sequence = "none"
  /\ tabbed = FALSE

-----------------------------------------------------------------------------
(***************************************************************************)
(* What the keys of every list do                                          *)
(***************************************************************************)

End(how, what) ==
  /\ ending' = how
  /\ chosen' = what
  /\ UNCHANGED <<place, ticked, text>>

Idle == UNCHANGED <<place, ticked, text, result>>

Mark(row) ==
  /\ cursor' = row
  /\ button' = -1
  /\ UNCHANGED <<page, ticked, text, result>>

Up == IF editing THEN Idle ELSE Mark(Above(cursor, Rows))
Down == IF editing THEN Idle ELSE Mark(Below(cursor, Rows))

\* From the rows to OK, to Cancel, and to the first row.  Tab ends the edit of a field.
Tab ==
  /\ button' = NextButton(button)
  /\ cursor' = IF button = 1 THEN 0 ELSE cursor
  /\ editing' = FALSE
  /\ original' = IF editing THEN << >> ELSE original
  /\ UNCHANGED <<page, ticked, fields, result>>

Toggle(i) ==
  /\ ticked' = IF i \in ticked THEN ticked \ {i} ELSE ticked \cup {i}
  /\ UNCHANGED <<place, text, result>>

Activating == {"enter", "space", "ctrl-d", "right"}

\* A list that ends when a row is activated: act is what that does, left how the left
\* arrow ends it.  A lone Esc ends it only at the end of the input.
List(key, act, left) ==
  CASE key \in Activating -> act
    [] key = "tab" -> Tab
    [] key = "up" -> Up
    [] key = "down" -> Down
    [] key \in {"left", "escape"} -> End(left, {})
    [] key = "ctrl-c" -> End("error", {})
    [] OTHER -> Idle

-----------------------------------------------------------------------------
(***************************************************************************)
(* The dialogs                                                             *)
(***************************************************************************)

New == items

\* The configured brokers, and a row for a new one.
ActivateHome ==
  CASE button = 0 -> End("chosen", {New})
    [] button = 1 -> End("cancel", {})
    [] button = -1 /\ items = 0 /\ ~creatable -> Idle
    [] OTHER -> End("chosen", {IF cursor < items THEN cursor ELSE New})

InHome(key) ==
  IF key \in {"q", "eof"} THEN End("cancel", {}) ELSE List(key, ActivateHome, "cancel")

\* Manage, update, delete, back.
ActivateAction ==
  CASE button = 0 -> End("chosen", {0})
    [] button = 1 \/ cursor = 3 -> End("back", {})
    [] OTHER -> End("chosen", {cursor})

Action(key) ==
  IF key \in {"q", "eof"} THEN End("cancel", {}) ELSE List(key, ActivateAction, "back")

\* Users, teams, back: the first two are run and the dialog goes on.
ActivateManage ==
  IF button = 1 \/ cursor = 2 THEN End("back", {}) ELSE End("open", {cursor})

Manage(key) ==
  IF key \in {"q", "eof"} THEN End("cancel", {}) ELSE List(key, ActivateManage, "back")

\* One of several values.
ActivateSelect == IF button = 1 THEN End("back", {}) ELSE End("chosen", {cursor})

Select(key) == IF key = "eof" THEN End("back", {}) ELSE List(key, ActivateSelect, "back")

\* deploy: what is ticked, if anything is.
DeployTicked == IF ticked = {} THEN Idle ELSE End("chosen", ticked)

\* Any of several repositories; the right arrow and Ctrl-D return them whatever is marked.
MultiSelect(key) ==
  CASE key \in {"right", "ctrl-d"} -> DeployTicked
    [] key \in {"enter", "space"} /\ button = 1 -> End("back", {})
    [] key \in {"enter", "space"} /\ button = 0 -> DeployTicked
    [] key = "eof" -> End("back", {})
    [] OTHER -> List(key, Toggle(cursor), "back")

\* Mutated: the cursor stays where it was on the page before.
FirstRow_Kept == cursor

FirstRow == 0

NextPage ==
  /\ page' = (page + 1) % ((items + PerPage - 1) \div PerPage)
  /\ cursor' = FirstRow
  /\ UNCHANGED <<button, ticked, text, result>>

ActivateRegion ==
  CASE button = 0 -> DeployTicked
    [] button = 1 -> Idle
    [] button = -1 /\ cursor < Cardinality(OnPage) -> Toggle(page * PerPage + cursor)
    [] OTHER -> IF Paged THEN NextPage ELSE Idle

\* Any of the regions of a profile, page by page.
Region(key) ==
  CASE key \in {"enter", "space", "x"} /\ button = 1 -> End("back", {})
    [] key \in {"enter", "space", "x", "right"} -> ActivateRegion
    [] key = "ctrl-d" -> DeployTicked
    [] key \in {"q", "eof"} -> End("back", {})
    [] OTHER -> List(key, Idle, "back")

Blank(value) == \A i \in DOMAIN value : value[i] = "space"
Field == cursor + 1

DeployForm ==
  IF required /\ \E i \in DOMAIN fields : Blank(fields[i])
  THEN Idle
  ELSE End("chosen", 0..(items - 1))

Write(value) ==
  /\ fields' = [fields EXCEPT ![Field] = value]
  /\ UNCHANGED <<place, ticked, editing, original, result>>

\* Blanks and other text.
Typed(byte) == IF byte = "space" THEN byte ELSE "x"

Type(byte) ==
  IF Len(fields[Field]) >= Limit THEN Idle ELSE Write(Append(fields[Field], Typed(byte)))

Backspace ==
  LET value == fields[Field]
  IN IF value = << >> THEN Idle ELSE Write(SubSeq(value, 1, Len(value) - 1))

StartEdit ==
  /\ editing' = TRUE
  /\ original' = fields[Field]
  /\ UNCHANGED <<place, ticked, fields, result>>

StopEdit(value) ==
  /\ fields' = [fields EXCEPT ![Field] = value]
  /\ editing' = FALSE
  /\ original' = << >>
  /\ UNCHANGED <<place, ticked, result>>

ActivateForm ==
  CASE button = 0 -> DeployForm
    [] button = 1 -> Idle
    [] OTHER -> StartEdit

\* What Esc leaves in the field that is being edited.
Reverted == original

\* The keys of a form while a field is being edited, and otherwise.
EditForm(key) ==
  CASE key = "enter" -> StopEdit(fields[Field])
    [] key = "escape" -> StopEdit(Reverted)
    [] key = "backspace" -> Backspace
    [] key \in Printable -> Type(key)
    [] key = "ctrl-d" -> DeployForm
    [] key = "eof" -> End("back", {})
    [] OTHER -> List(key, Idle, "back")

WalkForm(key) ==
  CASE key \in {"enter", "space"} /\ button = 1 -> End("back", {})
    [] key \in {"enter", "space", "right"} -> ActivateForm
    [] key = "ctrl-d" -> DeployForm
    [] key = "eof" -> End("back", {})
    [] OTHER -> List(key, Idle, "back")

TextForm(key) == IF editing THEN EditForm(key) ELSE WalkForm(key)

Confirmed == IF button = 0 THEN {0} ELSE {}

\* Delete the broker?  Cancel is marked first.
DeleteConfirm(key) ==
  CASE key = "tab" ->
         button' = (button + 1) % 2 /\ UNCHANGED <<cursor, page, ticked, text, result>>
    [] key \in {"enter", "space", "ctrl-d"} -> End("chosen", Confirmed)
    [] key \in {"escape", "q", "eof"} -> End("cancel", {})
    [] key = "ctrl-c" -> End("error", {})
    [] OTHER -> Idle

\* A page of text, until it is dismissed.
Output(key) ==
  CASE key = "ctrl-c" -> End("error", {})
    [] key \in {"enter", "space", "ctrl-d", "escape", "q", "eof"} -> End("back", {})
    [] OTHER -> Idle

-----------------------------------------------------------------------------
(***************************************************************************)
(* Bytes                                                                   *)
(***************************************************************************)

\* These read no further after an Esc.
EscapeIsKey == kind \in {"delete", "output"} \/ editing

KeyRead(byte) == KeyOf(escape, byte, EscapeIsKey)

Dialog(key) ==
  CASE kind = "home" -> InHome(key)
    [] kind = "action" -> Action(key)
    [] kind = "manage" -> Manage(key)
    [] kind = "select" -> Select(key)
    [] kind = "multi" -> MultiSelect(key)
    [] kind = "region" -> Region(key)
    [] kind = "form" -> TextForm(key)
    [] kind = "delete" -> DeleteConfirm(key)
    [] kind = "output" -> Output(key)

Press(byte) ==
  /\ ending = "open"
  /\ escape' = IF KeyRead(byte) = "more" THEN byte ELSE "none"
  /\ IF KeyRead(byte) = "more" THEN Idle ELSE Dialog(KeyRead(byte))
  /\ sequence' = Continued(sequence, byte)
  /\ tabbed' = (tabbed \/ byte = "tab")
  /\ UNCHANGED setting

Next == \E byte \in Byte : Press(byte)

Spec == Init /\ [][Next]_vars

-----------------------------------------------------------------------------
(***************************************************************************)
(* Properties                                                              *)
(***************************************************************************)

\* The row that is marked exists and is among those that are shown, however rows come
\* and go with pages and windows.
MarkedIsShown == Rows > 0 => cursor \in Shown

\* A broker is deleted only after Tab was pressed: no single key of any kind, nor an arrow,
\* confirms the deletion.
DeletionIsDeliberate == kind = "delete" /\ chosen # {} => tabbed

\* Esc while a field is edited, and so an arrow key, restores what the field held before,
\* and the bytes of the arrow that follow type nothing.
EscRestores ==
  [][ /\ editing /\ ~editing' /\ sequence' = "esc" => fields'[Field] = original
      /\ sequence # "none" /\ sequence' # "esc" => fields' = fields ]_vars

=============================================================================
