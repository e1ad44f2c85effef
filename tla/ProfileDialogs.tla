---------------------------- MODULE ProfileDialogs ----------------------------
(***************************************************************************)
(* The two dialogs that mix rows to select with fields to edit: the one of *)
(* "bgit setup" (internal/app/setup.go), which lists the cloud profiles of *)
(* each provider page by page, the identity and the SSH keys and can turn  *)
(* into a form for a new profile, and the one of "bgit init"               *)
(* (internal/app/broker_commands.go).                                      *)
(***************************************************************************)
EXTENDS Keys, SequencesExt

CONSTANTS
  PerProvider,  \* profiles of a provider on a page; 10 in the code
  MaxProfiles,  \* profiles of a provider (a bound of the model)
  MaxKeys       \* SSH keys (a bound of the model)

VARIABLES
  dialog,     \* "setup" or "init"
  profiles,   \* how many profiles each provider has
  creators,   \* providers whose command is installed
  keys,       \* how many SSH keys there are
  existing,   \* init: the directory is a repository
  cursor, button,
  pages,      \* the page of each provider
  ticked,     \* profiles that are selected
  kept,       \* SSH keys that are selected
  form,       \* the provider of the profile that is created, or "none"
  values,     \* what each field holds
  initial,    \* what it held at first
  editing,    \* the field that is edited, or "none"
  original,   \* what it held before the edit
  escape,     \* what was read of an escape sequence
  ending,     \* "open", "canceled", "done" or "create"
  sequence    \* history: the escape sequence of the terminal

setting == <<dialog, profiles, creators, keys, existing, initial>>
place == <<cursor, button, pages, form>>
choice == <<ticked, kept>>
text == <<values, editing, original>>
vars == <<setting, place, choice, text, escape, ending, sequence>>

Provider == {"gcs", "s3"}
ProviderOrder == <<"gcs", "s3">>
CreateField == <<"profile", "access", "secret", "region">>
InitField == <<"repo", "name", "email">>
Field == ToSet(CreateField) \cup ToSet(InitField)

\* What a text is to the checks: blank, well formed or not.
Value == {"", "good", "bad"}

\* The identity is taken as it is, except for the address in init.
Texts(f) ==
  IF f = "name" \/ (f = "email" /\ dialog = "setup") THEN Value \ {"bad"} ELSE Value

Profiles == {<<p, i>> : p \in Provider, i \in 0..(MaxProfiles - 1)}

-----------------------------------------------------------------------------
(***************************************************************************)
(* Rows                                                                    *)
(***************************************************************************)

Item(what, provider, i) == [kind |-> what, provider |-> provider, index |-> i]
Section(what, provider, first, count) ==
  [n \in 1..count |-> Item(what, provider, first + n - 1)]

OnPage(p) ==
  LET first == pages[p] * PerProvider
  IN Section("profile", p, first,
             IF first + PerProvider <= profiles[p] THEN PerProvider ELSE profiles[p] - first)

ItemsOf(p) ==
  OnPage(p)
    \o (IF profiles[p] > PerProvider THEN <<Item("more", p, 0)>> ELSE << >>)
    \o (IF p \in creators THEN <<Item("create", p, 0)>> ELSE << >>)

\* visibleItems
Items ==
  ItemsOf("gcs") \o ItemsOf("s3")
    \o <<Item("name", "identity", 0), Item("email", "identity", 0)>>
    \o Section("key", "ssh", 0, keys)

FormFields == IF form = "s3" THEN 4 ELSE 1

Rows ==
  CASE dialog = "init" -> 3 + profiles["gcs"]
    [] form # "none" -> FormFields
    [] OTHER -> Len(Items)

Marked == Items[cursor + 1]

\* The field of the marked row, if it has one.
FieldHere ==
  CASE dialog = "init" -> IF cursor < 3 THEN InitField[cursor + 1] ELSE "none"
    [] form # "none" -> CreateField[cursor + 1]
    [] Marked.provider = "identity" -> Marked.kind
    [] OTHER -> "none"

TypeOK ==
  /\ dialog \in {"setup", "init"} /\ existing \in BOOLEAN
  /\ profiles \in [Provider -> 0..MaxProfiles] /\ creators \subseteq Provider
  /\ keys \in 0..MaxKeys
  /\ cursor \in Nat /\ button \in -1..1 /\ pages \in [Provider -> Nat]
  /\ ticked \subseteq Profiles /\ kept \subseteq 0..(keys - 1)
  /\ form \in creators \cup {"none"}
  /\ values \in [Field -> Value] /\ initial \in [Field -> Value]
  /\ editing \in Field \cup {"none"} /\ original \in Value
  /\ escape \in Escapes /\ sequence \in Escapes
  /\ ending \in {"open", "canceled", "done", "create"}

\* A new repository is nameless, and its profile is selected when it is the only one
\* (initDialogSelectedProfile); an existing one names its profile.
Init ==
  /\ dialog \in {"setup", "init"}
  /\ profiles \in [Provider -> 0..MaxProfiles]
  /\ creators \in SUBSET Provider
  /\ keys \in 0..MaxKeys
  /\ existing \in BOOLEAN
  /\ dialog = "setup" => ~existing
  /\ dialog = "init" => creators = {} /\ keys = 0 /\ profiles["s3"] = 0
  /\ cursor = 0
  /\ button = -1
  /\ pages = [p \in Provider |-> 0]
  /\ IF dialog = "setup" THEN ticked = {}
     ELSE \/ ticked = {} /\ (profiles["gcs"] = 1 => existing)
          \/ profiles["gcs"] = 1 /\ ticked = {<<"gcs", 0>>}
          \/ existing /\ \E i \in 0..(profiles["gcs"] - 1) : ticked = {<<"gcs", i>>}
  /\ kept = 0..(keys - 1)
  /\ form = "none"
  /\ values = [f \in Field |-> IF f = "repo" /\ existing THEN "good" ELSE ""]
  /\ initial = values
  /\ editing = "none"
  /\ original = ""
  /\ escape = "none"
  /\ ending = "open"
  /\ sequence = "none"

-----------------------------------------------------------------------------
(***************************************************************************)
(* What the keys do                                                        *)
(***************************************************************************)

Idle == UNCHANGED <<place, choice, text, ending>>

End(how) == ending' = how /\ UNCHANGED <<place, choice, text>>

Mark(row) ==
  /\ cursor' = row
  /\ button' = -1
  /\ UNCHANGED <<pages, form, choice, text, ending>>

Press2(b) == button' = b /\ UNCHANGED <<cursor, pages, form, choice, text, ending>>

StartEdit ==
  /\ editing' = FieldHere
  /\ original' = values[FieldHere]
  /\ UNCHANGED <<place, choice, values, ending>>

StopEdit(value) ==
  /\ values' = [values EXCEPT ![editing] = value]
  /\ editing' = "none"
  /\ original' = ""
  /\ UNCHANGED <<place, choice, ending>>

\* Text that a byte is added to or taken from may become well formed or cease to be;
\* a field that is full keeps what it holds.
Retype(can) ==
  /\ \E v \in can \cup {values[editing]} : values' = [values EXCEPT ![editing] = v]
  /\ UNCHANGED <<place, choice, editing, original, ending>>

Type ==
  Retype(IF values[editing] = "" THEN Texts(editing) ELSE Texts(editing) \ {""})
Backspace == Retype(IF values[editing] = "" THEN {""} ELSE Texts(editing))

\* cancelCreateProfile
LeaveForm ==
  /\ form' = "none"
  /\ values' = [f \in Field |-> IF f \in ToSet(CreateField) THEN "" ELSE values[f]]
  /\ editing' = "none"
  /\ original' = ""
  /\ cursor' = 0
  /\ button' = -1
  /\ UNCHANGED <<pages, choice, ending>>

\* deployCreateProfile
DeployForm ==
  IF /\ values["profile"] = "good"
     /\ form = "s3" => values["access"] = "good" /\ values["secret"] = "good"
                         /\ values["region"] # "bad"
  THEN End("create") ELSE Idle

IdentityChanged == \E f \in {"name", "email"} : values[f] # initial[f]

DeploySetup == IF ticked # {} \/ IdentityChanged THEN End("done") ELSE Idle

Toggle(set, x) == IF x \in set THEN set \ {x} ELSE set \cup {x}

\* The row that is marked when the form opens.
FormRow == 0

\* The default name of a new profile is proposed; it may be blank.
OpenForm ==
  /\ form' = Marked.provider
  /\ \E name \in {"", "good"} :
       values' = [values EXCEPT !["profile"] = name] /\ original' = name
  /\ editing' = "profile"
  /\ cursor' = FormRow
  /\ button' = -1
  /\ UNCHANGED <<pages, choice, ending>>

First(items, provider) ==
  CHOOSE i \in DOMAIN items :
    /\ items[i].provider = provider
    /\ \A j \in 1..(i - 1) : items[j].provider # provider

\* nextProviderPage: the rows before those of the provider stay where they are.
NextPage(p) ==
  /\ pages' = [pages EXCEPT ![p] = (@ + 1) % ((profiles[p] + PerProvider - 1) \div PerProvider)]
  /\ cursor' = First(Items, p) - 1
  /\ UNCHANGED <<button, form, choice, text, ending>>

ActivateRow ==
  CASE Marked.provider = "identity" -> StartEdit
    [] Marked.kind = "create" -> OpenForm
    [] Marked.kind = "more" -> NextPage(Marked.provider)
    [] Marked.kind = "profile" ->
         ticked' = Toggle(ticked, <<Marked.provider, Marked.index>>)
           /\ UNCHANGED <<place, kept, text, ending>>
    [] Marked.kind = "key" ->
         kept' = Toggle(kept, Marked.index) /\ UNCHANGED <<place, ticked, text, ending>>

ActivateSetup ==
  CASE form # "none" /\ button = 0 -> DeployForm
    [] form # "none" /\ button = 1 -> LeaveForm
    [] form # "none" -> StartEdit
    [] button = 0 -> DeploySetup
    [] button = 1 -> End("canceled")
    [] OTHER -> ActivateRow

\* Providers are compared by their names, and identity and ssh are names too.
After(p, section) ==
  CASE section = "gcs" -> p = "s3"
    [] section = "identity" -> p = "s3"
    [] OTHER -> FALSE

\* tab: the first row of the next section that has one, and then the buttons.
TabSetup ==
  LET section == Marked.provider
      Has(p) == \E i \in DOMAIN Items : Items[i].provider = p
      Go(p, b) ==
        cursor' = First(Items, p) - 1 /\ button' = b
          /\ UNCHANGED <<pages, form, choice, values, ending>>
      Push == button' = IF button < 0 THEN 0 ELSE 1
  IN CASE button = 1 ->
            button' = -1 /\ cursor' = 0 /\ UNCHANGED <<pages, form, choice, values, ending>>
       [] button # 1 /\ \E p \in Provider : After(p, section) /\ Has(p) ->
            Go(CHOOSE p \in Provider : After(p, section) /\ Has(p), 0)
       [] OTHER ->
            IF section \in Provider THEN Go("identity", -1)
            ELSE IF section = "identity" /\ keys > 0 THEN Go("ssh", -1)
            ELSE Push /\ UNCHANGED <<cursor, pages, form, choice, values, ending>>

\* Tab in a form or in init: from the rows to the buttons and back to the marked row, or
\* to the first.
TabFields ==
  /\ button' = NextButton(button)
  /\ cursor' = IF button = 1 /\ dialog = "init" THEN 0 ELSE cursor
  /\ UNCHANGED <<pages, form, choice, values, ending>>

Tab ==
  /\ IF dialog = "init" \/ form # "none" THEN TabFields ELSE TabSetup
  /\ editing' = "none"
  /\ original' = ""

-----------------------------------------------------------------------------
(***************************************************************************)
(* The dialogs                                                             *)
(***************************************************************************)

\* What Esc leaves in the field that is edited.
Reverted == original

\* The keys while a field is edited; those that are not listed are the dialog's.
Edit(key) ==
  CASE key \in {"enter", "ctrl-d"} -> StopEdit(values[editing])
    [] key = "escape" -> StopEdit(Reverted)
    [] key = "backspace" -> Backspace
    [] key \in Printable -> Type

\* runSetupDialogWithRaw.  Enter, Space, x and the right arrow activate; q cancels, even
\* in the middle of a name.
Setup(key) ==
  CASE key \in {"ctrl-c", "q", "eof"} -> End("canceled")
    [] key = "tab" -> Tab
    [] key \notin {"ctrl-c", "q", "eof", "tab"} /\ editing # "none" -> Edit(key)
    [] editing = "none" /\ key \in {"enter", "space", "x", "right"} -> ActivateSetup
    [] editing = "none" /\ key = "ctrl-d" -> IF form # "none" THEN DeployForm ELSE DeploySetup
    [] editing = "none" /\ key = "up" -> Mark(Above(cursor, Rows))
    [] editing = "none" /\ key = "down" -> Mark(Below(cursor, Rows))
    [] editing = "none" /\ key \in {"left", "escape"} ->
         IF form # "none" THEN LeaveForm ELSE End("canceled")
    [] editing = "none" /\ key = "other" -> IF form # "none" THEN LeaveForm ELSE Idle
    [] OTHER -> Idle

\* result and deploy of init: a change of the repository or of its profile needs a
\* profile, and nothing is refused when nothing changes.
RepoChanged == values["repo"] # initial["repo"]

DeployInit ==
  IF \/ values["repo"] = "" \/ values["email"] = "bad"
     \/ RepoChanged /\ ticked = {}
  THEN Idle ELSE End("done")

ActivateInit ==
  CASE button = 0 -> DeployInit
    [] button = 1 -> Idle
    [] button = -1 /\ cursor < 3 -> StartEdit
    [] OTHER -> ticked' = {<<"gcs", cursor - 3>>} /\ UNCHANGED <<place, kept, text, ending>>

\* runInitDialogWithRaw.  Enter cancels on Cancel, and Space does nothing there.
InitDialog(key) ==
  CASE key \in {"ctrl-c", "eof"} -> End("canceled")
    [] key = "tab" -> Tab
    [] key \notin {"ctrl-c", "eof", "tab"} /\ editing # "none" -> Edit(key)
    [] editing = "none" /\ key = "enter" ->
         IF button = 1 THEN End("canceled") ELSE ActivateInit
    [] editing = "none" /\ key = "space" -> ActivateInit
    [] editing = "none" /\ key = "ctrl-d" -> DeployInit
    [] editing = "none" /\ key = "up" -> Mark(Above(cursor, Rows))
    [] editing = "none" /\ key = "down" -> Mark(Below(cursor, Rows))
    [] editing = "none" /\ key = "escape" -> End("canceled")
    [] OTHER -> Idle

\* In init an Esc that begins no arrow cancels.
KeyRead(byte) ==
  IF dialog = "init" /\ escape = "esc" /\ byte # "[" THEN "escape"
  ELSE KeyOf(escape, byte, editing # "none")

Press(byte) ==
  /\ ending = "open"
  /\ escape' = IF KeyRead(byte) = "more" THEN byte ELSE "none"
  /\ IF KeyRead(byte) = "more" THEN Idle
     ELSE IF dialog = "setup" THEN Setup(KeyRead(byte)) ELSE InitDialog(KeyRead(byte))
  /\ sequence' = Continued(sequence, byte)
  /\ UNCHANGED setting

Next == \E byte \in Byte : Press(byte)

Spec == Init /\ [][Next]_vars

-----------------------------------------------------------------------------
(***************************************************************************)
(* Properties                                                              *)
(***************************************************************************)

\* The marked row exists, whatever pages are shown and whether the form is open: it
\* is an index into the rows.
MarkedExists == cursor < Rows

\* A form that was left, or that was never opened, leaves nothing behind: the next
\* one starts without the secrets of another.
FormsAreClean ==
  form = "none" => \A f \in ToSet(CreateField) : values[f] = "" /\ editing # f

\* Esc while a field is edited, and so an arrow key, restores what the field held before,
\* and the bytes of the arrow that follow type nothing.
EscRestores ==
  [][ /\ editing # "none" /\ sequence' = "esc" =>
           editing' = "none" /\ values' = [values EXCEPT ![editing] = original]
      /\ sequence # "none" /\ sequence' # "esc" /\ form' = form => values' = values ]_vars
=============================================================================
