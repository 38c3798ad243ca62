------------------------------ MODULE NodeForm ------------------------------
(***************************************************************************)
(* The form that adds or edits a Pi-hole, and the connection test behind   *)
(* it.  Save tests the connection first, unless what the form shows has    *)
(* just been tested or a test has failed before; a test may also be asked  *)
(* for.  Each runs on with what the form showed when it was clicked, while *)
(* the user types, saves again, cancels, or somebody else edits the node.  *)
(*                                                                         *)
(* The server tests with a client of its own: log in, log out.  The        *)
(* Pi-holes are external: they accept the configurations in Accepts.  The  *)
(* store trims a password when it saves one, and a test does not.          *)
(* Name and description, of which nothing here depends, are left out, and  *)
(* so is the registry's work on a save (see PiholeRegistry).               *)
(***************************************************************************)
EXTENDS Integers, Sequences, FiniteSets

CONSTANTS
    Addresses,      \* [scheme, host, port], a host is <<what is glued on, name>>
    Passwords,      \* what may be typed, blank included
    Contents,       \* <<address, password>>: what a user may fill in
    Trim,           \* strings.TrimSpace and trim() on them
    Blank,          \* the empty password: "Leave empty to use current"
    Accepts,        \* <<address, password>>: the logins that succeed
    Saves,          \* clicks on Save that may be under way at once
    None,
    MaxTroubles     \* bound on edits by others while a dialog is open, and answers
                    \* lost between the server and a Pi-hole, together

VARIABLES
    row,            \* the stored node: address and password, or None
    form,           \* mode, the node it was opened for, its fields, its flags
    run,            \* each click: how far it is, the fields it took, its client
    open,           \* sessions open at the Pi-holes that tests logged in to
    passed,         \* history: the fields that last passed a test in this form
    failed,         \* history: a test has failed in this form
    saved,          \* history: what the first save of this form went by, whether
                    \* the store trimmed it, and whether another click saved again
    others,         \* edits by others while the form was open
    faults

vars == <<row, form, run, open, passed, failed, saved, others, faults>>

Clicks == {"test"} \cup Saves

-----------------------------------------------------------------------------
(* urlUtils.                                                               *)

DefaultPort(scheme) == IF scheme = "https" THEN 443 ELSE 80

\* What stands in the input: a prefix, a host, and a port if one is shown.
Text(prefix, host, port) == [prefix |-> prefix, host |-> host, port |-> port]

\* What a user types for an address.
Typed(a) ==
    Text(IF a.scheme = "https" THEN "https://" ELSE "http://", a.host, a.port)

\* formatPiholeUrl: the scheme is put in front of the host as it is.
Format(a) ==
    IF a.port # DefaultPort(a.scheme) THEN Text(a.scheme, a.host, a.port)
    ELSE IF a.scheme = "http" THEN Text("", a.host, None)
    ELSE Text(a.scheme, a.host, None)

\* parsePiholeUrl: without "://" the scheme is http and the rest is the host.
Parse(t) ==
    LET explicit == t.prefix \in {"http://", "https://"}
        scheme == IF t.prefix = "https://" THEN "https" ELSE "http"
    IN [scheme |-> scheme,
        host |-> IF explicit \/ t.prefix = "" THEN t.host ELSE <<t.prefix, t.host[2]>>,
        port |-> IF t.port = None THEN DefaultPort(scheme) ELSE t.port]

NoText == Text("", None, None)
Fields(url, password) == [url |-> url, password |-> password]
Inputs == {Fields(Typed(c[1]), c[2]) : c \in Contents}

\* What the form may show.
AnyFields ==
    Inputs \cup {Fields(NoText, Blank)}
           \cup {Fields(Format(a), p) : a \in Addresses, p \in Passwords}

FormAssumption ==
    /\ \A a \in Addresses :
        a \in [scheme : {"http", "https"}, host : {a.host}, port : Nat]
    /\ Blank \in Passwords /\ Trim \in [Passwords -> Passwords]
    /\ \A p \in Passwords : Trim[Trim[p]] = Trim[p]
    /\ Contents \cup Accepts \subseteq Addresses \X Passwords
    /\ IsFiniteSet(Saves) /\ "test" \notin Saves
    /\ None \notin Addresses \cup AnyFields
    /\ MaxTroubles \in Nat

Config(a, p) == [address |-> a, password |-> p]

\* AddPiholeNode and UpdatePiholeNode store a password without the blanks around it.
Stored(config) == [config EXCEPT !.password = Trim[@]]

\* A node that was stored by some client of the API.
Rows == {Stored(Config(c[1], c[2])) : c \in {a \in Accepts : Trim[a[2]] # Blank}}

\* testKey: trimmed.
Key(fields) == [fields EXCEPT !.password = Trim[@]]

\* The patch of a form, and of a test of it: each part of the address that
\* differs from the node it was opened for, and a password unless it is blank;
\* merged with the row.
Merge(stored, original, fields) ==
    LET typed == Parse(fields.url)
        Part(k) == IF typed[k] # original[k] THEN typed[k] ELSE stored.address[k]
    IN Config([scheme |-> Part("scheme"), host |-> Part("host"), port |-> Part("port")],
              IF Trim[fields.password] # Blank THEN fields.password ELSE stored.password)

-----------------------------------------------------------------------------
(* The form.                                                               *)

Closed == [mode |-> "closed", original |-> None, fields |-> Fields(NoText, Blank),
           lastKey |-> None, lastOK |-> FALSE, allowSaveAnyway |-> FALSE]
NoRun == [at |-> "idle", fields |-> Fields(NoText, Blank), original |-> None,
          cfg |-> None, basis |-> None]

Init ==
    /\ row \in {None} \cup Rows
    /\ form = Closed
    /\ run = [c \in Clicks |-> NoRun]
    /\ open = 0
    /\ passed = None
    /\ failed = FALSE
    /\ saved = "nothing"
    /\ others = 0
    /\ faults = 0

Still == UNCHANGED <<row, open, others, faults>>

\* A dialog is opened: to add a node or to edit the one there is.  The model
\* opens it when no click of an earlier one is under way, and no second time
\* for an address that parsePiholeUrl made up.
OpenDialog ==
    /\ form.mode = "closed"
    /\ row # None => row.address \in Addresses
    /\ \A c \in Clicks : run[c].at = "idle"
    /\ form' = IF row = None THEN [Closed EXCEPT !.mode = "create"]
               ELSE [Closed EXCEPT !.mode = "edit", !.original = row.address,
                                   !.fields.url = Format(row.address)]
    /\ passed' = None
    /\ failed' = FALSE
    /\ saved' = "nothing"
    /\ others' = 0
    /\ UNCHANGED <<row, run, open, faults>>

\* props.submitting
Submitting == \E c \in Clicks : run[c].at = "saving"

\* Closing the dialog stops no click that is under way.
Cancel ==
    /\ form.mode # "closed" /\ ~Submitting
    /\ form' = Closed
    /\ Still /\ UNCHANGED <<run, passed, failed, saved>>

Type ==
    /\ form.mode # "closed" /\ ~Submitting
    /\ \/ \E f \in Inputs : form' = [form EXCEPT !.fields = f]
       \/ form.mode = "edit" /\ \E p \in Passwords :
            form' = [form EXCEPT !.fields = Fields(Format(form.original), p)]
    /\ Still /\ UNCHANGED <<run, passed, failed, saved>>

\* History: what a save without a test of its own goes by.
Basis ==
    IF passed = None THEN "untested"
    ELSE IF passed = form.fields THEN "tested"
    ELSE IF Key(passed) = Key(form.fields) THEN "blanks" ELSE "untested"

Start(c, at) ==
    run' = [run EXCEPT ![c] = [at |-> at, fields |-> form.fields,
                               original |-> form.original, cfg |-> None,
                               basis |-> IF at = "saving" THEN Basis ELSE None]]

Filled ==
    /\ form.fields.url # NoText
    /\ form.mode = "create" => Trim[form.fields.password] # Blank

TestPoint == IF form.mode = "create" THEN "login" ELSE "node"

\* testConnection
ClickTest ==
    /\ form.mode # "closed" /\ ~Submitting /\ Filled
    /\ run["test"].at = "idle"
    /\ Start("test", TestPoint)
    /\ Still /\ UNCHANGED <<form, passed, failed, saved>>

\* The key is not compared.
NeedsRetestOnce == form.mode = "create" \/ ~form.lastOK

NeedsRetest ==
    form.mode = "create" \/ Key(form.fields) # form.lastKey \/ ~form.lastOK

\* handleSubmit: test first, or go on to the save at once.
ClickSave(c) ==
    /\ form.mode # "closed" /\ ~Submitting /\ Filled
    /\ run[c].at = "idle"
    /\ Start(c, IF NeedsRetest /\ ~form.allowSaveAnyway THEN TestPoint ELSE "saving")
    /\ Still /\ UNCHANGED <<form, passed, failed, saved>>

-----------------------------------------------------------------------------
(* The test at the server: TestInstanceConnection, TestExistingConnection. *)

\* The client is built from cfg, which is not needed once it has been used.
Goes(c, at) == run' = [run EXCEPT ![c].at = at, ![c].cfg = None]

\* GetPiholeNode
ReadNode(c) ==
    /\ run[c].at = "node"
    /\ run' = [run EXCEPT ![c].at = "secret", ![c].cfg = Config(row.address, Blank)]
    /\ Still /\ UNCHANGED <<form, passed, failed, saved>>

\* GetPiholeNodeSecret, then the overrides are merged.
ReadSecret(c) ==
    /\ run[c].at = "secret"
    /\ run' = [run EXCEPT
                ![c].at = "login",
                ![c].cfg = Merge(Config(@.address, row.password), run[c].original,
                                 run[c].fields)]
    /\ Still /\ UNCHANGED <<form, passed, failed, saved>>

\* What is tested: a new node's fields as they are, or the merged ones.
Tested(c) ==
    IF run[c].original = None
    THEN Config(Parse(run[c].fields.url), run[c].fields.password)
    ELSE run[c].cfg

Accepted(c) == <<Tested(c).address, Tested(c).password>> \in Accepts

\* Client.Login; its answer may be lost after the Pi-hole opened a session.
LoginAccepted(c) ==
    /\ run[c].at = "login" /\ Accepted(c)
    /\ open' = open + 1
    /\ \/ Goes(c, "logout") /\ UNCHANGED faults
       \/ Goes(c, "error") /\ others + faults < MaxTroubles /\ faults' = faults + 1
    /\ UNCHANGED <<row, form, others, passed, failed, saved>>

LoginFails(c) ==
    /\ run[c].at = "login"
    /\ ~Accepted(c) \/ others + faults < MaxTroubles
    /\ faults' = IF Accepted(c) THEN faults + 1 ELSE faults
    /\ Goes(c, "error")
    /\ UNCHANGED <<row, form, open, others, passed, failed, saved>>

\* The session was reset before its SID was read: nothing to log out.
ClosedByLogoutLate == 0

ClosedByLogout == 1

\* Client.Logout, with the SID taken before the session is reset; an error is
\* logged and the test has passed all the same.
Logout(c) ==
    /\ run[c].at = "logout"
    /\ Goes(c, "ok")
    /\ \/ open' = open - ClosedByLogout /\ UNCHANGED faults
       \/ others + faults < MaxTroubles /\ faults' = faults + 1 /\ UNCHANGED open
    /\ UNCHANGED <<row, form, others, passed, failed, saved>>

-----------------------------------------------------------------------------
(* Back in the form; setState has no effect once it is closed.             *)

InForm(f) == IF form.mode = "closed" THEN form ELSE f

TestPasses(c) ==
    /\ run[c].at = "ok"
    /\ run' = [run EXCEPT ![c] = IF c = "test" THEN NoRun
                                ELSE [@ EXCEPT !.at = "saving", !.basis = "tested"]]
    /\ form' = InForm([form EXCEPT !.lastKey = Key(run[c].fields), !.lastOK = TRUE,
                                   !.allowSaveAnyway = (c # "test" /\ @)])
    /\ passed' = run[c].fields
    /\ Still /\ UNCHANGED <<failed, saved>>

TestErrs(c) ==
    /\ run[c].at = "error"
    /\ run' = [run EXCEPT ![c] = NoRun]
    /\ form' = InForm([form EXCEPT !.lastKey = Key(run[c].fields), !.lastOK = FALSE,
                                   !.allowSaveAnyway = TRUE])
    /\ failed' = TRUE
    /\ Still /\ UNCHANGED <<passed, saved>>

\* The body of the POST, or the row that the body of the PATCH asks for.
Sent(c) ==
    IF row = None THEN Config(Parse(run[c].fields.url), run[c].fields.password)
    ELSE Merge(row, run[c].original, run[c].fields)

\* History: what a save goes by, and whether it stores what was tested.
SavedBy(c) ==
    IF saved # "nothing" THEN "again"
    ELSE IF run[c].basis = "tested" /\ Stored(Sent(c)) # Sent(c) THEN "trimmed"
    ELSE run[c].basis

\* The POST or PATCH is served: the row is written and the dialog closes.
SaveServed(c) ==
    /\ run[c].at = "saving"
    /\ (run[c].original = None) = (row = None)
    /\ row' = Stored(Sent(c))
    /\ saved' = SavedBy(c)
    /\ run' = [run EXCEPT ![c] = NoRun]
    /\ form' = Closed
    /\ UNCHANGED <<open, others, faults, passed, failed>>

\* It fails (the address is taken, the request is lost): the dialog stays.
SaveFails(c) ==
    /\ run[c].at = "saving"
    /\ run' = [run EXCEPT ![c] = NoRun]
    /\ Still /\ UNCHANGED <<form, passed, failed, saved>>

\* Somebody else edits the node.
EditedByOther ==
    /\ row # None /\ others + faults < MaxTroubles
    /\ row' \in Rows \ {row}
    /\ others' = others + 1
    /\ UNCHANGED <<form, run, open, passed, failed, saved, faults>>

Testing(c) ==
    \/ ReadNode(c) \/ ReadSecret(c) \/ LoginAccepted(c) \/ LoginFails(c) \/ Logout(c)
    \/ TestPasses(c) \/ TestErrs(c)

Next ==
    \/ OpenDialog \/ Cancel \/ Type \/ ClickTest \/ EditedByOther
    \/ \E c \in Saves : ClickSave(c) \/ SaveServed(c) \/ SaveFails(c)
    \/ \E c \in Clicks : Testing(c)

Spec == Init /\ [][Next]_vars

-----------------------------------------------------------------------------
(* Properties.                                                             *)

Hosts == {a.host : a \in Addresses}
AnyAddress == [scheme : {"http", "https"},
               host : Hosts \cup {<<"http", h[2]>> : h \in Hosts}
                            \cup {<<"https", h[2]>> : h \in Hosts},
               port : Nat]
TypeOK ==
    /\ row = None \/ row \in [address : AnyAddress, password : {p \in Passwords : Trim[p] = p}]
    /\ form.mode \in {"closed", "create", "edit"} /\ form.fields \in AnyFields
    /\ form.original \in Addresses \cup {None}
    /\ \A c \in Clicks :
        /\ run[c].at \in {"idle", "node", "secret", "login", "logout", "ok", "error", "saving"}
        /\ run[c].fields \in AnyFields
    /\ passed = None \/ passed \in AnyFields
    /\ failed \in BOOLEAN /\ open \in Nat
    /\ saved \in {"nothing", "tested", "trimmed", "blanks", "untested", "again"}
    /\ others \in 0..MaxTroubles /\ faults \in 0..MaxTroubles

\* What is saved has passed a test in this form, up to blanks around the
\* password, or a test in this form has failed: "Save Anyway".
SavedAfterTest ==
    \A c \in Saves : run[c].at = "saving" =>
        \/ failed
        \/ run[c].basis = "tested"
        \/ run[c].basis = "blanks" /\ run[c].original # None

\* The first save of a dialog, if it is of exactly what was tested, leaves a
\* node that its Pi-hole accepts, unless somebody else edited it meanwhile, or
\* the password was tested with blanks around it and stored without them: the
\* Pi-hole may refuse that one.
TestedNodeWorks ==
    saved = "tested" /\ others = 0 => <<row.address, row.password>> \in Accepts

FormSafe == TypeOK /\ SavedAfterTest /\ TestedNodeWorks

\* A test leaves no session behind at a Pi-hole, whatever it is interrupted
\* by, but one per answer that was lost.
TestsLeaveNoSession ==
    open <= faults + Cardinality({c \in Clicks : run[c].at = "logout"})

\* "https://host:443 -> "https://host"", "custom ports -> "scheme//host:port"":
\* the dialog shows the address of the node, so that a user who leaves it as
\* it is saves the address that was there.
UntouchedAddressKept ==
    \A c \in Saves :
        LET original == run[c].original
        IN run[c].at = "saving" /\ original # None /\ run[c].fields.url = Format(original)
              => Parse(run[c].fields.url) = original
=============================================================================
