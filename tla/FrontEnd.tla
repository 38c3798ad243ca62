------------------------------ MODULE FrontEnd ------------------------------
(***************************************************************************)
(* Four components of the front end side by side: the tab's event client,  *)
(* which this module extends, and the health view, the dialog that edits a *)
(* node, and the pages of login and setup, which it instantiates.  They    *)
(* share no state and are not composed: a behaviour chooses one of Parts   *)
(* and only that part ever moves, so what is shown of a part here is what      *)
(* would be shown of its own specification.                                *)
(***************************************************************************)
EXTENDS SseClient

CONSTANTS
    Parts,                                                          \* those that move
    Nodes, MaxAge, Cap, MayPanic,                                   \* HealthView
    Addresses, Passwords, Contents, Trim, Blank, Accepts, Saves,    \* NodeForm
    MaxTroubles,
    Effects, Asked,                                                 \* SetupPages
    None                                                            \* all three

VARIABLES part,
    members, known, nodeHealth, summary, sweep, connected, queue, get, view,
    row, form, run, open, passed, failed, saved, others, faults,
    account, status, session, path, user, loadingUser, public, publicLoading,
    full, fullLoading, gets, setup, seen, spoilt, trouble

Page == INSTANCE HealthView
Dialog == INSTANCE NodeForm
Pages == INSTANCE SetupPages

ASSUME FrontEndAssumption ==
    /\ Parts \subseteq {"tab", "page", "dialog", "pages"}
    /\ SseAssumption
    /\ Page!ViewAssumption
    /\ Dialog!FormAssumption
    /\ Pages!PagesAssumption

tab == <<mounted, es, attachedTopics, timer, leftover>>
page == <<members, known, nodeHealth, summary, sweep, connected, queue, get, view>>
dialog == <<row, form, run, open, passed, failed, saved, others, faults>>
pages == <<account, status, session, path, user, loadingUser, public,
           publicLoading, full, fullLoading, gets, setup, seen, spoilt, trouble>>
allVars == <<part, tab, page, dialog, pages>>

\* The parts that stay where they are begin in one of their initial states.
PartsInit ==
    /\ part \in Parts
    /\ Init /\ Page!Init /\ Dialog!Init /\ Pages!Init
    /\ part # "page" => members = {}
    /\ part # "dialog" => row = None
    /\ part # "pages" => ~account /\ path = "/"

PartsNext ==
    \/ part = "tab" /\ Next /\ UNCHANGED <<part, page, dialog, pages>>
    \/ part = "page" /\ Page!Next /\ UNCHANGED <<part, tab, dialog, pages>>
    \/ part = "dialog" /\ Dialog!Next /\ UNCHANGED <<part, tab, page, pages>>
    \/ part = "pages" /\ Pages!Next /\ UNCHANGED <<part, tab, page, dialog>>

PartsSpec == PartsInit /\ [][PartsNext]_allVars

-----------------------------------------------------------------------------
(* Properties.                                                             *)

\* The properties of the three modules instantiated, each an invariant to be
\* checked only where its part moves.

\* HealthView: what the API and a page show of the nodes' health is that of the
\* last sweep, but for nodes that left or whose worker panicked.
HealthSafe == part = "page" => Page!HealthSafe

\* HealthView: a page's view goes back only by the answers of its first GETs.
GoesBackOnlyAtFirstGet == Page!GoesBackOnlyAtFirstGet

\* NodeForm: what a save of the dialog writes was tested, and works unless the
\* store drops blanks around the password that was tested.
FormSafe == part = "dialog" => Dialog!FormSafe

\* NodeForm: a connection test that has ended leaves no session behind.
TestsLeaveNoSession == part = "dialog" => Dialog!TestsLeaveNoSession

\* NodeForm: an address that the user leaves alone stays the node's.
UntouchedAddressKept == part = "dialog" => Dialog!UntouchedAddressKept

\* SetupPages: the browser ends up on the page the server's state calls for.
SetupSafe == part = "pages" => Pages!SetupSafe
=============================================================================
