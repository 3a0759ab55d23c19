---------------------------- MODULE ManagedList ----------------------------
(* The members and the API keys of the settings screen: useManagedList, its    *)
(* two sections, and what their calls do at the API.  An item is a member or   *)
(* a key; the section says which.                                              *)
EXTENDS SequencedRequest, FiniteSets

CONSTANTS
    Items, Self,    \* members or keys; the operator as a member
    NoItem,
    Projects, NoProject,
    MaxCalls        \* requests the operator causes

VARIABLES
    section,        \* "members" or "keys"
    held,           \* [project -> [item -> "none", "held" or "revoked"]], in the database
    role,           \* the role of the operator
    route,          \* the project of the URL, NoProject once the operator has left
    list,           \* [rows, target, pending, actionError, adding, addError, reveal]
    gate, listRequest, calls, begun

listVars == <<section, held, role, route, list, gate, listRequest, calls, begun>>

isOwner == role = "OWNER"
Row(project, i) == [id |-> i, project |-> project, state |-> held[project][i]]
NoTarget == [id |-> NoItem, project |-> NoProject, state |-> "none"]

\* from is the project the row of the call was listed under, adds marks the load that
\* ends an add.
Call(kind, id, from, project, seq, mine, adds) ==
    [kind |-> kind, id |-> id, from |-> from, project |-> project, seq |-> seq, mine |-> mine,
     adds |-> adds, at |-> "sent", rows |-> {}]
-----------------------------------------------------------------------------
(* The API.  A call that is refused or lost fails; its effect may be there. *)

Answered(c, rows) ==
    \E at \in {"ok", "lost"} : calls' = (calls \ {c}) \cup {[c EXCEPT !.at = at, !.rows = rows]}

serveList(c) ==
    /\ c.kind = "list" /\ UNCHANGED held
    /\ Answered(c, {Row(c.project, i) : i \in {j \in Items : held[c.project][j] # "none"}})

\* addMember takes a registered account that is no member; a new key has a new id.
serveAdd(c) ==
    /\ c.kind = "add" /\ held[c.project][c.id] = "none"
    /\ held' = [held EXCEPT ![c.project][c.id] = "held"]
    /\ Answered(c, {})

\* removeMember deletes the membership; a user may be a member of both projects.
serveRemove(c) ==
    /\ c.kind = "drop" /\ section = "members" /\ held[c.project][c.id] = "held"
    /\ held' = [held EXCEPT ![c.project][c.id] = "none"]
    /\ Answered(c, {})

\* revoke marks the key, once, and answers with it; a key is of one project.
serveRevoke(c) ==
    /\ c.kind = "drop" /\ section = "keys" /\ held[c.project][c.id] # "none"
    /\ c.from = c.project
    /\ held' = [held EXCEPT ![c.project][c.id] = "revoked"]
    /\ Answered(c, {[Row(c.project, c.id) EXCEPT !.state = "revoked"]})

Serving(c) ==
    /\ c.at = "sent" /\ (serveList(c) \/ serveAdd(c) \/ serveRemove(c) \/ serveRevoke(c))
    /\ UNCHANGED <<section, role, route, list, gate, listRequest, begun>>
-----------------------------------------------------------------------------
(* useManagedList *)

load(project, others, adds) ==
    /\ gate' = claimed(gate)
    /\ listRequest' = started(listRequest)
    /\ calls' = others \cup {Call("list", NoItem, project, project, gate',
                                     listRequest'.ownSeq, adds)}

loaded(c) ==
    /\ c.kind = "list"
    /\ calls' = calls \ {c}
    /\ listRequest' = settled(listRequest, c, gate, c.at # "ok")
    /\ list' = [list EXCEPT !.rows = IF ~isCurrent(c, gate) THEN @
                                     ELSE IF c.at = "ok" THEN c.rows ELSE {},
                            !.adding = @ /\ ~c.adds]
    /\ UNCHANGED <<section, held, role, route, gate, begun>>

Modal == list.target # NoTarget \/ list.reveal

\* The table is there between loads; a revoked key has no button.
Tabled(row) ==
    /\ row \in list.rows /\ ~listRequest.loading /\ ~listRequest.error
    /\ isOwner /\ row.state = "held" /\ ~Modal

Shows(l) == list' = l /\ UNCHANGED <<section, held, role, route, gate, listRequest, calls, begun>>

ask(row) == Tabled(row) /\ Shows([list EXCEPT !.target = row, !.actionError = FALSE])
cancel == list.target # NoTarget /\ ~list.pending
          /\ Shows([list EXCEPT !.target = NoTarget, !.actionError = FALSE])

\* useApiAction, up to its await.
runAction(l, call) ==
    /\ begun < MaxCalls /\ begun' = begun + 1
    /\ list' = l /\ calls' = calls \cup {call}
    /\ UNCHANGED <<section, held, role, route, gate, listRequest>>

\* confirmRemove and confirmRevoke name the project of the URL, and the row of the
\* dialog, which stays open when the URL changes.
confirm ==
    /\ list.target # NoTarget /\ ~list.pending
    /\ runAction([list EXCEPT !.pending = TRUE, !.actionError = FALSE],
                 Call("drop", list.target.id, list.target.project, route, 0, begun', FALSE))

Closed(l) == [l EXCEPT !.pending = FALSE, !.target = NoTarget]

\* confirmRevoke, after the call: the revoked key replaces its row.
revoked(c) ==
    /\ c.at = "ok" /\ section = "keys"
    /\ list' = [Closed(list) EXCEPT !.rows =
          (@ \ {r \in @ : r.id = c.id /\ r.project = c.project})
              \cup {r \in c.rows : \E old \in @ : old.id = r.id /\ old.project = r.project}]
    /\ calls' = calls \ {c}
    /\ UNCHANGED <<route, gate, listRequest>>

\* confirmRemove, after the call: a member who removed himself leaves the project, the
\* removal of another reads the list again.
removed(c) ==
    /\ c.at = "ok" /\ section = "members"
    /\ list' = Closed(list)
    /\ IF c.id = Self THEN route' = NoProject /\ calls' = calls \ {c} /\ UNCHANGED <<gate, listRequest>>
       ELSE load(route, calls \ {c}, FALSE) /\ UNCHANGED route

\* A call that failed leaves the dialog open, with the error.
failed(c) ==
    /\ c.at # "ok"
    /\ list' = [list EXCEPT !.pending = FALSE, !.actionError = TRUE]
    /\ calls' = calls \ {c}
    /\ UNCHANGED <<route, gate, listRequest>>

confirmed(c) ==
    /\ c.kind = "drop" /\ (revoked(c) \/ removed(c) \/ failed(c))
    /\ UNCHANGED <<section, held, role, begun>>
-----------------------------------------------------------------------------
(* The sections *)

\* addMember and createKey: an empty name stays with the form.
add(i, empty) ==
    /\ isOwner /\ ~Modal /\ ~list.adding
    /\ IF empty THEN Shows([list EXCEPT !.addError = TRUE])
       ELSE runAction([list EXCEPT !.adding = TRUE, !.addError = FALSE],
                      Call("add", i, route, route, 0, begun', FALSE))

\* After it the list is read again, and a key is revealed; adding ends with that load.
added(c) ==
    /\ c.kind = "add"
    /\ IF c.at = "ok"
       THEN /\ list' = [list EXCEPT !.reveal = section = "keys"]
            /\ load(route, calls \ {c}, TRUE)
       ELSE /\ list' = [list EXCEPT !.adding = FALSE, !.addError = TRUE]
            /\ calls' = calls \ {c}
            /\ UNCHANGED <<gate, listRequest>>
    /\ UNCHANGED <<section, held, role, route, begun>>

dismissRevealedKey == list.reveal /\ Shows([list EXCEPT !.reveal = FALSE])

\* Another project, and "Try again" of a failed load.
navigate(project) ==
    /\ begun < MaxCalls /\ begun' = begun + 1
    /\ route # NoProject /\ (project # route \/ listRequest.error)
    /\ route' = project /\ load(project, calls, FALSE)
    /\ UNCHANGED <<section, held, role, list>>

ManagedInit ==
    /\ section \in {"members", "keys"}
    /\ role \in {"OWNER", "MEMBER"}
    /\ route \in Projects
    /\ held \in [Projects -> {[i \in Items |-> IF i = Self THEN "held" ELSE "none"],
                              [i \in Items |-> "held"]}]
    /\ list = [rows |-> {}, target |-> NoTarget, pending |-> FALSE, actionError |-> FALSE,
               adding |-> FALSE, addError |-> FALSE, reveal |-> FALSE]
    /\ gate = 1 /\ listRequest = started(Quiet) /\ begun = 1
    /\ calls = {Call("list", NoItem, route, route, 1, 1, FALSE)}

ManagedNext ==
    /\ route # NoProject
    /\ \/ \E c \in calls : Serving(c) \/ loaded(c) \/ confirmed(c) \/ added(c)
       \/ \E row \in list.rows : ask(row)
       \/ \E i \in Items, empty \in BOOLEAN : add(i, empty)
       \/ \E project \in Projects : navigate(project)
       \/ cancel \/ confirm \/ dismissRevealedKey

\* Whatever order lists arrive in, a table that is shown holds rows of the project of the
\* URL.
TableIsOfRoute ==
    route # NoProject /\ ~listRequest.loading => \A r \in list.rows : r.project = route
=============================================================================
