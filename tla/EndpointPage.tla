---------------------------- MODULE EndpointPage ----------------------------
(* The endpoints screen: the endpoints of the API, the endpoints store, the    *)
(* rows with their actions, and the dialogs.  Another owner edits endpoints    *)
(* and a worker disables them while requests of the page are under way.        *)
EXTENDS EndpointForm, SequencedRequest

CONSTANTS
    Endpoints, NoEndpoint,
    Projects, NoProject,
    GuardedUrls,    \* URLs the guard of the API refuses
    MaxWire,        \* endpoint.disabled events on their way
    MaxEdits,       \* edits: of the form, of the other owner, and of workers
    MaxCalls        \* requests the operator causes

VARIABLES
    endpoints,      \* the rows of the database
    pushed,         \* endpoint.disabled events: ids
    role,           \* the role of the operator in the projects
    route,          \* the project of the URL
    endpointStore,  \* [items, loaded]
    view,           \* [form, busy, reveal, deleteTarget, deleting, offer]
    gate, listRequest, calls, begun,
    edits, theirs, strays   \* history, see the properties

endpointVars == <<endpoints, pushed, role, route, endpointStore, view, gate, listRequest, calls,
                  begun, edits, theirs, strays>>

Existing == {e \in Endpoints : endpoints[e].project # NoProject}
NoSecret == 0
Idle == [id |-> NoEndpoint, action |-> ""]
NoTarget == [id |-> NoEndpoint, status |-> ""]
Defaults == [description |-> "", rate |-> CHOOSE r \in Rates : TRUE, eventTypes |-> <<>>,
             url |-> ""]
None == [f \in {} |-> ""]
NoForm == [target |-> NoEndpoint]
Untouched == [f \in Fields |-> {}]

\* What the patch names is written into the row, the rest of the row is kept.
Merged(patch, row) ==
    [f \in DOMAIN patch \cup DOMAIN row |-> IF f \in DOMAIN patch THEN patch[f] ELSE row[f]]

endpointView(e) == Merged([id |-> e], [endpoints[e] EXCEPT !.secret = NoSecret])

\* The plaintext secret is returned once and is not kept in the store.
stripSecret(body) == [body EXCEPT !.secret = NoSecret]
-----------------------------------------------------------------------------
(* The API: what a call does to the rows, and its answer *)

Serves(c, row, body) ==
    /\ endpoints' = [endpoints EXCEPT ![c.id] = row]
    /\ \E at \in {"ok", "lost"} :
          calls' = (calls \ {c}) \cup {[c EXCEPT !.at = at, !.body = {body}]}

Refuses(c) ==
    /\ calls' = (calls \ {c}) \cup {[c EXCEPT !.at = "refused"]}
    /\ UNCHANGED endpoints

\* The routes of an endpoint.  A call that is not served at all fails.
serve(c) ==
    LET row == endpoints[c.id]
        patched == Merged(c.patch, row)
        after == CASE c.kind \in {"update", "create"} -> patched
                   [] c.kind = "enable"  -> [row EXCEPT !.status = "ACTIVE"]
                   [] c.kind = "disable" -> [row EXCEPT !.status = "DISABLED"]
                   [] c.kind = "rotate"  -> [row EXCEPT !.secret = @ + 1]
                   [] c.kind = "test"    -> [row EXCEPT !.history = TRUE]
                   [] c.kind = "delete"  -> [row EXCEPT !.project = NoProject]
        shown == Merged([id |-> c.id], after)
    IN  /\ c.kind # "list" /\ c.at = "sent" /\ c.id \in Existing
        /\ IF \/ c.kind = "delete" /\ row.history
              \/ c.kind = "update" /\ patched.url \in GuardedUrls
           THEN Refuses(c)
           ELSE Serves(c, after, IF c.kind = "rotate" THEN shown ELSE stripSecret(shown))

\* A new endpoint, with a secret that only this answer shows.
serveCreate(c) ==
    /\ c.kind = "create" /\ c.at = "sent" /\ c.id \notin Existing
    /\ IF c.patch.url \in GuardedUrls THEN Refuses(c)
       ELSE LET new == [project |-> c.project, status |-> "ACTIVE", secret |-> 1, history |-> FALSE]
                row == Merged(c.patch, Merged(Defaults, new))
            IN  Serves(c, row, Merged([id |-> c.id], row))

serveList(c) ==
    /\ c.kind = "list" /\ c.at = "sent"
    /\ calls' = (calls \ {c}) \cup
          {[c EXCEPT !.at = "ok",
                     !.body = {endpointView(e) : e \in {d \in Existing :
                                                        endpoints[d].project = c.project}}]}
    /\ UNCHANGED endpoints

Serving(c) ==
    /\ serve(c) \/ serveCreate(c) \/ serveList(c)
    /\ UNCHANGED <<pushed, role, route, endpointStore, view, gate, listRequest, begun, edits,
                   theirs, strays>>

\* What another owner writes, in a form of the dashboard or by a call of the API, which
\* stores a description as it is sent.
OtherEdits == [url |-> Urls \ GuardedUrls, description |-> {"", "text"},
               eventTypes |-> {<<>>} \cup {<<t>> : t \in Types}, rate |-> Rates]

\* Another owner changes one field of an endpoint.
otherOwner(e, field, value) ==
    /\ e \in Existing /\ edits < MaxEdits /\ edits' = edits + 1
    /\ endpoints[e][field] # value
    /\ endpoints' = [endpoints EXCEPT ![e][field] = value]
    /\ theirs' = IF view.form.target = e THEN [theirs EXCEPT ![field] = {value}] ELSE theirs
    /\ UNCHANGED <<pushed, role, route, endpointStore, view, gate, listRequest, calls, begun, strays>>

\* A worker disables an endpoint that failed too often, and the event may reach the page.
workerDisables(e) ==
    /\ e \in Existing /\ endpoints[e].status = "ACTIVE"
    /\ edits < MaxEdits /\ edits' = edits + 1
    /\ endpoints' = [endpoints EXCEPT ![e].status = "DISABLED"]
    /\ pushed' = IF Cardinality(pushed) < MaxWire THEN pushed \cup {e} ELSE pushed
    /\ UNCHANGED <<role, route, endpointStore, view, gate, listRequest, calls, begun, theirs, strays>>
-----------------------------------------------------------------------------
(* The store *)

upsert(items, endpoint) == {i \in items : i.id # endpoint.id} \cup {endpoint}
reset == [items |-> {}, loaded |-> NoProject]

Call(kind, id, project, patch, seq, mine) ==
    [kind |-> kind, id |-> id, project |-> project, patch |-> patch, seq |-> seq, mine |-> mine,
     at |-> "sent", body |-> {}]

\* load: what is loaded is kept, unless the load is forced.
load(store, project, force) ==
    /\ endpointStore' = store
    /\ IF ~force /\ store.loaded = project /\ store.items # {}
       THEN UNCHANGED <<gate, listRequest, calls, begun>>
       ELSE /\ gate' = claimed(gate)
            /\ listRequest' = started(listRequest)
            /\ calls' = calls \cup {Call("list", NoEndpoint, project, None, gate',
                                         listRequest'.ownSeq)}
            /\ begun' = begun + 1

\* load, after the request.  A failed one leaves the items; the view shows the error.
loaded(c) ==
    /\ c.kind = "list"
    /\ calls' = calls \ {c}
    /\ listRequest' = settled(listRequest, c, gate, c.at = "sent")
    /\ IF isCurrent(c, gate) /\ c.at = "ok"
       THEN /\ endpointStore' = [items |-> c.body, loaded |-> c.project]
            /\ strays' = {}
       ELSE UNCHANGED <<endpointStore, strays>>
    /\ UNCHANGED <<endpoints, pushed, role, route, view, gate, begun, edits, theirs>>

Body(c) == CHOOSE body \in c.body : TRUE

\* An action of the store, after its request: the row of the answer replaces the row of
\* the list, whichever project the list is of by now.
Stored(c) ==
    IF c.at # "ok" \/ c.kind = "test" THEN UNCHANGED <<endpointStore, strays>>
    ELSE IF c.kind = "delete"
    THEN /\ endpointStore' = [endpointStore EXCEPT !.items = {i \in @ : i.id # c.id}]
         /\ UNCHANGED strays
    ELSE /\ endpointStore' = [endpointStore EXCEPT !.items = upsert(@, stripSecret(Body(c)))]
         /\ strays' = IF Body(c).project = route THEN strays ELSE strays \cup {c.id}

\* The endpoint.disabled event changes a row that is there.
markDisabled(e) ==
    /\ e \in pushed /\ pushed' = pushed \ {e}
    /\ endpointStore' = [endpointStore EXCEPT !.items =
          {IF i.id = e THEN [i EXCEPT !.status = "DISABLED"] ELSE i : i \in @}]
    /\ UNCHANGED <<endpoints, role, route, view, gate, listRequest, calls, begun, edits, theirs,
                   strays>>
-----------------------------------------------------------------------------
(* The view *)

isOwner == role = "OWNER"
Modal == view.form # NoForm \/ view.reveal # NoSecret \/ view.deleteTarget # NoTarget

\* The buttons of a row; only the action under way on this row is inert.
Offered(item) ==
    {a \in {"test", "rotate", "enable", "disable"} :
        /\ a = "test" \/ isOwner
        /\ a = "enable" => item.status = "DISABLED"
        /\ a = "disable" => item.status = "ACTIVE"
        /\ view.busy # [id |-> item.id, action |-> a]}

\* withBusy: enableEndpoint, disableEndpoint, sendTest and rotateSecret, up to the request.
withBusy(id, action) ==
    /\ begun < MaxCalls /\ begun' = begun + 1
    /\ view' = [view EXCEPT !.busy = [id |-> id, action |-> action]]
    /\ calls' = calls \cup {Call(action, id, route, None, 0, begun')}
    /\ UNCHANGED <<endpoints, pushed, role, route, endpointStore, gate, listRequest, edits, theirs,
                   strays>>

rowAction(item, action) == ~Modal /\ action \in Offered(item) /\ withBusy(item.id, action)

\* The notice of a refused delete offers to disable the endpoint instead.
noticeAction ==
    /\ view.offer # NoEndpoint /\ ~Modal
    /\ view.busy # [id |-> view.offer, action |-> "disable"]
    /\ withBusy(view.offer, "disable")

\* After the request: a notice, or the dialog with the new secret.  busy is cleared
\* whichever row it stands for by now.
actionDone(c) ==
    /\ c.kind \in {"test", "rotate", "enable", "disable"}
    /\ calls' = calls \ {c}
    /\ Stored(c)
    /\ view' = [view EXCEPT !.busy = Idle,
                            !.reveal = IF c.kind = "rotate" /\ c.at = "ok" THEN Body(c).secret ELSE @,
                            !.offer = IF c.kind = "rotate" /\ c.at = "ok" THEN @ ELSE NoEndpoint]
    /\ UNCHANGED <<endpoints, pushed, role, route, gate, listRequest, begun, edits, theirs>>

Shows(v) ==
    /\ view' = v
    /\ UNCHANGED <<endpoints, pushed, role, route, endpointStore, gate, listRequest, calls, begun,
                   edits, theirs, strays>>

askDelete(item) ==
    /\ ~Modal /\ isOwner
    /\ Shows([view EXCEPT !.deleteTarget = [id |-> item.id, status |-> item.status]])

keepIt == view.deleteTarget # NoTarget /\ ~view.deleting
          /\ Shows([view EXCEPT !.deleteTarget = NoTarget])

confirmDelete ==
    /\ view.deleteTarget # NoTarget /\ ~view.deleting
    /\ begun < MaxCalls /\ begun' = begun + 1
    /\ view' = [view EXCEPT !.deleting = TRUE]
    /\ calls' = calls \cup {Call("delete", view.deleteTarget.id, route, None, 0, begun')}
    /\ UNCHANGED <<endpoints, pushed, role, route, endpointStore, gate, listRequest, edits, theirs,
                   strays>>

deleted(c) ==
    /\ c.kind = "delete"
    /\ calls' = calls \ {c}
    /\ Stored(c)
    /\ view' = [view EXCEPT !.deleting = FALSE, !.deleteTarget = NoTarget,
                            !.offer = IF c.at = "refused" /\ view.deleteTarget.status = "ACTIVE"
                                      THEN c.id ELSE NoEndpoint]
    /\ UNCHANGED <<endpoints, pushed, role, route, gate, listRequest, begun, edits, theirs>>

acknowledge == view.reveal # NoSecret /\ Shows([view EXCEPT !.reveal = NoSecret])
-----------------------------------------------------------------------------
(* The dialog of the form *)

isEdit == view.form.target \in Endpoints
Values(item) == [f \in Fields |-> item[f]]

OpenForm(form) ==
    /\ ~Modal /\ isOwner
    /\ view' = [view EXCEPT !.form = form]
    /\ theirs' = Untouched
    /\ UNCHANGED <<endpoints, pushed, role, route, endpointStore, gate, listRequest, calls, begun,
                   edits, strays>>

openCreate == OpenForm(opened("new", [Defaults EXCEPT !.rate = ""]))
openEdit(item) == OpenForm(opened(item.id, Values(item)))
closeForm == view.form # NoForm /\ ~view.form.submitting /\ Shows([view EXCEPT !.form = NoForm])

\* The operator types into a field or the draft, adds the draft, or removes a chip.
Typing(form) ==
    /\ edits < MaxEdits /\ edits' = edits + 1
    /\ view' = [view EXCEPT !.form = form]
    /\ UNCHANGED <<endpoints, pushed, role, route, endpointStore, gate, listRequest, calls, begun,
                   theirs, strays>>

editForm ==
    /\ view.form # NoForm
    /\ \/ \E f \in DOMAIN Inputs : \E v \in Inputs[f] : Typing(typed(view.form, f, v))
       \/ \E draft \in Drafts : Typing(addFromDraft(typedDraft(view.form, draft)))
       \/ \E k \in DOMAIN view.form.values.eventTypes : Typing(removeEventType(view.form, k))

\* submit: the draft first, then the checks of the form, then the call.
submit ==
    LET added == addFromDraft(view.form)
        checked == [added EXCEPT !.formError = FALSE, !.errors = validate(added)]
    IN  /\ view.form # NoForm /\ ~view.form.submitting /\ hasChanges(view.form, isEdit)
        /\ begun < MaxCalls
        /\ IF added.draftError \/ checked.errors # {}
           THEN /\ view' = [view EXCEPT !.form = IF added.draftError THEN added ELSE checked]
                /\ UNCHANGED <<calls, begun>>
           ELSE /\ view' = [view EXCEPT !.form = [checked EXCEPT !.submitting = TRUE]]
                /\ begun' = begun + 1
                /\ \E id \in IF isEdit THEN {view.form.target} ELSE Endpoints \ Existing :
                      calls' = calls \cup
                         {IF isEdit THEN Call("update", id, route, buildPatch(checked), 0, begun')
                          ELSE Call("create", id, route, buildCreateBody(checked), 0, begun')}
        /\ UNCHANGED <<endpoints, pushed, role, route, endpointStore, gate, listRequest, edits,
                       theirs, strays>>

\* After the request: onCreated shows the secret, onUpdated a notice, and both close the
\* form; an error goes to a field or to the form.
submitted(c) ==
    /\ c.kind \in {"create", "update"}
    /\ calls' = calls \ {c}
    /\ Stored(c)
    /\ view' = IF c.at = "ok"
               THEN [view EXCEPT !.form = NoForm,
                                 !.reveal = IF c.kind = "create" THEN Body(c).secret ELSE @,
                                 !.offer = IF c.kind = "update" THEN NoEndpoint ELSE @]
               ELSE [view EXCEPT !.form = applyServerError([@ EXCEPT !.submitting = FALSE],
                                             IF c.at = "refused" THEN {"url"} ELSE {})]
    /\ UNCHANGED <<endpoints, pushed, role, route, gate, listRequest, begun, edits, theirs>>
-----------------------------------------------------------------------------
(* Navigation *)

\* Another project: AppShell resets the store, the view drops its notice and loads.
navigate(project) ==
    /\ project # route /\ route' = project /\ begun < MaxCalls
    /\ load(reset, project, FALSE)
    /\ view' = [view EXCEPT !.offer = NoEndpoint]
    /\ strays' = {}
    /\ UNCHANGED <<endpoints, pushed, role, edits, theirs>>

\* "Try again", offered when a load failed and no row is there.
retry ==
    /\ listRequest.error /\ ~listRequest.loading /\ endpointStore.items = {} /\ begun < MaxCalls
    /\ load(endpointStore, route, TRUE)
    /\ UNCHANGED <<endpoints, pushed, role, route, view, edits, theirs, strays>>

\* The screen is opened, with the store empty or as a run of another screen has loaded it.
EndpointInit ==
    /\ role \in {"OWNER", "MEMBER"}
    /\ route \in Projects
    /\ \E there \in SUBSET Endpoints, history \in BOOLEAN, description \in Descriptions :
          /\ Cardinality(there) = Cardinality(Endpoints) - 1
          /\ endpoints = [e \in Endpoints |->
                Merged([Defaults EXCEPT !.url = CHOOSE u \in Urls \ GuardedUrls : TRUE,
                                        !.description = description],
                       [project |-> IF e \in there THEN route ELSE NoProject, status |-> "ACTIVE",
                        secret |-> 1, history |-> history])]
    /\ pushed = {}
    /\ view = [form |-> NoForm, busy |-> Idle, reveal |-> NoSecret, deleteTarget |-> NoTarget,
               deleting |-> FALSE, offer |-> NoEndpoint]
    /\ gate = 1 /\ begun = 1
    /\ \/ /\ endpointStore = reset /\ listRequest = started(Quiet)
          /\ calls = {Call("list", NoEndpoint, route, None, 1, 1)}
       \/ /\ endpointStore = [items |-> {endpointView(e) : e \in Existing}, loaded |-> route]
          /\ listRequest = [Quiet EXCEPT !.ownSeq = 1] /\ calls = {}
    /\ edits = 0 /\ theirs = Untouched /\ strays = {}

EndpointNext ==
    \/ \E c \in calls : Serving(c) \/ loaded(c) \/ actionDone(c) \/ deleted(c) \/ submitted(c)
    \/ \E e \in Endpoints : workerDisables(e) \/ markDisabled(e)
    \/ \E e \in Endpoints, f \in DOMAIN OtherEdits :
          \E v \in OtherEdits[f] : otherOwner(e, f, v)
    \/ \E item \in endpointStore.items :
          \/ \E a \in {"test", "rotate", "enable", "disable"} : rowAction(item, a)
          \/ askDelete(item) \/ openEdit(item)
    \/ noticeAction \/ keepIt \/ confirmDelete \/ acknowledge
    \/ openCreate \/ closeForm \/ editForm \/ submit \/ retry
    \/ \E project \in Projects : navigate(project)
-----------------------------------------------------------------------------
\* Whatever order lists arrive in, the rows of a list that is not being loaded are of the
\* project of the URL, except those an answer put there after the project was left.
RowsAreOfRoute ==
    ~listRequest.loading =>
        \A i \in endpointStore.items : i.project = route \/ i.id \in strays

\* Fields that the form compares, trimmed, with a text that is stored with white space
\* around it.
PaddedFields(form) == {f \in Fields : trimmed(form.was)[f] # form.was[f]}

\* EndpointFormDialog sends what differs from the endpoint as it was opened.  A field that
\* another owner changed while the form was open, and the operator never touched, keeps
\* the value of the other owner, whatever is submitted and however often; but for a text
\* that was stored with white space around it.
EditTouchesOnlyItsFields ==
    isEdit => \A f \in Fields \ (view.form.touched \cup PaddedFields(view.form)) :
                 theirs[f] \subseteq {endpoints[view.form.target][f]}
=============================================================================
