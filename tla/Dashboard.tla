------------------------------ MODULE Dashboard ------------------------------
(* The screens of the dashboard that read and change a project.  The operator  *)
(* has one screen open; the project in the URL may change under it (the menu   *)
(* of AppShell, the history of the browser).  Every screen has a request that  *)
(* reads what it shows, with a gate of its own (SequencedRequest).             *)
EXTENDS Naturals, FiniteSets

CONSTANTS
    Projects, NoProject,
    Ids, NoDelivery, Outcomes, Filters, PageSize,               \* deliveries
    Endpoints, NoEndpoint, Urls, GuardedUrls, Rates, Types, MaxTypes,
    Items, Self, NoItem,                                        \* members or keys
    MaxWire, MaxEdits, MaxCalls                                 \* bounds

\* The form tells an endpoint from none and from a new one.
ASSUME DashboardAssumption == Endpoints \cap {NoEndpoint, "new"} = {}

\* Ids are ordered as the database orders them, and a page has room for a row.
ASSUME ListAssumption ==
    Ids \subseteq Nat /\ IsFiniteSet(Ids) /\ PageSize \in Nat \ {0}

VARIABLES
    page,                                       \* the screen that is open
    route, gate, listRequest, calls, begun,     \* the URL and the requests of the screen
    role,                                       \* the role of the operator
    rows, wire, store, moreRequest, bulk, under, base, crossed, told, missed, \* deliveries
    panel,                                                                  \* one delivery
    endpoints, pushed, endpointStore, view, edits, theirs, strays,    \* endpoints
    section, held, list                                                     \* settings

screenVars == <<route, gate, listRequest, calls, begun>>
listOnly == <<wire, store, moreRequest, bulk, under, base, crossed, told, missed>>
endpointOnly == <<endpoints, pushed, endpointStore, view, edits, theirs, strays>>
managedOnly == <<section, held, list>>
vars == <<page, screenVars, role, rows, listOnly, panel, endpointOnly, managedOnly>>

Deliveries == INSTANCE DeliveryList
Detail == INSTANCE DeliveryDetail WITH detailRequest <- listRequest
EndpointsScreen == INSTANCE EndpointPage
Settings == INSTANCE ManagedList

\* The state of a screen that is not open.
Off == "closed"
ListOff ==
    /\ wire = Off /\ store = Off /\ moreRequest = Off /\ bulk = Off
    /\ under = Off /\ base = Off /\ crossed = Off /\ told = Off /\ missed = Off
EndpointsOff ==
    /\ endpoints = Off /\ pushed = Off /\ endpointStore = Off /\ view = Off
    /\ edits = Off /\ theirs = Off /\ strays = Off
SettingsOff == section = Off /\ held = Off /\ list = Off

\* The views of the router, each opened on a project.
Init ==
    \/ /\ page = "deliveries" /\ Deliveries!DeliveryInit
       /\ role = Off /\ panel = Off /\ EndpointsOff /\ SettingsOff
    \/ /\ page = "delivery"
       /\ \E i \in Ids : rows = [j \in Ids |-> [at |-> IF j = i THEN 0 ELSE 1,
                                                project |-> NoProject, status |-> "SUCCEEDED"]]
       /\ Detail!DetailInit
       /\ role = Off /\ ListOff /\ EndpointsOff /\ SettingsOff
    \/ /\ page = "endpoints" /\ EndpointsScreen!EndpointInit
       /\ rows = Off /\ panel = Off /\ ListOff /\ SettingsOff
    \/ /\ page = "settings" /\ Settings!ManagedInit
       /\ rows = Off /\ panel = Off /\ ListOff /\ EndpointsOff

Next ==
    \/ /\ page = "deliveries" /\ Deliveries!DeliveryNext
       /\ UNCHANGED <<page, role, panel, endpointOnly, managedOnly>>
    \/ /\ page = "delivery" /\ Detail!DetailNext
       /\ UNCHANGED <<page, role, listOnly, endpointOnly, managedOnly>>
    \/ /\ page = "endpoints" /\ EndpointsScreen!EndpointNext
       /\ UNCHANGED <<page, rows, listOnly, panel, managedOnly>>
    \/ /\ page = "settings" /\ Settings!ManagedNext
       /\ UNCHANGED <<page, rows, listOnly, panel, endpointOnly>>

Spec == Init /\ [][Next]_vars
-----------------------------------------------------------------------------
\* use-sequenced-request.js: "The gate decides who may write the result".  On every
\* screen, whatever order the answers of superseded and current requests arrive in, what
\* is shown between loads is what the URL names: the project and the filters of a list,
\* the delivery of the panel, the project of the endpoints and of the settings tables.
ShownIsOfRoute ==
    /\ page = "deliveries" => Deliveries!ListIsOfRoute
    /\ page = "delivery" => Detail!DetailIsOfRoute
    /\ page = "endpoints" => EndpointsScreen!RowsAreOfRoute
    /\ page = "settings" => Settings!TableIsOfRoute

\* keyset.js and deliveries.js: pages that are appended one by one leave no row out and
\* repeat none, though rows arrive and change in between.
ListHasNoHoles == page = "deliveries" => Deliveries!ListHasNoHoles

\* deliveries.js: what a realtime event tells of a delivery is on screen, counted, or on
\* an older page, however events and reloads cross; but for a delivery that was on screen
\* or counted when a reload began, of which the page hears after the reload has read the
\* rows and before it is answered.
ToldIsNoticed == page = "deliveries" => Deliveries!ToldIsNoticed

\* EndpointFormDialog.vue: an edit changes the fields the operator changed, and no field
\* that another owner has changed in the meantime; but for a description that was stored
\* with white space around it.
EditTouchesOnlyItsFields == page = "endpoints" => EndpointsScreen!EditTouchesOnlyItsFields

\* use-sequenced-request.js:49-52: "a page appended after a reload has replaced the list
\* would corrupt it", which a follower of the gate is to rule out.
ListNeverCorrupted == page = "deliveries" => Deliveries!ListNeverCorrupted
=============================================================================
