---------------------------- MODULE EndpointForm ----------------------------
(* EndpointFormDialog: the form that creates or edits an endpoint.  It holds   *)
(* its own copy of the fields and the endpoint as it was when it was opened.   *)
EXTENDS Naturals, Sequences, FiniteSets

CONSTANTS
    Urls, Rates, Types,     \* values that pass the checks of the form
    MaxTypes                \* EVENT_TYPE_MAX_ITEMS

\* What the operator may type besides: what a check of the form refuses (an empty URL
\* among it), or nothing.
BadUrl == "not-http"
BadRate == "0"
BadType == "*"

\* A text with white space around it, and trim() of it.
Padded == " text "
trim(text) == IF text = Padded THEN "text" ELSE text
Descriptions == {"", Padded}

Fields == {"url", "description", "eventTypes", "rate"}
Inputs == [url |-> Urls \cup {BadUrl}, description |-> Descriptions,
           rate |-> Rates \cup {"", BadRate}]
Drafts == {<<BadType>>} \cup {<<a, b>> : a \in Types, b \in Types}

\* The form is opened, on an endpoint or, with none, to create one.
opened(target, values) ==
    [target |-> target, was |-> values, values |-> values, draft |-> <<>>, draftError |-> FALSE,
     errors |-> {}, formError |-> FALSE, submitting |-> FALSE, touched |-> {}]

typed(form, field, value) ==
    [form EXCEPT !.values[field] = value, !.touched = @ \cup {field}]
typedDraft(form, draft) == [form EXCEPT !.draft = draft]

eventTypeProblem(types, candidate) ==
    \/ candidate = BadType
    \/ candidate \in {types[k] : k \in DOMAIN types}
    \/ Len(types) >= MaxTypes

\* The candidates before the first one with a problem join the list; the rest stays.
addFromDraft(form) ==
    LET types == form.values.eventTypes
        fits(n) == \A k \in 1 .. n :
                      ~eventTypeProblem(types \o SubSeq(form.draft, 1, k - 1), form.draft[k])
        taken == CHOOSE n \in 0 .. Len(form.draft) :
                    fits(n) /\ (n = Len(form.draft) \/ ~fits(n + 1))
    IN  [form EXCEPT !.values.eventTypes = types \o SubSeq(form.draft, 1, taken),
                     !.draft = SubSeq(@, taken + 1, Len(@)),
                     !.draftError = taken < Len(form.draft),
                     !.touched = IF taken > 0 THEN @ \cup {"eventTypes"} ELSE @]

\* A chip is removed; Backspace in an empty draft removes the last one.
removeEventType(form, k) ==
    [form EXCEPT !.values.eventTypes = SubSeq(@, 1, k - 1) \o SubSeq(@, k + 1, Len(@)),
                 !.draftError = FALSE, !.touched = @ \cup {"eventTypes"}]

\* The fields as they are checked and sent.
trimmed(values) == [values EXCEPT !.url = trim(@), !.description = trim(@), !.rate = trim(@)]

urlProblem(url) == url \notin Urls
rateLimitProblem(rate) == rate # "" /\ rate \notin Rates

validate(form) ==
    {f \in Fields : \/ f = "url" /\ urlProblem(trimmed(form.values).url)
                    \/ f = "rate" /\ rateLimitProblem(trimmed(form.values).rate)
                    \/ f = "eventTypes" /\ Len(form.values.eventTypes) > MaxTypes}

\* Without a description or a rate the API takes its defaults.
buildCreateBody(form) ==
    LET values == trimmed(form.values)
    IN  [f \in Fields \ {g \in {"description", "rate"} : values[g] = ""} |-> values[f]]

buildPatch_AllFields(form) ==
    LET values == trimmed(form.values)
    IN  [f \in Fields \ {g \in {"rate"} : values[g] = ""} |-> values[f]]

\* The fields that differ, trimmed, from the endpoint as it was opened; an emptied rate is
\* none.
buildPatch(form) ==
    LET values == trimmed(form.values)
    IN  [f \in {g \in Fields : values[g] # form.was[g] /\ (g = "rate" => values[g] # "")}
            |-> values[f]]

hasChanges(form, isEdit) == isEdit => DOMAIN buildPatch(form) # {}

\* applyServerError: what the API says of a field goes to the field, the rest to the form.
applyServerError(form, fields) ==
    IF fields # {} THEN [form EXCEPT !.errors = fields] ELSE [form EXCEPT !.formError = TRUE]
=============================================================================
