----------------------------- MODULE EventTypes -----------------------------
(***************************************************************************)
(* Event types and the subscriptions of endpoints                          *)
(* (backend/src/shared/event-types.js).  A name is the sequence of its     *)
(* tokens, with the dot a token of its own: order.created is               *)
(* <<"order", Dot, "created">>, and the pattern order.* is                 *)
(* <<"order", Dot, Star>>.                                                 *)
(***************************************************************************)
EXTENDS SequencesExt, Integers

Dot == "."
Star == "*"

\* EVENT_TYPE_PATTERN: words separated by single dots.  A word stands for
\* letters and digits joined by single - or _; lengths are left out.
isValidEventType(name) ==
    /\ name # << >>
    /\ \A i \in DOMAIN name : name[i] # Star /\ (name[i] = Dot <=> i % 2 = 0)
    /\ Len(name) % 2 = 1

\* What the schema of an endpoint takes as a pattern: a type, or one followed by .*.
eventTypePattern(pattern) ==
    \/ isValidEventType(pattern)
    \/ /\ Len(pattern) > 2 /\ pattern[Len(pattern) - 1] = Dot /\ pattern[Len(pattern)] = Star
       /\ isValidEventType(SubSeq(pattern, 1, Len(pattern) - 2))

\* A bare star is no pattern; a final .* stands for exactly one more word.
patternMatches(pattern, eventType) ==
    /\ pattern # <<Star>>
    /\ IF IsSuffix(<<Dot, Star>>, pattern)
       THEN LET prefix == SubSeq(pattern, 1, Len(pattern) - 2)
                remainder == SubSeq(eventType, Len(prefix) + 2, Len(eventType))
            IN  /\ IsPrefix(Append(prefix, Dot), eventType)
                /\ remainder # << >>
                /\ ~ Contains(remainder, Dot)
       ELSE pattern = eventType

\* No patterns at all subscribe to every event.
subscriptionMatches(patterns, eventType) ==
    \/ patterns = {}
    \/ \E pattern \in patterns : patternMatches(pattern, eventType)

\* The words of a name, which stand between its dots, and what a subscription
\* promises in terms of them.
Words(name) == [i \in 1 .. (Len(name) + 1) \div 2 |-> name[2 * i - 1]]
Covers(pattern, eventType) ==
    LET words == Words(pattern)
    IN  IF Last(words) = Star
        THEN /\ Len(words) > 1 /\ Len(Words(eventType)) = Len(words)
             /\ \A i \in 1 .. Len(words) - 1 : words[i] = Words(eventType)[i]
        ELSE words = Words(eventType)
=============================================================================
