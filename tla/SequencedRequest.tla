-------------------------- MODULE SequencedRequest --------------------------
(* use-sequenced-request.js: a gate and the requests that share it.  The owner *)
(* of the gate claims a number with every run, a follower runs under the       *)
(* number it finds, and only a run whose number is still the latest may write. *)
EXTENDS Naturals

Quiet == [ownSeq |-> 0, loading |-> FALSE, error |-> FALSE]

\* run, up to its await; the caller adds what its fetcher and callbacks use.
started(request) == [ownSeq |-> request.ownSeq + 1, loading |-> TRUE, error |-> FALSE]
claimed(gate) == gate + 1
followed(gate) == gate

isCurrent_Always(call, gate) == TRUE

isCurrent(call, gate) == call.seq = gate

\* run, after its await: the error is written by a current run, the loading flag is
\* lowered by the last run of this request.
settled(request, call, gate, failed) ==
    [request EXCEPT !.error = IF failed /\ isCurrent(call, gate) THEN TRUE ELSE @,
                    !.loading = IF call.mine = request.ownSeq THEN FALSE ELSE @]
=============================================================================
