---------------------------- MODULE MC_RateLimit ----------------------------
EXTENDS RateLimit

\* Phrases of the transcripts the recorder reads in the model.
LimitMarker == [kind |-> "limit", n |-> 0, unit |-> "none"]
RetryHeader(n) == [kind |-> "header", n |-> n, unit |-> "none"]

\* A bare limit message (1h default reset), one with the header
\* "retry-after: 60" and one saying "retry after 5 minutes".
MCTranscripts == {<<LimitMarker>>, <<LimitMarker, RetryHeader(60)>>,
                  <<LimitMarker, [kind |-> "text", n |-> 5, unit |-> "m"]>>}

\* A limit message with the header "retry-after: 5 minutes" (RateLimit_retry.cfg
\* reproduces the mis-read of its unit; rl_live leaves it out).
MCUnitTranscripts ==
    {<<LimitMarker, [kind |-> "header", n |-> 5, unit |-> "m"]>>}
=============================================================================
