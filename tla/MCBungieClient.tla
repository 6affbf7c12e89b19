--------------------------- MODULE MCBungieClient ---------------------------
(* Three concurrent callers of one key and every class of answer.           *)
EXTENDS BungieClient

MCReplies ==
    {[http |-> 200, retryAfter |-> 0, code |-> 1, throttle |-> 0],      \* data
     [http |-> 200, retryAfter |-> 0, code |-> 51, throttle |-> 3],     \* throttled in the body
     [http |-> 429, retryAfter |-> 2, code |-> 0, throttle |-> 0],
     [http |-> 429, retryAfter |-> 0, code |-> 0, throttle |-> 0],      \* 429 without a duration
     [http |-> 503, retryAfter |-> 0, code |-> 1672, throttle |-> 0],   \* the game server's throttle
     [http |-> 503, retryAfter |-> 0, code |-> 1672, throttle |-> 4],
     [http |-> 503, retryAfter |-> 0, code |-> 5, throttle |-> 0]}      \* any other failure
=============================================================================
