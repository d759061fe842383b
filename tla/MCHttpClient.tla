---------------------------- MODULE MCHttpClient ----------------------------
(* A small instance of HttpClient for TLC: a client without retries and one *)
(* with one, tokens that live long enough to be reused and to expire.       *)
EXTENDS HttpClient

SmallRetryLimits == {0, 1}
=============================================================================
