---------------------------- MODULE GcsTransport ----------------------------
(***************************************************************************)
(* One HTTP request of GcsRelayStore from with_auth to its response, by    *)
(* several server threads that share the token cache, in time.  The unit   *)
(* of time is the client's timeout of 30 seconds, so a try sees at most    *)
(* one tick; all timers count down to zero.  What the requests do to the   *)
(* bucket is GcsRelay.                                                     *)
(***************************************************************************)
EXTENDS GcsRequests

CONSTANTS
    Urls,       \* token URLs: 2 for metadata.google.internal, else 1
    Lifetimes   \* expires_in of the tokens that the metadata server issues

ASSUME TransportConstants ==
    /\ Urls \in Nat \ {0}
    /\ Lifetimes \subseteq Nat
    /\ None \notin [left : Nat, real : Nat] \cup [left : Nat, cached : BOOLEAN]

VARIABLES
    cache,      \* CachedGcsToken: time until expires_at, and until the token
                \* is really refused; or None
    url,        \* which token URL is tried
    slow,       \* a tick has passed in the current try
    token       \* the token in use: real time left, and where it came from

transportVars == <<cache, pc, url, try, slow, token>>

TransportInit ==
    /\ cache = None
    /\ pc = [c \in Conns |-> "idle"]
    /\ url = [c \in Conns |-> 1]
    /\ try = [c \in Conns |-> 1]
    /\ slow = [c \in Conns |-> FALSE]
    /\ token = [c \in Conns |-> None]

Minus(n, d) == IF n > d THEN n - d ELSE 0

(* The connection goes on to l ("idle", "fetch" for a token or "send") with *)
(* its first try.                                                          *)
TryFirst(c, l) ==
    /\ Goto(c, l)
    /\ slow' = [slow EXCEPT ![c] = FALSE]

(* The request ends, with a response or an error. *)
EndRequest(c) ==
    /\ TryFirst(c, "idle")
    /\ url' = [url EXCEPT ![c] = 1]
    /\ token' = [token EXCEPT ![c] = None]

(* Mutant: a token is taken from the cache to its last moment. *)
UsableLate == cache # None /\ cache.left > 0

(* cached_token: expires_at > now + 30 s. *)
Usable == cache # None /\ cache.left > 1

(* auth_token: the cached token is used for all tries of the request, or   *)
(* one is fetched.                                                         *)
Request(c) ==
    /\ pc[c] = "idle"
    /\ \/ /\ Usable
          /\ token' = [token EXCEPT ![c] = [left |-> cache.real, cached |-> TRUE]]
          /\ TryFirst(c, "send")
       \/ /\ ~Usable
          /\ TryFirst(c, "fetch")
          /\ UNCHANGED token
    /\ UNCHANGED <<cache, url>>

(* expires_in.saturating_sub(60).max(1) seconds: the second is less than a *)
(* tick.                                                                   *)
CachedFor(n) == Minus(n, 2)

(* fetch_metadata_token has an answer: the token was issued before or      *)
(* after the tick that passed in this try, and its age counts from now.    *)
FetchAnswer(c) ==
    /\ pc[c] = "fetch"
    /\ \E n \in Lifetimes, d \in {0, IF slow[c] THEN 1 ELSE 0} :
         /\ cache' = [left |-> CachedFor(n), real |-> Minus(n, d)]
         /\ token' = [token EXCEPT ![c] = [left |-> Minus(n, d), cached |-> FALSE]]
    /\ TryFirst(c, "send")
    /\ url' = [url EXCEPT ![c] = 1]

(* send_with_retry: after a network error or a 5xx the next try begins. *)
Again(c) ==
    /\ try[c] < Tries
    /\ try' = [try EXCEPT ![c] = @ + 1]
    /\ slow' = [slow EXCEPT ![c] = FALSE]
    /\ UNCHANGED <<cache, pc, url, token>>

(* Mutant: the same URL again. *)
NextUrlStuck(c) ==
    /\ pc[c] = "fetch" /\ try[c] = Tries /\ url[c] < Urls
    /\ TryFirst(c, "fetch")
    /\ UNCHANGED <<cache, url, token>>

(* The last try of a token URL ends in a network error: the next URL. *)
NextUrl(c) ==
    /\ pc[c] = "fetch" /\ try[c] = Tries /\ url[c] < Urls
    /\ url' = [url EXCEPT ![c] = @ + 1]
    /\ TryFirst(c, "fetch")
    /\ UNCHANGED <<cache, token>>

(* A token URL answers with an error (a 5xx to its last try) or without a  *)
(* token, or the last URL cannot be reached: the request has no token.     *)
FetchFails(c) ==
    /\ pc[c] = "fetch"
    /\ EndRequest(c)
    /\ UNCHANGED cache

(* The response: of a success, of an error other than 5xx (401 among them) *)
(* which is not retried, or the failure of the last try.                   *)
SendEnds(c) ==
    /\ pc[c] = "send"
    /\ EndRequest(c)
    /\ UNCHANGED cache

(* 30 seconds pass; no try lasts longer. *)
Tick ==
    /\ \A c \in Conns : ~slow[c]
    /\ slow' = [c \in Conns |-> pc[c] # "idle"]
    /\ cache' = IF cache = None THEN None
                ELSE [left |-> Minus(cache.left, 1), real |-> Minus(cache.real, 1)]
    /\ token' = [c \in Conns |-> IF token[c] = None THEN None
                                 ELSE [token[c] EXCEPT !.left = Minus(@, 1)]]
    /\ UNCHANGED <<pc, url, try>>

Progress(c) ==
    \/ FetchAnswer(c) \/ NextUrl(c) \/ FetchFails(c) \/ SendEnds(c)
    \/ pc[c] # "idle" /\ Again(c)

TransportNext == Tick \/ \E c \in Conns : Request(c) \/ Progress(c)

(* The timeout of the HTTP client ends every try. *)
TransportSpec ==
    /\ TransportInit /\ [][TransportNext]_transportVars
    /\ \A c \in Conns : WF_transportVars(Progress(c))

----------------------------------------------------------------------------
(* The margins of the token cache (60 s off the lifetime, 30 s asked for)  *)
(* cover the time a slow metadata answer has cost and two tries that time  *)
(* out: the first two tries of a request never carry a cached token that   *)
(* has expired.                                                            *)
TokenCovers ==
    \A c \in Conns :
        pc[c] = "send" /\ token[c].cached /\ try[c] <= 2 => token[c].left > 0

(* Every request comes to an end, whatever fails. *)
Returns == \A c \in Conns : pc[c] # "idle" ~> pc[c] = "idle"
=============================================================================
