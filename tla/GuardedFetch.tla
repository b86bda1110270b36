---------------------------- MODULE GuardedFetch ----------------------------
(***************************************************************************)
(* One call of guardedFetch (modules/competitor/guardedFetch.ts): the loop *)
(* over redirects, the check of every address before a connection to it,   *)
(* the deadline, and the capped reader of the body; with the address check *)
(* of ssrf.ts.  Its results are the inputs of CheckPlan; here a result is  *)
(* its kind.                                                               *)
(*                                                                         *)
(* The resolver and the server are the environment: the resolver answers,  *)
(* sooner or later, with any addresses; the server answers, fails or stays *)
(* silent at any point.  The program's own steps take no time and its      *)
(* timers are prompt, so the clock moves only while the call waits.        *)
(***************************************************************************)
EXTENDS Integers, FiniteSets

CONSTANTS
    Urls,           \* addresses a call may start with or be redirected to
    Policy,         \* what the syntax and policy rules say of each, or "ok"
    Literal,        \* the IP literal that is its host, or NoAddress
    Addresses, NoAddress,
    Private,        \* those that isPrivateIp names
    NoLocation,     \* a redirect without a location
    BadLocation,    \* one that cannot be parsed
    Lengths,        \* values of content-length; 0 where there is none
    Sizes,          \* sizes of a body
    Modes,          \* values of onOversize
    MaxRedirects, Timeout, MaxBytes,    \* GuardedFetchConfig
    MaxChunk,       \* bound on the bytes of a chunk
    MaxTime         \* bound on the clock

Refusals ==
    { "invalid_url", "scheme", "credentials", "port",
      "blocked_host", "ads_library", "ip_private" }

ASSUME FetchAssumption ==
    /\ Policy \in [Urls -> Refusals \cup {"ok"}]
    /\ Literal \in [Urls -> Addresses \cup {NoAddress}]
    /\ NoAddress \notin Addresses
    /\ Private \subseteq Addresses
    /\ NoLocation \notin Urls /\ BadLocation \notin Urls
    /\ Lengths \subseteq Nat /\ Sizes \subseteq Nat
    /\ Modes \subseteq {"truncate", "abort"}
    /\ MaxRedirects \in Nat
    /\ Timeout \in Nat \ {0}
    /\ MaxBytes \in Nat \ {0}
    /\ MaxChunk \in Nat \ {0}
    /\ MaxTime \in Nat

VARIABLES
    now,        \* the clock, from the start of the call
    mode,       \* onOversize of the call
    pc,         \* where the call is
    hop, url,   \* the turn of the loop and its address
    pinned,     \* the addresses the socket may connect to
    sockets,    \* open sockets, with the hop and the time of the timer
    size,       \* the size of the body the server sends
    kept,       \* the bytes of it that are in html
    out, cut,   \* kind and truncated of the outcome
    contacted   \* history: the addresses connected to

fetchVars == <<now, mode, pc, hop, url, pinned, sockets, size, kept, out,
               cut, contacted>>
body == <<size, kept, cut>>

Outcomes ==
    { "success", "refused", "dns_error", "ssrf_blocked", "timeout",
      "redirect_loop", "http_error", "unsupported_content",
      "unsupported_encoding", "too_large", "network_error" }

CallSteps == {"check", "resolve", "connect", "await", "read", "done"}

FetchInit ==
    /\ now = 0
    /\ mode \in Modes
    /\ pc = "check"
    /\ hop = 0
    /\ url \in Urls
    /\ pinned = {}
    /\ sockets = {}
    /\ size = 0 /\ kept = 0 /\ cut = FALSE
    /\ out = "none"
    /\ contacted = {}

(* res.destroy, which the end of every hop calls.                          *)
OthersOpen == { s \in sockets : s.hop # hop }

Finish(kind) ==
    /\ pc' = "done"
    /\ out' = kind
    /\ sockets' = OthersOpen

----------------------------------------------------------------------------
(* Before the connection.                                                  *)

(* checkUrlSyntax.                                                         *)
Refusal(u) ==
    IF Policy[u] = "ok" /\ Literal[u] \in Private THEN "ip_private"
    ELSE Policy[u]

CheckUrl ==
    /\ pc = "check"
    /\ \/ /\ Refusal(url) # "ok"
          /\ Finish("refused")
          /\ UNCHANGED pinned
       \/ /\ Refusal(url) = "ok" /\ Literal[url] # NoAddress
          /\ pinned' = {Literal[url]}
          /\ pc' = "connect"
          /\ UNCHANGED <<sockets, out>>
       \/ /\ Refusal(url) = "ok" /\ Literal[url] = NoAddress
          /\ pc' = "resolve"
          /\ UNCHANGED <<pinned, sockets, out>>
    /\ UNCHANGED <<now, mode, hop, url, body, contacted>>

(* Mutant of Resolve: one public answer is enough.                         *)
Resolve_AnyPublic(answers) ==
    /\ pc = "resolve"
    /\ \/ /\ answers = {}
          /\ Finish("dns_error")
          /\ UNCHANGED pinned
       \/ /\ answers # {} /\ answers \subseteq Private
          /\ Finish("ssrf_blocked")
          /\ UNCHANGED pinned
       \/ /\ ~ answers \subseteq Private
          /\ pinned' = answers
          /\ pc' = "connect"
          /\ UNCHANGED <<sockets, out>>
    /\ UNCHANGED <<now, mode, hop, url, body, contacted>>

(* The resolver answers; no answers stand for its failure as well.         *)
Resolve(answers) ==
    /\ pc = "resolve"
    /\ \/ /\ answers = {}
          /\ Finish("dns_error")
          /\ UNCHANGED pinned
       \/ /\ answers \cap Private # {}
          /\ Finish("ssrf_blocked")
          /\ UNCHANGED pinned
       \/ /\ answers # {} /\ answers \cap Private = {}
          /\ pinned' = answers
          /\ pc' = "connect"
          /\ UNCHANGED <<sockets, out>>
    /\ UNCHANGED <<now, mode, hop, url, body, contacted>>

(* Mutant of Connect: every hop has the whole timeout again.               *)
Connect_FreshTimeout ==
    /\ pc = "connect"
    /\ \/ /\ now >= Timeout
          /\ Finish("timeout")
          /\ UNCHANGED contacted
       \/ /\ now < Timeout
          /\ sockets' = sockets \cup {[hop |-> hop, until |-> now + Timeout]}
          /\ \E a \in pinned : contacted' = contacted \cup {a}
          /\ pc' = "await"
          /\ UNCHANGED out
    /\ UNCHANGED <<now, mode, hop, url, pinned, body>>

(* The transport opens a socket and arms its timer.                        *)
Connect ==
    /\ pc = "connect"
    /\ \/ /\ now >= Timeout
          /\ Finish("timeout")
          /\ UNCHANGED contacted
       \/ /\ now < Timeout
          /\ sockets' = sockets \cup {[hop |-> hop, until |-> Timeout]}
          /\ \E a \in pinned : contacted' = contacted \cup {a}
          /\ pc' = "await"
          /\ UNCHANGED out
    /\ UNCHANGED <<now, mode, hop, url, pinned, body>>

----------------------------------------------------------------------------
(* The response.                                                           *)

(* What an error of the socket counts as.                                  *)
Failure == IF now >= Timeout THEN "timeout" ELSE "network_error"

(* The connection or the server fails, before the headers or in the body.  *)
SocketFails ==
    /\ pc \in {"await", "read"}
    /\ Finish(Failure)
    /\ UNCHANGED <<now, mode, hop, url, pinned, body, contacted>>

(* Mutant of Expire: the timer is cleared when the headers arrive.         *)
Expire_ConnectOnly ==
    /\ pc = "await"
    /\ \E s \in sockets : s.hop = hop /\ now >= s.until
    /\ Finish(Failure)
    /\ UNCHANGED <<now, mode, hop, url, pinned, body, contacted>>

(* The timer destroys the socket, which fails wherever the hop is.         *)
Expire ==
    /\ pc \in {"await", "read"}
    /\ \E s \in sockets : s.hop = hop /\ now >= s.until
    /\ Finish(Failure)
    /\ UNCHANGED <<now, mode, hop, url, pinned, body, contacted>>

(* Mutant of Redirect: the socket of the hop is left to the next one.      *)
Redirect_KeepsSocket(location) ==
    /\ pc = "await"
    /\ \/ /\ location = NoLocation \/ hop = MaxRedirects
          /\ Finish("redirect_loop")
          /\ UNCHANGED <<hop, url>>
       \/ /\ location = BadLocation /\ hop # MaxRedirects
          /\ Finish("refused")
          /\ UNCHANGED <<hop, url>>
       \/ /\ location \in Urls /\ hop # MaxRedirects
          /\ hop' = hop + 1
          /\ url' = location
          /\ pc' = "check"
          /\ UNCHANGED <<sockets, out>>
    /\ UNCHANGED <<now, mode, pinned, body, contacted>>

(* A 3xx: the hop ends, and the next one starts from the beginning.        *)
Redirect(location) ==
    /\ pc = "await"
    /\ \/ /\ location = NoLocation \/ hop = MaxRedirects
          /\ Finish("redirect_loop")
          /\ UNCHANGED <<hop, url>>
       \/ /\ location = BadLocation /\ hop # MaxRedirects
          /\ Finish("refused")
          /\ UNCHANGED <<hop, url>>
       \/ /\ location \in Urls /\ hop # MaxRedirects
          /\ hop' = hop + 1
          /\ url' = location
          /\ sockets' = OthersOpen
          /\ pc' = "check"
          /\ UNCHANGED out
    /\ UNCHANGED <<now, mode, pinned, body, contacted>>

(* Any other status, then the encoding, the type and the declared length,  *)
(* in this order; a body is read only past all of them.                    *)
Headers(ok, identity, html, declared) ==
    /\ pc = "await"
    /\ \/ ~ok /\ Finish("http_error")
       \/ ok /\ ~identity /\ Finish("unsupported_encoding")
       \/ ok /\ identity /\ ~html /\ Finish("unsupported_content")
       \/ /\ ok /\ identity /\ html /\ declared > 4 * MaxBytes
          /\ Finish("too_large")
    /\ UNCHANGED <<now, mode, hop, url, pinned, body, contacted>>

StartBody(declared) ==
    /\ pc = "await"
    /\ declared <= 4 * MaxBytes
    /\ pc' = "read"
    /\ size' \in Sizes
    /\ UNCHANGED <<now, mode, hop, url, pinned, sockets, kept, out, cut,
                   contacted>>

(* Mutant of Chunk: the cap is compared with the bytes before the chunk.   *)
Chunk_CountsLate(n) ==
    /\ pc = "read"
    /\ kept + n <= size
    /\ \/ /\ kept > MaxBytes /\ mode = "abort"
          /\ Finish("too_large")
          /\ UNCHANGED <<kept, cut>>
       \/ /\ kept >= MaxBytes
          /\ ~ (kept > MaxBytes /\ mode = "abort")
          /\ kept' = kept + n
          /\ cut' = TRUE
          /\ Finish("success")
       \/ /\ kept < MaxBytes
          /\ kept' = kept + n
          /\ UNCHANGED <<pc, sockets, out, cut>>
    /\ UNCHANGED <<now, mode, hop, url, pinned, size, contacted>>

(* One turn of the reader, with n more bytes.                              *)
Chunk(n) ==
    /\ pc = "read"
    /\ kept + n <= size
    /\ \/ /\ kept + n > MaxBytes /\ mode = "abort"
          /\ Finish("too_large")
          /\ UNCHANGED <<kept, cut>>
       \/ /\ kept + n >= MaxBytes
          /\ ~ (kept + n > MaxBytes /\ mode = "abort")
          /\ kept' = kept + n
          /\ cut' = TRUE
          /\ Finish("success")
       \/ /\ kept + n < MaxBytes
          /\ kept' = kept + n
          /\ UNCHANGED <<pc, sockets, out, cut>>
    /\ UNCHANGED <<now, mode, hop, url, pinned, size, contacted>>

EndBody ==
    /\ pc = "read"
    /\ kept = size
    /\ Finish("success")
    /\ UNCHANGED <<now, mode, hop, url, pinned, body, contacted>>

Tick ==
    /\ now < MaxTime
    /\ pc \in {"resolve", "await", "read", "done"}
    /\ \A s \in sockets : now < s.until
    /\ now' = now + 1
    /\ UNCHANGED <<mode, pc, hop, url, pinned, sockets, out, body, contacted>>

Response ==
    \/ \E location \in Urls \cup {NoLocation, BadLocation} : Redirect(location)
    \/ \E ok, identity, html \in BOOLEAN, declared \in Lengths :
          Headers(ok, identity, html, declared)
    \/ \E declared \in Lengths : StartBody(declared)
    \/ \E n \in 1..MaxChunk : Chunk(n)
    \/ EndBody

FetchNext ==
    \/ CheckUrl
    \/ \E answers \in SUBSET Addresses : Resolve(answers)
    \/ Connect
    \/ SocketFails
    \/ Expire
    \/ Response
    \/ Tick

(* The program runs, its timers fire and a lookup is answered in the end.  *)
(* Nothing is asked of the server.                                         *)
FetchFairness ==
    /\ WF_fetchVars(CheckUrl) /\ WF_fetchVars(Connect) /\ WF_fetchVars(Expire)
    /\ WF_fetchVars(\E answers \in SUBSET Addresses : Resolve(answers))
    /\ WF_fetchVars(Tick)

FetchSpec == FetchInit /\ [][FetchNext]_fetchVars /\ FetchFairness

----------------------------------------------------------------------------
(* Properties.                                                             *)

(* The values have their types; no hop is beyond the redirect limit.       *)
FetchTypeOK ==
    /\ now \in Nat
    /\ mode \in Modes
    /\ pc \in CallSteps
    /\ hop \in 0..MaxRedirects
    /\ url \in Urls
    /\ pinned \subseteq Addresses
    /\ sockets \subseteq [hop : 0..MaxRedirects, until : Nat]
    /\ size \in Nat /\ kept \in Nat
    /\ out \in Outcomes \cup {"none"}
    /\ cut \in BOOLEAN
    /\ contacted \subseteq Addresses

(* Whatever the resolver answers and wherever a server redirects to, no    *)
(* hop connects to an address that was not validated ("the surviving set   *)
(* is the only thing the socket layer will ever see", guardedFetch.ts:228).*)
OnlyCheckedAddresses == contacted \cap Private = {}

(* A call has one socket at a time, only while it waits for it, and leaves *)
(* none behind on any of its ways out (res.destroy in the finally).        *)
SocketsClosed ==
    /\ Cardinality(sockets) <= 1
    /\ pc \notin {"await", "read"} => sockets = {}

(* Past the deadline, which is one for all hops, no server holds the call  *)
(* by answering slowly or not at all: it has ended, or waits for the       *)
(* resolver and then ends (the clock check and the timer of each hop).     *)
DeadlineHolds == now > Timeout => pc \in {"resolve", "connect", "done"}

(* No more is kept than the cap and the chunk that crosses it, in abort    *)
(* mode not even that, and a body that was not cut is whole (readBody).    *)
CapHolds ==
    /\ kept < MaxBytes + MaxChunk
    /\ mode = "abort" => kept <= MaxBytes
    /\ out = "success" /\ ~cut => kept = size

(* A call ends even if the servers never answer.                           *)
Ends == <>(pc = "done")

============================================================================
