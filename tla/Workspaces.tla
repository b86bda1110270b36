----------------------------- MODULE Workspaces -----------------------------
(***************************************************************************)
(* Anonymous workspaces of the monitoring beta: how a request finds or     *)
(* mints its workspace (modules/monitoring/workspace.ts), the sliding      *)
(* window limits (ratelimit.ts), the caps of an add (addCompetitor in      *)
(* service.ts) and the cookie that is all a browser knows of its workspace *)
(* (app/api/monitoring/competitors/route.ts).                              *)
(*                                                                         *)
(* Statements commit one by one, except in the transaction of an add.  A   *)
(* browser has a slot for each request it may have in flight at a time:    *)
(* one per tab, since MonitoringSection disables its buttons meanwhile.    *)
(* All browsers share one network address.  last_seen_at is DueBatch's.    *)
(***************************************************************************)
EXTENDS Integers, FiniteSets

CONSTANTS
    Slots, Browsers,
    Jar,            \* the browser of a slot
    Clearers,       \* the browsers whose user may clear the cookies
    Mortal,         \* the slots whose requests may die or be lost
    Tokens,         \* the tokens ever minted, 1..n, in this order
    NoToken,        \* no cookie
    Network,        \* the rate key of the address; a workspace's is its token
    Urls,           \* normalized addresses of pages
    NoUrl,          \* a request that is not about one
    Refused,        \* those that validateMonitorUrl refuses
    MaxPages,       \* MAX_COMPETITORS_PER_WORKSPACE
    MintMax, MintWindow,    \* MINT_PER_IP
    RetryMax, RetryWindow,  \* RETRY_PER_WORKSPACE
    PruneAfter,     \* PRUNE_AFTER_MS
    MaxTime,        \* bound on the clock
    MaxRequests     \* bound on the number of requests sent

Free == "free"

ASSUME WorkspaceAssumption ==
    /\ IsFiniteSet(Slots)
    /\ Jar \in [Slots -> Browsers]
    /\ Clearers \subseteq Browsers /\ Mortal \subseteq Slots
    /\ NoToken \notin Tokens /\ Network \notin Tokens
    /\ Tokens \subseteq Nat \ {0}
    /\ Refused \subseteq Urls
    /\ NoUrl \notin Urls /\ Free \notin Slots
    /\ {MaxPages, MintMax, RetryMax} \subseteq Nat \ {0}
    /\ {MintWindow, RetryWindow} \subseteq Nat
    /\ MaxTime \in Nat
    /\ MaxRequests \in Nat
    /\ PruneAfter \in Nat
    /\ MintWindow <= PruneAfter /\ RetryWindow <= PruneAfter

VARIABLES
    now,
    cookie,     \* the debrief_ws cookie of each browser
    minted,     \* the number of tokens drawn
    rows,       \* the workspaces that have a row
    pages,      \* normalized_url of the monitored pages, per workspace
    lock,       \* the slot whose transaction holds the workspace row, or Free
    rates,      \* the rate_events rows of each key
    req,        \* the request in flight in each slot
    sent,       \* history: requests sent so far
    admitted,   \* history: the rows ever inserted in it
    acked,      \* history: pages a browser was told are monitored
    raced       \* history: browsers whose first adds overlapped

vars == <<now, cookie, minted, rows, pages, lock, rates, req,
          sent, admitted, acked, raced>>
history == <<sent, admitted, acked, raced>>

Keys == {Network} \cup Tokens
Ops == {"list", "add", "remove", "retry"}

(* A row of rate_events: its time and its id.                              *)
Events == (0..MaxTime) \X (Nat \ {0})

NoRequest ==
    [pc |-> "idle", op |-> "list", url |-> NoUrl,
     ws |-> NoToken, fresh |-> FALSE]

(* ws is the token the cookie held, then that of the workspace.           *)
RequestSteps ==
    {"idle", "find", "count", "consume", "prune", "mint", "validate", "lock",
     "cap", "insert", "commit", "respond", "remove", "cooldown"}

Requests == [pc : RequestSteps, op : Ops, url : Urls \cup {NoUrl},
             ws : Tokens \cup {NoToken}, fresh : BOOLEAN]

Init ==
    /\ now = 0
    /\ cookie = [b \in Browsers |-> NoToken]
    /\ minted = 0
    /\ rows = {}
    /\ pages = [w \in Tokens |-> {}]
    /\ lock = [w \in Tokens |-> Free]
    /\ rates = [k \in Keys |-> {}]
    /\ req = [t \in Slots |-> NoRequest]
    /\ sent = 0
    /\ admitted = rates
    /\ acked = [b \in Browsers |-> {}]
    /\ raced = {}

Goto(t, pc) == req' = [req EXCEPT ![t] = [@ EXCEPT !.pc = pc]]
End(t) == req' = [req EXCEPT ![t] = NoRequest]

----------------------------------------------------------------------------
(* resolveWorkspace.                                                       *)

(* An add in flight of a browser that sent no cookie with it.              *)
FirstAdd(t) ==
    /\ req[t].op = "add" /\ req[t].pc # "idle"
    /\ req[t].ws = NoToken \/ req[t].fresh

Send(t, op, u) ==
    /\ req[t].pc = "idle"
    /\ sent < MaxRequests
    /\ sent' = sent + 1
    /\ req' = [req EXCEPT ![t] =
                 [pc |-> "find", op |-> op, url |-> u,
                  ws |-> cookie[Jar[t]], fresh |-> FALSE]]
    /\ raced' = IF /\ op = "add" /\ cookie[Jar[t]] = NoToken
                   /\ \E o \in Slots \ {t} : Jar[o] = Jar[t] /\ FirstAdd(o)
                THEN raced \cup {Jar[t]} ELSE raced
    /\ UNCHANGED <<now, cookie, minted, rows, pages, lock, rates,
                   admitted, acked>>

(* Where a request goes on once its workspace is resolved; a list ends.    *)
AfterResolve(op) ==
    CASE op = "list" -> "idle" [] op = "add" -> "validate"
      [] op = "remove" -> "remove" [] op = "retry" -> "cooldown"

(* Mutant of Find: an add never looks for the workspace of its cookie.     *)
Find_AlwaysMints(t) ==
    /\ req[t].pc = "find"
    /\ \/ /\ req[t].op # "add"
          /\ req[t].ws \in rows
          /\ Goto(t, AfterResolve(req[t].op))
       \/ /\ req[t].op # "add"
          /\ req[t].ws \notin rows
          /\ End(t)
       \/ /\ req[t].op = "add"
          /\ Goto(t, "count")
    /\ UNCHANGED <<now, cookie, minted, rows, pages, lock, rates, history>>

(* A token without a row is like none, and only an add may mint.           *)
Find(t) ==
    /\ req[t].pc = "find"
    /\ \/ /\ req[t].ws \in rows
          /\ Goto(t, AfterResolve(req[t].op))
       \/ /\ req[t].ws \notin rows
          /\ req[t].op = "add"
          /\ Goto(t, "count")
       \/ /\ req[t].ws \notin rows
          /\ req[t].op # "add"
          /\ End(t)
    /\ UNCHANGED <<now, cookie, minted, rows, pages, lock, rates, history>>

(* INSERT of a workspace under a token nobody has.                         *)
Mint(t) ==
    /\ req[t].pc = "mint"
    /\ minted + 1 \in Tokens
    /\ minted' = minted + 1
    /\ rows' = rows \cup {minted'}
    /\ req' = [req EXCEPT ![t] = [@ EXCEPT !.pc = "validate", !.ws = minted',
                                           !.fresh = TRUE]]
    /\ UNCHANGED <<now, cookie, pages, lock, rates, history>>

----------------------------------------------------------------------------
(* consumeRateLimit, for the mint of an add and for a retry.               *)

Key(t) == IF req[t].op = "add" THEN Network ELSE req[t].ws
Limit(k) == IF k = Network THEN MintMax ELSE RetryMax
Window(k) == IF k = Network THEN MintWindow ELSE RetryWindow

(* The events of a key in the window that ends now.                        *)
Recent(events, k) == { e \in events[k] : e[1] >= now - Window(k) }
InWindow(events, k) == Cardinality(Recent(events, k))

Count(t) ==
    /\ req[t].pc = "count"
    /\ \/ /\ InWindow(rates, Key(t)) < Limit(Key(t))
          /\ Goto(t, "consume")
       \/ /\ InWindow(rates, Key(t)) >= Limit(Key(t))
          /\ End(t)
    /\ UNCHANGED <<now, cookie, minted, rows, pages, lock, rates, history>>

(* INSERT of a row under an id no row of the key has had.                  *)
Consume(t) ==
    LET event == <<now, Cardinality(admitted[Key(t)]) + 1>>
    IN  /\ req[t].pc = "consume"
        /\ rates' = [rates EXCEPT ![Key(t)] = @ \cup {event}]
        /\ admitted' = [admitted EXCEPT ![Key(t)] = @ \cup {event}]
        /\ Goto(t, "prune")
        /\ UNCHANGED <<now, cookie, minted, rows, pages, lock, sent, acked,
                       raced>>

(* Mutant of Prune: the rows of the key are deleted whatever their age.    *)
Prune_AnyAge(t) ==
    /\ req[t].pc = "prune"
    /\ rates' = [rates EXCEPT ![Key(t)] = {}]
    /\ IF req[t].op = "add" THEN Goto(t, "mint") ELSE End(t)
    /\ UNCHANGED <<now, cookie, minted, rows, pages, lock, history>>

(* The check that a retry then runs is MonitoringEngine's.                 *)
Prune(t) ==
    /\ req[t].pc = "prune"
    /\ rates' = [rates EXCEPT ![Key(t)] =
                   { e \in @ : e[1] >= now - PruneAfter }]
    /\ IF req[t].op = "add" THEN Goto(t, "mint") ELSE End(t)
    /\ UNCHANGED <<now, cookie, minted, rows, pages, lock, history>>

----------------------------------------------------------------------------
(* addCompetitor.                                                          *)

(* A refused address, or the ceiling over all workspaces, ends the add.    *)
Validate(t) ==
    /\ req[t].pc = "validate"
    /\ \/ req[t].url \notin Refused /\ Goto(t, "lock")
       \/ End(t)
    /\ UNCHANGED <<now, cookie, minted, rows, pages, lock, rates, history>>

(* Mutant of LockRow: the count is not preceded by FOR UPDATE.             *)
LockRow_Unlocked(t) ==
    /\ req[t].pc = "lock"
    /\ Goto(t, "cap")
    /\ UNCHANGED <<now, cookie, minted, rows, pages, lock, rates, history>>

(* SELECT ... FOR UPDATE of the workspace row.                             *)
LockRow(t) ==
    /\ req[t].pc = "lock"
    /\ lock[req[t].ws] = Free
    /\ lock' = [lock EXCEPT ![req[t].ws] = t]
    /\ Goto(t, "cap")
    /\ UNCHANGED <<now, cookie, minted, rows, pages, rates, history>>

(* The end of the transaction, or of the connection, frees what t holds.   *)
Unlock(t) ==
    lock' = [w \in Tokens |-> IF lock[w] = t THEN Free ELSE lock[w]]

CountPages(t) ==
    /\ req[t].pc = "cap"
    /\ \/ /\ Cardinality(pages[req[t].ws]) < MaxPages
          /\ Goto(t, "insert")
          /\ UNCHANGED lock
       \/ /\ Cardinality(pages[req[t].ws]) >= MaxPages
          /\ End(t)
          /\ Unlock(t)
    /\ UNCHANGED <<now, cookie, minted, rows, pages, rates, history>>

(* INSERT of the page, refused by the unique index for one that is there.  *)
InsertPage(t) ==
    /\ req[t].pc = "insert"
    /\ \/ /\ req[t].url \notin pages[req[t].ws]
          /\ Goto(t, "commit")
          /\ UNCHANGED lock
       \/ /\ req[t].url \in pages[req[t].ws]
          /\ End(t)
          /\ Unlock(t)
    /\ UNCHANGED <<now, cookie, minted, rows, pages, rates, history>>

Commit(t) ==
    /\ req[t].pc = "commit"
    /\ pages' = [pages EXCEPT ![req[t].ws] = @ \cup {req[t].url}]
    /\ Unlock(t)
    /\ Goto(t, "respond")
    /\ UNCHANGED <<now, cookie, minted, rows, rates, history>>

(* The 201 arrives, with the cookie if the workspace is fresh.  It tells   *)
(* nothing to a browser that has cleared the cookie it was sent with.      *)
Respond(t) ==
    LET b == Jar[t]
    IN  /\ req[t].pc = "respond"
        /\ cookie' = [cookie EXCEPT ![b] =
                        IF req[t].fresh THEN req[t].ws ELSE @]
        /\ acked' = [acked EXCEPT ![b] =
                       IF /\ cookie'[b] = req[t].ws
                          /\ req[t].url \in pages[req[t].ws]
                       THEN @ \cup {<<req[t].ws, req[t].url>>} ELSE @]
        /\ End(t)
        /\ UNCHANGED <<now, minted, rows, pages, lock, rates, sent, admitted,
                       raced>>

----------------------------------------------------------------------------
RemovePage(t) ==
    LET w == req[t].ws
    IN  /\ req[t].pc = "remove"
        /\ pages' = [pages EXCEPT ![w] = @ \ {req[t].url}]
        /\ acked' = [b \in Browsers |-> acked[b] \ {<<w, req[t].url>>}]
        /\ End(t)
        /\ UNCHANGED <<now, cookie, minted, rows, lock, rates, sent, admitted,
                       raced>>

(* retryCompetitor: an unknown page or the cooldown may end the retry.     *)
Cooldown(t) ==
    /\ req[t].pc = "cooldown"
    /\ \/ req[t].url \in pages[req[t].ws] /\ Goto(t, "count")
       \/ End(t)
    /\ UNCHANGED <<now, cookie, minted, rows, pages, lock, rates, history>>

(* The instance dies, a statement throws or the response is lost.          *)
Fail(t) ==
    /\ req[t].pc # "idle"
    /\ End(t)
    /\ Unlock(t)
    /\ UNCHANGED <<now, cookie, minted, rows, pages, rates, history>>

ClearCookies(b) ==
    /\ cookie[b] # NoToken
    /\ cookie' = [cookie EXCEPT ![b] = NoToken]
    /\ acked' = [acked EXCEPT ![b] = {}]
    /\ UNCHANGED <<now, minted, rows, pages, lock, rates, req, sent, admitted,
                   raced>>

Tick ==
    /\ now < MaxTime
    /\ now' = now + 1
    /\ UNCHANGED <<cookie, minted, rows, pages, lock, rates, req, history>>

Handle(t) ==
    \/ Find(t) \/ Count(t) \/ Consume(t) \/ Prune(t) \/ Mint(t)
    \/ Validate(t) \/ LockRow(t) \/ CountPages(t) \/ InsertPage(t) \/ Commit(t)
    \/ Respond(t) \/ RemovePage(t) \/ Cooldown(t)

Next ==
    \/ \E t \in Slots : Handle(t)
    \/ \E t \in Slots : \/ Send(t, "list", NoUrl)
                       \/ \E op \in Ops \ {"list"}, u \in Urls : Send(t, op, u)
    \/ \E t \in Mortal : Fail(t)
    \/ \E b \in Clearers : ClearCookies(b)
    \/ Tick

Spec == Init /\ [][Next]_vars

----------------------------------------------------------------------------
(* Properties.                                                             *)

(* The values have their types; a cookie names a workspace that has a row. *)
TypeOK ==
    /\ now \in 0..MaxTime
    /\ cookie \in [Browsers -> rows \cup {NoToken}]
    /\ minted \in Nat
    /\ rows \subseteq Tokens
    /\ pages \in [Tokens -> SUBSET (Urls \ Refused)]
    /\ lock \in [Tokens -> Slots \cup {Free}]
    /\ rates \in [Keys -> SUBSET Events]
    /\ req \in [Slots -> Requests]
    /\ sent \in 0..MaxRequests
    /\ admitted \in [Keys -> SUBSET Events]
    /\ acked \in [Browsers -> SUBSET (Tokens \X Urls)]
    /\ raced \subseteq Browsers

(* No workspace ever has more pages than the cap, however many adds of it  *)
(* run at once and whichever of them die in their transaction (the row     *)
(* lock of addCompetitor; "race-free", service.ts:202-203).                *)
PagesCapped ==
    \A w \in Tokens : Cardinality(pages[w]) <= MaxPages

(* A limit is passed by at most the requests that overlap, in any window   *)
(* and whatever is pruned meanwhile: consumeRateLimit counts and inserts   *)
(* in two statements.                                                      *)
AdmissionsBounded ==
    \A k \in Keys :
        InWindow(admitted, k) <= Limit(k) + Cardinality(Slots) - 1

(* A browser keeps reaching, with its cookie, every page it was told is    *)
(* monitored, until it removes it or clears its cookies, unless its first  *)
(* adds overlapped (resolveWorkspace looks for the row of a cookie before  *)
(* it mints, and only the response of a mint sets the cookie).             *)
AckedReachable ==
    \A b \in Browsers \ raced :
        \A p \in acked[b] : cookie[b] = p[1] /\ p[2] \in pages[p[1]]

============================================================================
