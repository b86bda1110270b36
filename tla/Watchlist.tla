----------------------------- MODULE Watchlist -----------------------------
(***************************************************************************)
(* The competitor watchlist of one browser tab: the list kept in memory    *)
(* and in the browser's storage (modules/competitor/watchlist.ts), and the *)
(* generator panel that edits it and refreshes its pages one by one or all *)
(* in turn (components/debrief/GeneratorPanel.tsx).                        *)
(*                                                                         *)
(* The panel knows an item by its place in the list.  A refresh keeps the  *)
(* place it was asked for through the call for the page and writes the     *)
(* answer there, into whatever the list holds by then.  The list outlives  *)
(* the panel; which places are being refreshed is known to the panel only. *)
(*                                                                         *)
(* Two things are history: the number an item was added with, which marks  *)
(* what was read for it, and disturbed, which remembers that the list was  *)
(* shortened or the panel left while a page was being read.                *)
(***************************************************************************)
EXTENDS Naturals, FiniteSets, PageSignals

CONSTANTS
    Blank,             \* the URL of an item before the user types one
    Urls,              \* the URLs a user types
    PagesAt,           \* the pages a URL may deliver, as their text parts
    Stored,            \* the lists the storage may hold at first
    MaxWatchlistItems, \* MAX_WATCHLIST_ITEMS
    MaxBorn,           \* items in a run of the model
    MaxAsks,           \* pages asked for in a run of the model
    MaxMounts          \* panels in a run of the model

\* A page has texts where the parser looks for them.  The items of the
\* storage are numbered by their places, and show what was read for them.
ASSUME WatchlistConstants ==
    /\ {MaxWatchlistItems, MaxAsks, MaxMounts} \subseteq Nat \ {0}
    /\ MaxBorn \in Nat /\ Blank \notin Urls
    /\ \A url \in Urls : \A parts \in PagesAt[url] : IsParts(parts)
    /\ \A list \in Stored :
           /\ list \in Seq(ToSet(list))
           /\ \A i \in DOMAIN list :
                  LET Kept(read) == \/ read = Null
                                    \/ read = [of |-> i, says |-> read.says] /\ IsSignals(read.says)
                  IN  /\ list[i] = [id |-> i, url |-> list[i].url, signals |-> list[i].signals,
                                    previousSignals |-> list[i].previousSignals]
                      /\ list[i].url \in Urls \cup {Blank}
                      /\ Kept(list[i].signals) /\ Kept(list[i].previousSignals)

VARIABLES
    items,      \* the list in memory
    saved,      \* the list in the browser's storage
    works,      \* whether the storage can be used
    mount,      \* the last panel, by number
    shown,      \* whether it is on screen
    cards,      \* watchFetch: what the panel says of each place
    guard,      \* watchInFlight of each panel
    loop,       \* the "Refresh all" of each panel: [count, at], or Null
    wire,       \* the pages being read
    born,       \* the items added so far
    asks,       \* the pages asked for so far
    disturbed

browser == <<saved, works>>
history == <<born, disturbed>>
watchVars == <<items, saved, works, mount, shown, cards, guard, loop, wire, born, asks, disturbed>>

Places == 1 .. MaxWatchlistItems
Mounts == 1 .. MaxMounts
NoCards == [p \in Places |-> "none"]

Item(n, url) == [id |-> n, url |-> url, signals |-> Null, previousSignals |-> Null]

\* sanitizeWatchlist, on what readStorage finds.
SanitizeWatchlist(list) ==
    LET Kept(read) == IF read = Null THEN Null
                      ELSE LET says == SanitizeSignals(read.says)
                           IN  IF says = Null THEN Null ELSE [read EXCEPT !.says = says]
    IN  [i \in DOMAIN UpTo(list, MaxWatchlistItems) |->
            [list[i] EXCEPT !.signals = Kept(@), !.previousSignals = Kept(@)]]

WatchInit ==
    /\ works \in BOOLEAN
    /\ saved \in IF works THEN Stored ELSE {<<>>}
    /\ items = SanitizeWatchlist(saved)
    /\ mount = 1 /\ shown = TRUE
    /\ cards = NoCards
    /\ guard = [m \in Mounts |-> {}]
    /\ loop = [m \in Mounts |-> Null]
    /\ wire = {}
    /\ born = Len(saved) /\ asks = 0
    /\ disturbed = FALSE

\* setWatchlist: what the storage refuses stays in memory only.
SetWatchlist(next) ==
    /\ items' = UpTo(next, MaxWatchlistItems)
    /\ saved' = IF works THEN items' ELSE saved
    /\ UNCHANGED works

-----------------------------------------------------------------------------
(* Editing the list *)

AddWatchItem ==
    /\ shown /\ Len(items) < MaxWatchlistItems
    /\ born < MaxBorn
    /\ SetWatchlist(Append(items, Item(born + 1, Blank)))
    /\ born' = born + 1
    /\ UNCHANGED <<mount, shown, cards, guard, loop, wire, asks, disturbed>>

\* updateWatchItem with a URL: what the card said is dropped, what was read
\* off the earlier page is kept.
TypeUrl(p, url) ==
    /\ shown /\ p \in DOMAIN items /\ items[p].url # url
    /\ SetWatchlist([items EXCEPT ![p].url = url])
    /\ cards' = [cards EXCEPT ![p] = "none"]
    /\ UNCHANGED <<mount, shown, guard, loop, wire, asks, history>>

\* removeWatchItem: the cards follow their items, the guard does not.
RemoveWatchItem(p) ==
    /\ shown /\ p \in DOMAIN items
    /\ SetWatchlist(RemoveAt(items, p))
    /\ cards' = [k \in Places |-> IF k < p THEN cards[k]
                                  ELSE IF k < MaxWatchlistItems THEN cards[k + 1] ELSE "none"]
    /\ disturbed' = (disturbed \/ wire # {})
    /\ UNCHANGED <<mount, shown, guard, loop, wire, born, asks>>

ClearWatchlist ==
    /\ shown /\ items # <<>>
    /\ SetWatchlist(<<>>)
    /\ cards' = NoCards
    /\ guard' = [guard EXCEPT ![mount] = {}]
    /\ disturbed' = (disturbed \/ wire # {})
    /\ UNCHANGED <<mount, shown, loop, wire, born, asks>>

-----------------------------------------------------------------------------
(* Refreshing *)

Fresh == CHOOSE n \in 1 .. Cardinality(wire) + 1 : \A r \in wire : r.n # n
Call(m, list, p) == [n |-> Fresh, mount |-> m, place |-> p, id |-> list[p].id, url |-> list[p].url]

\* refreshWatchItem starts nothing for an item without a URL or a place that
\* is being refreshed; the button is disabled while the card says loading.
\* Mutant of MayRefresh: the guard is left to the button.
MayRefresh_noGuard(list, busy, p) == p \in DOMAIN list /\ list[p].url # Blank
MayRefresh(list, busy, p) == p \in DOMAIN list /\ list[p].url # Blank /\ p \notin busy

Refresh(p) ==
    /\ shown /\ cards[p] # "loading"
    /\ MayRefresh(items, guard[mount], p)
    /\ asks < MaxAsks /\ asks' = asks + 1
    /\ wire' = wire \cup {Call(mount, items, p)}
    /\ guard' = [guard EXCEPT ![mount] = @ \cup {p}]
    /\ cards' = [cards EXCEPT ![p] = "loading"]
    /\ UNCHANGED <<items, browser, mount, shown, loop, history>>

\* refreshAllWatch: the places of the list as it was, in turn; 0 for none.
NextPlace(list, busy, from, count) ==
    LET open == {p \in from .. count : MayRefresh(list, busy, p)}
    IN  IF open = {} THEN 0 ELSE Min(open)

RefreshAll ==
    LET p == NextPlace(items, guard[mount], 1, Len(items))
    IN  /\ shown /\ loop[mount] = Null
        /\ p # 0
        /\ asks + Len(items) <= MaxAsks /\ asks' = asks + Len(items)
        /\ wire' = wire \cup {Call(mount, items, p)}
        /\ loop' = [loop EXCEPT ![mount] = [count |-> Len(items), at |-> Call(mount, items, p).n]]
        /\ guard' = [guard EXCEPT ![mount] = @ \cup {p}]
        /\ cards' = [cards EXCEPT ![p] = "loading"]
        /\ UNCHANGED <<items, browser, mount, shown, history>>

\* What an answer makes of the list: the place it was asked for takes it,
\* whatever is there.
Answered(r, read) ==
    [i \in DOMAIN items |->
        IF i = r.place THEN [items[i] EXCEPT !.signals = read, !.previousSignals = items[i].signals]
        ELSE items[i]]

\* "Refresh all" waits for this call.
\* Mutant of WaitedFor: a page that fails stops the rest.
WaitedFor_failureStops(r, read) ==
    loop[r.mount] # Null /\ loop[r.mount].at = r.n /\ read # Null
WaitedFor(r, read) == loop[r.mount] # Null /\ loop[r.mount].at = r.n

\* The page, the refusal or the network error of a call arrives.  A "Refresh
\* all" that waited for it goes on with the next place before anything else
\* happens, or ends.
PageArrives(r, read) ==
    LET m == r.mount
        list == IF read = Null THEN items ELSE Answered(r, read)
        rest == guard[m] \ {r.place}
        p == IF WaitedFor(r, read) THEN NextPlace(list, rest, r.place + 1, loop[m].count) ELSE 0
        told == [cards EXCEPT ![r.place] = IF read = Null THEN "error" ELSE "done"]
    IN  /\ r \in wire
        /\ IF read = Null THEN UNCHANGED <<items, browser>> ELSE SetWatchlist(list)
        /\ wire' = (wire \ {r}) \cup (IF p = 0 THEN {} ELSE {[Call(m, list, p) EXCEPT !.n = r.n]})
        /\ guard' = [guard EXCEPT ![m] = IF p = 0 THEN rest ELSE rest \cup {p}]
        /\ loop' = IF WaitedFor(r, read) /\ p = 0 THEN [loop EXCEPT ![m] = Null] ELSE loop
        /\ cards' = IF ~shown \/ m # mount THEN cards
                    ELSE IF p = 0 THEN told ELSE [told EXCEPT ![p] = "loading"]
        /\ UNCHANGED <<mount, shown, asks, history>>

\* What a call for a URL may bring: signals, or an error (Null) when the page
\* cannot be read or says nothing.
Reads(r) ==
    {Null} \cup {[of |-> r.id, says |-> s] :
                    s \in {ExtractPageSignals(parts) : parts \in PagesAt[r.url]} \ {Null}}

-----------------------------------------------------------------------------
(* Leaving and coming back *)

\* Another page of the app: the panel's state is lost, its calls go on.
Leave ==
    /\ shown
    /\ shown' = FALSE
    /\ cards' = NoCards
    /\ disturbed' = (disturbed \/ wire # {})
    /\ UNCHANGED <<items, browser, mount, guard, loop, wire, born, asks>>

Return ==
    /\ ~shown /\ mount < MaxMounts
    /\ shown' = TRUE /\ mount' = mount + 1
    /\ UNCHANGED <<items, browser, cards, guard, loop, wire, asks, history>>

\* The tab is loaded anew: the storage is read, all else is lost.
Reload ==
    /\ mount < MaxMounts
    /\ mount' = mount + 1 /\ shown' = TRUE
    /\ items' = SanitizeWatchlist(saved)
    /\ wire' = {}
    /\ cards' = NoCards
    /\ loop' = [m \in Mounts |-> Null]
    /\ UNCHANGED <<browser, guard, asks, history>>

WatchNext ==
    \/ AddWatchItem \/ ClearWatchlist \/ RefreshAll
    \/ \E p \in Places : RemoveWatchItem(p) \/ Refresh(p) \/ \E url \in Urls \cup {Blank} : TypeUrl(p, url)
    \/ \E r \in wire : \E read \in Reads(r) : PageArrives(r, read)
    \/ Leave \/ Return \/ Reload

\* A call for a page ends: the server reads it under a deadline of its own
\* (GuardedFetch), and a lost connection rejects the call.
Fairness == WF_watchVars(\E r \in wire : \E read \in Reads(r) : PageArrives(r, read))

WatchSpec == WatchInit /\ [][WatchNext]_watchVars /\ Fairness

-----------------------------------------------------------------------------
ReadFor(item) == {item.signals, item.previousSignals} \ {Null}

\* Unless the list was shortened or the panel left while a page was being
\* read: an item shows what was read for it (watchlist.ts:33-36), one call at
\* most is made for an item at a time (GeneratorPanel.tsx:505, "a double click
\* can't race a second fetch"), a card that says "Refreshing" is being refreshed
\* and one that says "Refreshed" has signals to show.
UndisturbedIsExact ==
    ~disturbed =>
        /\ \A i \in DOMAIN items : \A read \in ReadFor(items[i]) : read.of = items[i].id
        /\ \A r, q \in wire : r.id = q.id => r = q
        /\ \A i \in DOMAIN items : cards[i] = "loading" =>
               \E r \in wire : r.id = items[i].id /\ r.mount = mount
        /\ \A i \in DOMAIN items : cards[i] = "done" => items[i].signals # Null

\* The comparisons agree: reads with one content hash have no change to tell,
\* the card and the notes tell one when the other does, and the monitoring
\* tells no change that the watchlist would not, nor one of a field that one
\* of the reads lacks (differ.ts:8-17, signalSummary.ts:252).
DiffsAgree ==
    \A i \in DOMAIN items :
        items[i].signals # Null /\ items[i].previousSignals # Null =>
            LET prev == items[i].previousSignals.says
                next == items[i].signals.says
                changes == DiffPageSignals(prev, next)
            IN  /\ CanonicalizeSignals(prev) = CanonicalizeSignals(next) => changes = {}
                /\ (changes = {}) = (GroupSignalChanges(prev, next) = {"No meaningful change"})
                /\ DiffSnapshots(prev, next) \subseteq changes
                /\ \A f \in DiffSnapshots(prev, next) : prev[f] # Null /\ next[f] # Null

\* "Refresh all" comes to its end, whatever fails, is edited or removed on the
\* way, and the button is free again (GeneratorPanel.tsx:1030).
RefreshAllEnds == \A m \in Mounts : loop[m] # Null ~> loop[m] = Null
=============================================================================
