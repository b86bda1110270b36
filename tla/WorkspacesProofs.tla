------------------------- MODULE WorkspacesProofs -------------------------
(***************************************************************************)
(* Proofs about Workspaces, for any number of slots, browsers, tokens and  *)
(* pages, any caps and windows.                                            *)
(*                                                                         *)
(* PagesCapped and AckedReachable say nothing of the requests in flight,   *)
(* and so are not inductive.  RequestSound says what a request has         *)
(* established when it reaches a step; LocksSound that a transaction past  *)
(* its lock is the only one of its workspace, so that the count it read    *)
(* still stands; CookiesSound that a browser whose first adds never        *)
(* overlapped has at most one of them in flight, and no cookie meanwhile;  *)
(* EventsSound that the table has every event a window may ask for, and    *)
(* AdmissionsSound that the events of a window and the requests admitted   *)
(* to it stay within the limit and one request per slot.                   *)
(***************************************************************************)
EXTENDS Workspaces, FiniteSetTheorems, TLAPS

Adding == {"mint", "validate", "lock", "cap", "insert", "commit", "respond"}
Resolved == {"validate", "lock", "cap", "insert", "commit", "respond",
             "remove", "cooldown"}
Limiting == {"count", "consume", "prune"}
Checked == {"lock", "cap", "insert", "commit", "respond"}
Locked == {"cap", "insert", "commit"}
Counted == {"insert", "commit"}

(* What a request q has established, rs being the workspaces with a row.   *)
RequestSound(q, rs) ==
    /\ q.ws \in rs \cup {NoToken}
    /\ q.op # "list" => q.url \in Urls
    /\ q.pc \in Adding => q.op = "add"
    /\ q.pc = "cooldown" => q.op = "retry"
    /\ q.pc \in Limiting => q.op \in {"add", "retry"}
    /\ q.pc \in Resolved => q.ws \in rs
    /\ q.pc \in Limiting /\ q.op = "retry" => q.ws \in rs
    /\ q.pc \in Limiting \cup {"mint"} /\ q.op = "add" => q.ws = NoToken
    /\ q.pc \in Checked => q.url \notin Refused

RequestsSound == \A t \in Slots : RequestSound(req[t], rows)

LocksSound ==
    /\ \A t \in Slots : req[t].pc \in Locked => lock[req[t].ws] = t
    /\ \A t \in Slots :
          req[t].pc \in Counted => Cardinality(pages[req[t].ws]) < MaxPages
    /\ \A w \in Tokens : IsFiniteSet(pages[w])
    /\ \A w \in Tokens : Cardinality(pages[w]) <= MaxPages

CookiesSound ==
    \A b \in Browsers \ raced :
        /\ \A t, o \in Slots :
              Jar[t] = b /\ Jar[o] = b /\ FirstAdd(t) /\ FirstAdd(o) => t = o
        /\ \A t \in Slots :
              Jar[t] = b /\ FirstAdd(t) => cookie[b] = NoToken
        /\ \A p \in acked[b] : cookie[b] = p[1] /\ p[2] \in pages[p[1]]

(* The slots that have been counted against the limit of a key, and have   *)
(* not inserted their row yet.                                             *)
Admitted(k) == { t \in Slots : req[t].pc = "consume" /\ Key(t) = k }

EventsSound ==
    \A k \in Keys :
        /\ IsFiniteSet(admitted[k])
        /\ \A e \in admitted[k] : e[2] <= Cardinality(admitted[k]) /\ e[1] <= now
        /\ rates[k] \subseteq admitted[k]
        /\ \A e \in admitted[k] \ rates[k] : e[1] < now - PruneAfter

AdmissionsSound ==
    \A k \in Keys :
        InWindow(admitted, k) + Cardinality(Admitted(k))
            <= Limit(k) - 1 + Cardinality(Slots)

IInv ==
    /\ TypeOK /\ RequestsSound /\ LocksSound /\ CookiesSound
    /\ EventsSound /\ AdmissionsSound

----------------------------------------------------------------------------
(* How a step changes the request of its slot.                             *)

(* Going to a step changes nothing else of the request, nor another one.   *)
LEMMA GotoMoves ==
  ASSUME req \in [Slots -> Requests],
         NEW t \in Slots, NEW pc \in RequestSteps, Goto(t, pc)
  PROVE  /\ req' \in [Slots -> Requests]
         /\ \A o \in Slots \ {t} : req'[o] = req[o]
         /\ req'[t].pc = pc /\ req'[t].op = req[t].op
         /\ req'[t].url = req[t].url /\ req'[t].ws = req[t].ws
         /\ req'[t].fresh = req[t].fresh
  BY DEF Goto, Requests

(* Ending a request leaves the slot idle, and the other requests alone.    *)
LEMMA EndMoves ==
  ASSUME req \in [Slots -> Requests], NEW t \in Slots, End(t)
  PROVE  /\ req' \in [Slots -> Requests]
         /\ \A o \in Slots \ {t} : req'[o] = req[o]
         /\ req'[t] = NoRequest
  BY DEF End, NoRequest, Requests, RequestSteps, Ops

(* A request starts with the cookie of its browser.                        *)
LEMMA SendMoves ==
  ASSUME TypeOK, NEW t \in Slots, NEW op \in Ops,
         NEW u \in Urls \cup {NoUrl}, Send(t, op, u)
  PROVE  /\ req' \in [Slots -> Requests]
         /\ \A o \in Slots \ {t} : req'[o] = req[o]
         /\ req'[t].pc = "find" /\ req'[t].op = op
         /\ req'[t].url = u /\ req'[t].ws = cookie[Jar[t]]
         /\ req'[t].fresh = FALSE
  <1>1. cookie[Jar[t]] \in Tokens \cup {NoToken}
    BY WorkspaceAssumption DEF TypeOK
  <1>2. QED
    BY <1>1 DEF Send, TypeOK, Requests, RequestSteps

(* A mint gives the request its fresh token.                               *)
LEMMA MintMoves ==
  ASSUME TypeOK, NEW t \in Slots, Mint(t)
  PROVE  /\ req' \in [Slots -> Requests]
         /\ \A o \in Slots \ {t} : req'[o] = req[o]
         /\ req'[t].pc = "validate" /\ req'[t].op = req[t].op
         /\ req'[t].url = req[t].url /\ req'[t].ws = minted + 1
         /\ req'[t].fresh = TRUE
  BY DEF Mint, TypeOK, Requests, RequestSteps

(* What the current request of a slot has established.                     *)
LEMMA RequestKnown ==
  ASSUME IInv, NEW t \in Slots
  PROVE  /\ req[t] \in Requests
         /\ RequestSound(req[t], rows)
         /\ req[t].pc \in Limiting => Key(t) \in Keys
         /\ req[t].pc \in Resolved => req[t].ws \in Tokens
         /\ req[t].pc \in Checked => req[t].url \in Urls \ Refused
  <1>1. /\ req[t] \in Requests /\ RequestSound(req[t], rows)
        /\ rows \subseteq Tokens
    BY DEF IInv, TypeOK, RequestsSound
  <1>2. QED
    BY <1>1 DEF RequestSound, Key, Keys, Limiting, Resolved, Checked, Adding

(* A step that leaves the other requests and every row alone is sound when *)
(* the request it moves is.                                                *)
LEMMA RequestFrame ==
  ASSUME IInv, NEW t \in Slots,
         \A o \in Slots \ {t} : req'[o] = req[o],
         rows \subseteq rows', RequestSound(req'[t], rows')
  PROVE  RequestsSound'
  <1>1. ASSUME NEW o \in Slots PROVE RequestSound(req'[o], rows')
    <2>1. CASE o = t
      BY <2>1
    <2>2. CASE o # t
      <3>1. req'[o] = req[o] /\ RequestSound(req[o], rows)
        BY <2>2 DEF IInv, RequestsSound
      <3>2. QED
        BY <3>1 DEF RequestSound
    <2>3. QED
      BY <2>1, <2>2
  <1>2. QED
    BY <1>1 DEF RequestsSound

(* An idle slot has established nothing.                                   *)
LEMMA IdleSound == ASSUME NEW rs PROVE RequestSound(NoRequest, rs)
  BY DEF RequestSound, NoRequest, Adding, Limiting, Resolved, Checked

----------------------------------------------------------------------------
(* Types.                                                                  *)

(* Every step keeps the types.                                             *)
LEMMA TypeStep ==
  ASSUME IInv, Next
  PROVE  TypeOK'
<1>1. ASSUME NEW t \in Slots, Find(t) PROVE TypeOK'
  BY <1>1, WorkspaceAssumption, GotoMoves, EndMoves
  DEF Find, IInv, TypeOK, history, AfterResolve, RequestSteps, Ops,
      Requests
<1>2. ASSUME NEW t \in Slots, Count(t) PROVE TypeOK'
  BY <1>2, WorkspaceAssumption, GotoMoves, EndMoves
  DEF Count, IInv, TypeOK, history, RequestSteps
<1>3. ASSUME NEW t \in Slots, Consume(t) PROVE TypeOK'
  <2>1. Key(t) \in Keys
    BY <1>3, RequestKnown DEF Consume, Limiting
  <2>2. req' \in [Slots -> Requests]
    BY <1>3, GotoMoves DEF Consume, IInv, TypeOK, RequestSteps
  <2>3. /\ rates' \in [Keys -> SUBSET Events]
        /\ admitted' \in [Keys -> SUBSET Events]
    <3>. DEFINE event == <<now, Cardinality(admitted[Key(t)]) + 1>>
    <3>1. event \in Events
      <4>1. Cardinality(admitted[Key(t)]) \in Nat
        BY <2>1, FS_CardinalityType DEF IInv, EventsSound
      <4>2. now \in 0..MaxTime
        BY DEF IInv, TypeOK
      <4>3. QED
        BY <4>1, <4>2 DEF Events
    <3>2. /\ rates \in [Keys -> SUBSET Events] /\ admitted \in [Keys -> SUBSET Events]
          /\ rates' = [rates EXCEPT ![Key(t)] = @ \cup {event}]
          /\ admitted' = [admitted EXCEPT ![Key(t)] = @ \cup {event}]
      BY <1>3 DEF Consume, IInv, TypeOK
    <3>. HIDE DEF event
    <3>3. QED
      BY <2>1, <3>1, <3>2
  <2>4. QED
    BY <1>3, <2>2, <2>3 DEF Consume, IInv, TypeOK
<1>4. ASSUME NEW t \in Slots, Prune(t) PROVE TypeOK'
  <2>1. Key(t) \in Keys
    BY <1>4, RequestKnown DEF Prune, Limiting
  <2>2. req' \in [Slots -> Requests]
    BY <1>4, GotoMoves, EndMoves DEF Prune, IInv, TypeOK, RequestSteps
  <2>3. rates' \in [Keys -> SUBSET Events]
    BY <1>4, <2>1 DEF Prune, IInv, TypeOK
  <2>4. QED
    BY <1>4, <2>2, <2>3 DEF Prune, IInv, TypeOK, history
<1>5. ASSUME NEW t \in Slots, Mint(t) PROVE TypeOK'
  BY <1>5, WorkspaceAssumption, MintMoves DEF Mint, IInv, TypeOK, history
<1>6. ASSUME NEW t \in Slots, Validate(t) PROVE TypeOK'
  BY <1>6, WorkspaceAssumption, GotoMoves, EndMoves
  DEF Validate, IInv, TypeOK, history, RequestSteps
<1>7. ASSUME NEW t \in Slots, LockRow(t) PROVE TypeOK'
  BY <1>7, WorkspaceAssumption, GotoMoves
  DEF LockRow, IInv, TypeOK, history, RequestSteps, Requests
<1>8. ASSUME NEW t \in Slots, CountPages(t) PROVE TypeOK'
  BY <1>8, WorkspaceAssumption, GotoMoves, EndMoves
  DEF CountPages, IInv, TypeOK, history, RequestSteps, Unlock
<1>9. ASSUME NEW t \in Slots, InsertPage(t) PROVE TypeOK'
  BY <1>9, WorkspaceAssumption, GotoMoves, EndMoves
  DEF InsertPage, IInv, TypeOK, history, RequestSteps, Unlock
<1>10. ASSUME NEW t \in Slots, Commit(t) PROVE TypeOK'
  <2>1. req[t].ws \in Tokens /\ req[t].url \in Urls \ Refused
    BY <1>10, RequestKnown DEF Commit, Resolved, Checked
  <2>2. req' \in [Slots -> Requests]
    BY <1>10, GotoMoves DEF Commit, IInv, TypeOK, RequestSteps
  <2>3. pages' \in [Tokens -> SUBSET (Urls \ Refused)]
    BY <1>10, <2>1 DEF Commit, IInv, TypeOK
  <2>4. QED
    BY <1>10, <2>2, <2>3 DEF Commit, Unlock, IInv, TypeOK, history
<1>11. ASSUME NEW t \in Slots, Respond(t) PROVE TypeOK'
  <2>1. /\ req[t].ws \in rows /\ req[t].ws \in Tokens
        /\ req[t].url \in Urls \ Refused
    BY <1>11, RequestKnown DEF Respond, RequestSound, Resolved, Checked
  <2>2. req' \in [Slots -> Requests]
    BY <1>11, EndMoves DEF Respond, IInv, TypeOK
  <2>3. cookie' \in [Browsers -> rows \cup {NoToken}]
    BY <1>11, <2>1 DEF Respond, IInv, TypeOK
  <2>4. acked' \in [Browsers -> SUBSET (Tokens \X Urls)]
    <3>1. <<req[t].ws, req[t].url>> \in Tokens \X Urls
      BY <2>1
    <3>2. acked \in [Browsers -> SUBSET (Tokens \X Urls)]
      BY DEF IInv, TypeOK
    <3>3. QED
      BY <1>11, <3>1, <3>2 DEF Respond
  <2>5. QED
    BY <1>11, <2>2, <2>3, <2>4 DEF Respond, IInv, TypeOK
<1>12. ASSUME NEW t \in Slots, RemovePage(t) PROVE TypeOK'
  BY <1>12, WorkspaceAssumption, EndMoves
  DEF RemovePage, IInv, TypeOK, history
<1>13. ASSUME NEW t \in Slots, Cooldown(t) PROVE TypeOK'
  BY <1>13, WorkspaceAssumption, GotoMoves, EndMoves
  DEF Cooldown, IInv, TypeOK, history, RequestSteps
<1>14. ASSUME NEW t \in Slots, NEW op \in Ops, NEW u \in Urls \cup {NoUrl},
             op # "list" => u \in Urls, Send(t, op, u)
      PROVE  TypeOK'
  <2>1. req' \in [Slots -> Requests]
    BY <1>14, SendMoves DEF IInv
  <2>2. sent' \in 0..MaxRequests
    BY <1>14, WorkspaceAssumption DEF Send, IInv, TypeOK
  <2>3. raced' \subseteq Browsers
    BY <1>14, WorkspaceAssumption DEF Send, IInv, TypeOK
  <2>4. QED
    BY <1>14, <2>1, <2>2, <2>3 DEF Send, IInv, TypeOK
<1>15. ASSUME NEW t \in Slots, Fail(t) PROVE TypeOK'
  BY <1>15, WorkspaceAssumption, EndMoves
  DEF Fail, IInv, TypeOK, history, Unlock
<1>16. ASSUME NEW b \in Browsers, ClearCookies(b) PROVE TypeOK'
  BY <1>16, WorkspaceAssumption DEF ClearCookies, IInv, TypeOK, history
<1>17. CASE Tick
  BY <1>17, WorkspaceAssumption DEF Tick, IInv, TypeOK, history
<1>18. "list" \in Ops
  BY DEF Ops
<1>19. QED
  BY <1>1, <1>2, <1>3, <1>4, <1>5, <1>6, <1>7, <1>8, <1>9, <1>10, <1>11,
     <1>12, <1>13, <1>14, <1>15, <1>16, <1>17, <1>18, WorkspaceAssumption
  DEF Next, Handle

----------------------------------------------------------------------------
(* Requests in flight.                                                     *)

(* Every step leaves each request with what its step relies on.            *)
LEMMA RequestsStep ==
  ASSUME IInv, Next
  PROVE  RequestsSound'
<1>1. ASSUME NEW t \in Slots, Find(t) PROVE RequestsSound'
  <2>1. req \in [Slots -> Requests] /\ AfterResolve(req[t].op) \in RequestSteps
    BY DEF IInv, TypeOK, AfterResolve, Requests, Ops, RequestSteps
  <2>2. RequestSound(req'[t], rows')
    BY <1>1, <2>1, WorkspaceAssumption, GotoMoves, EndMoves, IdleSound,
       RequestKnown
    DEF Find, RequestSteps, RequestSound, Adding, Limiting, Resolved,
        Checked, AfterResolve, Ops, Requests, history
  <2>3. QED
    BY <1>1, <2>1, <2>2, GotoMoves, EndMoves, RequestFrame
    DEF Find, RequestSteps, history
<1>2. ASSUME NEW t \in Slots, Count(t) PROVE RequestsSound'
  <2>1. req \in [Slots -> Requests]
    BY DEF IInv, TypeOK
  <2>2. RequestSound(req'[t], rows')
    BY <1>2, <2>1, WorkspaceAssumption, GotoMoves, EndMoves, IdleSound,
       RequestKnown
    DEF Count, RequestSteps, RequestSound, Adding, Limiting, Resolved,
        Checked, history
  <2>3. QED
    BY <1>2, <2>1, <2>2, GotoMoves, EndMoves, RequestFrame
    DEF Count, RequestSteps, history
<1>3. ASSUME NEW t \in Slots, Consume(t) PROVE RequestsSound'
  <2>1. req \in [Slots -> Requests]
    BY DEF IInv, TypeOK
  <2>2. RequestSound(req'[t], rows')
    BY <1>3, <2>1, WorkspaceAssumption, GotoMoves, RequestKnown
    DEF Consume, RequestSteps, RequestSound, Adding, Limiting, Resolved,
        Checked
  <2>3. QED
    BY <1>3, <2>1, <2>2, GotoMoves, RequestFrame DEF Consume, RequestSteps
<1>4. ASSUME NEW t \in Slots, Prune(t) PROVE RequestsSound'
  <2>1. req \in [Slots -> Requests]
    BY DEF IInv, TypeOK
  <2>2. RequestSound(req'[t], rows')
    BY <1>4, <2>1, WorkspaceAssumption, GotoMoves, EndMoves, IdleSound,
       RequestKnown
    DEF Prune, RequestSteps, RequestSound, Adding, Limiting, Resolved,
        Checked, history
  <2>3. QED
    BY <1>4, <2>1, <2>2, GotoMoves, EndMoves, RequestFrame
    DEF Prune, RequestSteps, history
<1>5. ASSUME NEW t \in Slots, Mint(t) PROVE RequestsSound'
  <2>1. /\ TypeOK /\ minted + 1 \in rows' /\ rows \subseteq rows'
        /\ req[t].op = "add" /\ req[t].url \in Urls
    BY <1>5, RequestKnown DEF Mint, IInv, RequestSound, Adding
  <2>2. RequestSound(req'[t], rows')
    BY <1>5, <2>1, MintMoves
    DEF RequestSound, Adding, Limiting, Resolved, Checked
  <2>3. QED
    BY <1>5, <2>1, <2>2, MintMoves, RequestFrame
<1>6. ASSUME NEW t \in Slots, Validate(t) PROVE RequestsSound'
  <2>1. req \in [Slots -> Requests]
    BY DEF IInv, TypeOK
  <2>2. RequestSound(req'[t], rows')
    BY <1>6, <2>1, WorkspaceAssumption, GotoMoves, EndMoves, IdleSound,
       RequestKnown
    DEF Validate, RequestSteps, RequestSound, Adding, Limiting, Resolved,
        Checked, history
  <2>3. QED
    BY <1>6, <2>1, <2>2, GotoMoves, EndMoves, RequestFrame
    DEF Validate, RequestSteps, history
<1>7. ASSUME NEW t \in Slots, LockRow(t) PROVE RequestsSound'
  <2>1. req \in [Slots -> Requests]
    BY DEF IInv, TypeOK
  <2>2. RequestSound(req'[t], rows')
    BY <1>7, <2>1, WorkspaceAssumption, GotoMoves, RequestKnown
    DEF LockRow, RequestSteps, RequestSound, Adding, Limiting, Resolved,
        Checked, history
  <2>3. QED
    BY <1>7, <2>1, <2>2, GotoMoves, RequestFrame
    DEF LockRow, RequestSteps, history
<1>8. ASSUME NEW t \in Slots, CountPages(t) PROVE RequestsSound'
  <2>1. req \in [Slots -> Requests]
    BY DEF IInv, TypeOK
  <2>2. RequestSound(req'[t], rows')
    BY <1>8, <2>1, WorkspaceAssumption, GotoMoves, EndMoves, IdleSound,
       RequestKnown
    DEF CountPages, RequestSteps, RequestSound, Adding, Limiting, Resolved,
        Checked, history
  <2>3. QED
    BY <1>8, <2>1, <2>2, GotoMoves, EndMoves, RequestFrame
    DEF CountPages, RequestSteps, history
<1>9. ASSUME NEW t \in Slots, InsertPage(t) PROVE RequestsSound'
  <2>1. req \in [Slots -> Requests]
    BY DEF IInv, TypeOK
  <2>2. RequestSound(req'[t], rows')
    BY <1>9, <2>1, WorkspaceAssumption, GotoMoves, EndMoves, IdleSound,
       RequestKnown
    DEF InsertPage, RequestSteps, RequestSound, Adding, Limiting, Resolved,
        Checked, history
  <2>3. QED
    BY <1>9, <2>1, <2>2, GotoMoves, EndMoves, RequestFrame
    DEF InsertPage, RequestSteps, history
<1>10. ASSUME NEW t \in Slots, Commit(t) PROVE RequestsSound'
  <2>1. req \in [Slots -> Requests]
    BY DEF IInv, TypeOK
  <2>2. RequestSound(req'[t], rows')
    BY <1>10, <2>1, WorkspaceAssumption, GotoMoves, RequestKnown
    DEF Commit, RequestSteps, RequestSound, Adding, Limiting, Resolved,
        Checked, history
  <2>3. QED
    BY <1>10, <2>1, <2>2, GotoMoves, RequestFrame
    DEF Commit, RequestSteps, history
<1>11. ASSUME NEW t \in Slots, Respond(t) PROVE RequestsSound'
  <2>1. req \in [Slots -> Requests]
    BY DEF IInv, TypeOK
  <2>2. RequestSound(req'[t], rows')
    BY <1>11, <2>1, WorkspaceAssumption, EndMoves, IdleSound, RequestKnown
    DEF Respond, RequestSteps, RequestSound, Adding, Limiting, Resolved,
        Checked
  <2>3. QED
    BY <1>11, <2>1, <2>2, EndMoves, RequestFrame DEF Respond, RequestSteps
<1>12. ASSUME NEW t \in Slots, RemovePage(t) PROVE RequestsSound'
  <2>1. req \in [Slots -> Requests]
    BY DEF IInv, TypeOK
  <2>2. RequestSound(req'[t], rows')
    BY <1>12, <2>1, WorkspaceAssumption, EndMoves, IdleSound, RequestKnown
    DEF RemovePage, RequestSteps, RequestSound, Adding, Limiting, Resolved,
        Checked
  <2>3. QED
    BY <1>12, <2>1, <2>2, EndMoves, RequestFrame DEF RemovePage, RequestSteps
<1>13. ASSUME NEW t \in Slots, Cooldown(t) PROVE RequestsSound'
  <2>1. req \in [Slots -> Requests]
    BY DEF IInv, TypeOK
  <2>2. RequestSound(req'[t], rows')
    BY <1>13, <2>1, WorkspaceAssumption, GotoMoves, EndMoves, IdleSound,
       RequestKnown
    DEF Cooldown, RequestSteps, RequestSound, Adding, Limiting, Resolved,
        Checked, history
  <2>3. QED
    BY <1>13, <2>1, <2>2, GotoMoves, EndMoves, RequestFrame
    DEF Cooldown, RequestSteps, history
<1>14. ASSUME NEW t \in Slots, NEW op \in Ops, NEW u \in Urls \cup {NoUrl},
             op # "list" => u \in Urls, Send(t, op, u)
      PROVE  RequestsSound'
  <2>1. req \in [Slots -> Requests]
    BY DEF IInv, TypeOK
  <2>2. cookie[Jar[t]] \in rows \cup {NoToken}
    BY WorkspaceAssumption DEF IInv, TypeOK
  <2>3. RequestSound(req'[t], rows')
    BY <1>14, <2>1, <2>2, WorkspaceAssumption, SendMoves, RequestKnown
    DEF IInv, Send, RequestSteps, RequestSound, Adding, Limiting, Resolved,
        Checked
  <2>4. QED
    BY <1>14, <2>3, SendMoves, RequestFrame DEF IInv, Send, RequestSteps
<1>15. ASSUME NEW t \in Slots, Fail(t) PROVE RequestsSound'
  <2>1. req \in [Slots -> Requests]
    BY DEF IInv, TypeOK
  <2>2. RequestSound(req'[t], rows')
    BY <1>15, <2>1, WorkspaceAssumption, EndMoves, IdleSound
    DEF Fail, RequestSteps, RequestSound, Adding, Limiting, Resolved,
        Checked, history
  <2>3. QED
    BY <1>15, <2>1, <2>2, EndMoves, RequestFrame
    DEF Fail, RequestSteps, history
<1>16. ASSUME NEW b \in Browsers, ClearCookies(b) PROVE RequestsSound'
  BY <1>16 DEF ClearCookies, IInv, RequestsSound
<1>17. CASE Tick
  BY <1>17 DEF Tick, IInv, RequestsSound, history
<1>18. "list" \in Ops
  BY DEF Ops
<1>19. QED
  BY <1>1, <1>2, <1>3, <1>4, <1>5, <1>6, <1>7, <1>8, <1>9, <1>10, <1>11,
     <1>12, <1>13, <1>14, <1>15, <1>16, <1>17, <1>18, WorkspaceAssumption
  DEF Next, Handle

----------------------------------------------------------------------------
(* Locks and caps.                                                         *)

(* What a slot that holds its lock knows.                                  *)
LEMMA LockKnown ==
  ASSUME IInv, NEW o \in Slots, req[o].pc \in Locked
  PROVE  /\ req[o].ws \in Tokens
         /\ lock[req[o].ws] = o
         /\ req[o].pc \in Counted =>
               Cardinality(pages[req[o].ws]) < MaxPages
  BY RequestKnown DEF IInv, LocksSound, Locked, Resolved

(* A slot that is past no lock leaves the others what they know, as long   *)
(* as it frees at most its own lock and adds no page.                      *)
LEMMA LockFrame ==
  ASSUME IInv, NEW t \in Slots,
         \A o \in Slots \ {t} : req'[o] = req[o],
         req'[t].pc \notin Locked, pages' = pages,
         lock' = lock \/ Unlock(t)
  PROVE  LocksSound'
  <1>1. ASSUME NEW o \in Slots, req'[o].pc \in Locked
        PROVE  /\ lock'[req'[o].ws] = o
               /\ req'[o].pc \in Counted =>
                     Cardinality(pages'[req'[o].ws]) < MaxPages
    <2>1. o # t /\ req'[o] = req[o]
      BY <1>1
    <2>2. QED
      BY <1>1, <2>1, LockKnown DEF Unlock
  <1>2. Counted \subseteq Locked
    BY DEF Counted, Locked
  <1>3. QED
    BY <1>1, <1>2 DEF IInv, LocksSound

(* A slot that holds its lock and keeps it, with the cap not yet reached.  *)
LEMMA HoldFrame ==
  ASSUME IInv, NEW t \in Slots,
         \A o \in Slots \ {t} : req'[o] = req[o],
         req[t].pc \in Locked, req'[t].ws = req[t].ws,
         Cardinality(pages[req[t].ws]) < MaxPages,
         pages' = pages, lock' = lock
  PROVE  LocksSound'
  <1>1. ASSUME NEW o \in Slots, req'[o].pc \in Locked
        PROVE  /\ lock'[req'[o].ws] = o
               /\ req'[o].pc \in Counted =>
                     Cardinality(pages'[req'[o].ws]) < MaxPages
    <2>1. CASE o = t
      BY <2>1, LockKnown
    <2>2. CASE o # t
      BY <1>1, <2>2, LockKnown
    <2>3. QED
      BY <2>1, <2>2
  <1>2. Counted \subseteq Locked
    BY DEF Counted, Locked
  <1>3. QED
    BY <1>1, <1>2 DEF IInv, LocksSound

(* One more page adds at most one to the count.                            *)
LEMMA OneMorePage ==
  ASSUME NEW S, NEW x, IsFiniteSet(S)
  PROVE  /\ IsFiniteSet(S \cup {x})
         /\ Cardinality(S \cup {x}) <= Cardinality(S) + 1
         /\ Cardinality(S) \in Nat
         /\ Cardinality(S \cup {x}) \in Nat
  <1>1. IsFiniteSet(S \cup {x})
    BY FS_AddElement
  <1>2. Cardinality(S) \in Nat /\ Cardinality(S \cup {x}) \in Nat
    BY <1>1, FS_CardinalityType
  <1>3. \/ Cardinality(S \cup {x}) = Cardinality(S)
        \/ Cardinality(S \cup {x}) = Cardinality(S) + 1
    BY FS_AddElement
  <1>4. QED
    BY <1>1, <1>2, <1>3


(* Every step leaves the count of a transaction true and the caps kept.    *)
LEMMA LocksStep ==
  ASSUME IInv, Next
  PROVE  LocksSound'
<1>1. ASSUME NEW t \in Slots, Find(t) PROVE LocksSound'
  <2>1. req \in [Slots -> Requests] /\ AfterResolve(req[t].op) \in RequestSteps
    BY DEF IInv, TypeOK, AfterResolve, Requests, Ops, RequestSteps
  <2>2. AfterResolve(req[t].op) \notin Locked
    BY <2>1 DEF IInv, TypeOK, AfterResolve, Requests, Ops, Locked
  <2>3. req'[t].pc \notin Locked
    BY <1>1, <2>1, <2>2, GotoMoves, EndMoves
    DEF Find, RequestSteps, Locked, NoRequest
  <2>4. QED
    BY <1>1, <2>1, <2>3, GotoMoves, EndMoves, LockFrame
    DEF Find, RequestSteps
<1>2. ASSUME NEW t \in Slots, Count(t) PROVE LocksSound'
  <2>1. req \in [Slots -> Requests]
    BY DEF IInv, TypeOK
  <2>2. req'[t].pc \notin Locked
    BY <1>2, <2>1, GotoMoves, EndMoves
    DEF Count, RequestSteps, Locked, NoRequest
  <2>3. QED
    BY <1>2, <2>1, <2>2, GotoMoves, EndMoves, LockFrame
    DEF Count, RequestSteps
<1>3. ASSUME NEW t \in Slots, Consume(t) PROVE LocksSound'
  <2>1. req \in [Slots -> Requests]
    BY DEF IInv, TypeOK
  <2>2. req'[t].pc \notin Locked
    BY <1>3, <2>1, GotoMoves DEF Consume, RequestSteps, Locked
  <2>3. QED
    BY <1>3, <2>1, <2>2, GotoMoves, LockFrame DEF Consume, RequestSteps
<1>4. ASSUME NEW t \in Slots, Prune(t) PROVE LocksSound'
  <2>1. req \in [Slots -> Requests]
    BY DEF IInv, TypeOK
  <2>2. req'[t].pc \notin Locked
    BY <1>4, <2>1, GotoMoves, EndMoves
    DEF Prune, RequestSteps, Locked, NoRequest
  <2>3. QED
    BY <1>4, <2>1, <2>2, GotoMoves, EndMoves, LockFrame
    DEF Prune, RequestSteps
<1>5. ASSUME NEW t \in Slots, Mint(t) PROVE LocksSound'
  <2>1. req \in [Slots -> Requests]
    BY DEF IInv, TypeOK
  <2>2. req'[t].pc \notin Locked
    BY <1>5, <2>1, MintMoves DEF Mint, RequestSteps, IInv, Locked
  <2>3. QED
    BY <1>5, <2>1, <2>2, MintMoves, LockFrame DEF Mint, RequestSteps, IInv
<1>6. ASSUME NEW t \in Slots, Validate(t) PROVE LocksSound'
  <2>1. req \in [Slots -> Requests]
    BY DEF IInv, TypeOK
  <2>2. req'[t].pc \notin Locked
    BY <1>6, <2>1, GotoMoves, EndMoves
    DEF Validate, RequestSteps, Locked, NoRequest
  <2>3. QED
    BY <1>6, <2>1, <2>2, GotoMoves, EndMoves, LockFrame
    DEF Validate, RequestSteps
<1>7. ASSUME NEW t \in Slots, LockRow(t) PROVE LocksSound'
  <2>1. /\ req \in [Slots -> Requests] /\ req[t].ws \in Tokens
        /\ lock \in [Tokens -> Slots \cup {Free}]
    BY <1>7, RequestKnown DEF LockRow, IInv, TypeOK, Resolved
  <2>2. /\ req'[t].pc = "cap" /\ req'[t].ws = req[t].ws
        /\ \A o \in Slots \ {t} : req'[o] = req[o]
    BY <1>7, <2>1, GotoMoves DEF LockRow, RequestSteps
  <2>3. ASSUME NEW o \in Slots, req'[o].pc \in Locked
        PROVE  /\ lock'[req'[o].ws] = o
               /\ req'[o].pc \in Counted =>
                     Cardinality(pages'[req'[o].ws]) < MaxPages
    <3>1. CASE o = t
      BY <1>7, <2>1, <2>2, <3>1 DEF LockRow, Counted
    <3>2. CASE o # t
      <4>1. req'[o] = req[o] /\ lock[req[o].ws] # Free
        BY <2>2, <2>3, <3>2, LockKnown, WorkspaceAssumption
      <4>2. QED
        BY <1>7, <2>1, <2>3, <4>1, LockKnown DEF LockRow, history
    <3>3. QED
      BY <3>1, <3>2
  <2>4. Counted \subseteq Locked
    BY DEF Counted, Locked
  <2>5. QED
    BY <1>7, <2>3, <2>4 DEF LockRow, IInv, LocksSound
<1>8. ASSUME NEW t \in Slots, CountPages(t) PROVE LocksSound'
  <2>1. req \in [Slots -> Requests]
    BY DEF IInv, TypeOK
  <2>2. CASE /\ Cardinality(pages[req[t].ws]) < MaxPages
             /\ Goto(t, "insert") /\ lock' = lock
    BY <1>8, <2>1, <2>2, GotoMoves, HoldFrame
    DEF CountPages, RequestSteps, Locked
  <2>3. CASE End(t) /\ Unlock(t)
    BY <1>8, <2>1, <2>3, EndMoves, LockFrame
    DEF CountPages, NoRequest, Locked
  <2>4. QED
    BY <1>8, <2>2, <2>3 DEF CountPages
<1>9. ASSUME NEW t \in Slots, InsertPage(t) PROVE LocksSound'
  <2>1. req \in [Slots -> Requests]
    BY DEF IInv, TypeOK
  <2>2. CASE Goto(t, "commit") /\ lock' = lock
    <3>1. req[t].pc \in Locked /\ Cardinality(pages[req[t].ws]) < MaxPages
      BY <1>9, LockKnown DEF InsertPage, Locked, Counted
    <3>2. QED
      BY <1>9, <2>1, <2>2, <3>1, GotoMoves, HoldFrame
      DEF InsertPage, RequestSteps
  <2>3. CASE End(t) /\ Unlock(t)
    BY <1>9, <2>1, <2>3, EndMoves, LockFrame
    DEF InsertPage, NoRequest, Locked
  <2>4. QED
    BY <1>9, <2>2, <2>3 DEF InsertPage
<1>10. ASSUME NEW t \in Slots, Commit(t) PROVE LocksSound'
  <2> DEFINE w == req[t].ws
  <2>1. /\ req \in [Slots -> Requests]
        /\ pages \in [Tokens -> SUBSET (Urls \ Refused)]
        /\ w \in Tokens /\ lock[w] = t /\ Cardinality(pages[w]) < MaxPages
    BY <1>10, LockKnown DEF Commit, IInv, TypeOK, Locked, Counted
  <2>2. /\ req'[t].pc = "respond"
        /\ \A o \in Slots \ {t} : req'[o] = req[o]
    BY <1>10, <2>1, GotoMoves DEF Commit, RequestSteps
  <2>3. ASSUME NEW o \in Slots, req'[o].pc \in Locked
        PROVE  /\ lock'[req'[o].ws] = o
               /\ req'[o].pc \in Counted =>
                     Cardinality(pages'[req'[o].ws]) < MaxPages
    <3>1. o # t /\ req'[o] = req[o] /\ req[o].ws # w
      BY <2>1, <2>2, <2>3, LockKnown DEF Locked
    <3>2. QED
      BY <1>10, <2>1, <2>3, <3>1, LockKnown DEF Commit, Unlock
  <2>4. ASSUME NEW v \in Tokens
        PROVE  IsFiniteSet(pages'[v]) /\ Cardinality(pages'[v]) <= MaxPages
    <3>1. IsFiniteSet(pages[v]) /\ Cardinality(pages[v]) <= MaxPages
      BY DEF IInv, LocksSound
    <3>2. CASE v = w
      <4>1. /\ IsFiniteSet(pages[w] \cup {req[t].url})
            /\ Cardinality(pages[w] \cup {req[t].url})
                 <= Cardinality(pages[w]) + 1
            /\ Cardinality(pages[w]) \in Nat
            /\ Cardinality(pages[w] \cup {req[t].url}) \in Nat
        BY <3>1, <3>2, OneMorePage
      <4>2. pages'[v] = pages[w] \cup {req[t].url}
        BY <1>10, <2>1, <3>2 DEF Commit
      <4>3. QED
        BY <2>1, <4>1, <4>2, WorkspaceAssumption
    <3>3. CASE v # w
      BY <1>10, <2>1, <3>1, <3>3 DEF Commit
    <3>4. QED
      BY <3>2, <3>3
  <2>5. Counted \subseteq Locked
    BY DEF Counted, Locked
  <2>6. QED
    BY <2>3, <2>4, <2>5 DEF LocksSound
<1>11. ASSUME NEW t \in Slots, Respond(t) PROVE LocksSound'
  <2>1. req \in [Slots -> Requests]
    BY DEF IInv, TypeOK
  <2>2. req'[t].pc \notin Locked
    BY <1>11, <2>1, EndMoves DEF Respond, RequestSteps, Locked, NoRequest
  <2>3. QED
    BY <1>11, <2>1, <2>2, EndMoves, LockFrame DEF Respond, RequestSteps
<1>12. ASSUME NEW t \in Slots, RemovePage(t) PROVE LocksSound'
  <2>1. /\ req \in [Slots -> Requests]
        /\ pages \in [Tokens -> SUBSET (Urls \ Refused)]
    BY DEF IInv, TypeOK
  <2>2. /\ req'[t].pc = "idle"
        /\ \A o \in Slots \ {t} : req'[o] = req[o]
    BY <1>12, <2>1, EndMoves DEF RemovePage, NoRequest
  <2>3. ASSUME NEW v \in Tokens
        PROVE  /\ IsFiniteSet(pages'[v])
               /\ Cardinality(pages'[v]) <= Cardinality(pages[v])
               /\ Cardinality(pages'[v]) \in Nat
               /\ Cardinality(pages[v]) \in Nat
    <3>1. IsFiniteSet(pages[v])
      BY DEF IInv, LocksSound
    <3>2. pages'[v] \subseteq pages[v]
      BY <1>12, <2>1 DEF RemovePage
    <3>3. QED
      BY <3>1, <3>2, FS_Subset, FS_CardinalityType
  <2>4. ASSUME NEW o \in Slots, req'[o].pc \in Locked
        PROVE  /\ lock'[req'[o].ws] = o
               /\ req'[o].pc \in Counted =>
                     Cardinality(pages'[req'[o].ws]) < MaxPages
    <3>1. o # t /\ req'[o] = req[o]
      BY <2>2, <2>4 DEF Locked
    <3>2. /\ req[o].ws \in Tokens /\ lock[req[o].ws] = o
          /\ req[o].pc \in Counted =>
                Cardinality(pages[req[o].ws]) < MaxPages
      BY <2>4, <3>1, LockKnown
    <3>3. /\ Cardinality(pages'[req[o].ws]) <= Cardinality(pages[req[o].ws])
          /\ Cardinality(pages'[req[o].ws]) \in Nat
          /\ Cardinality(pages[req[o].ws]) \in Nat /\ MaxPages \in Nat
      BY <2>3, <3>2, WorkspaceAssumption
    <3>4. lock' = lock
      BY <1>12 DEF RemovePage
    <3>5. QED
      BY <3>1, <3>2, <3>3, <3>4
  <2>5. Counted \subseteq Locked
    BY DEF Counted, Locked
  <2>6. \A v \in Tokens : Cardinality(pages'[v]) <= MaxPages
    BY <2>3, WorkspaceAssumption DEF IInv, LocksSound
  <2>7. QED
    BY <2>4, <2>3, <2>5, <2>6 DEF LocksSound
<1>13. ASSUME NEW t \in Slots, Cooldown(t) PROVE LocksSound'
  <2>1. req \in [Slots -> Requests]
    BY DEF IInv, TypeOK
  <2>2. req'[t].pc \notin Locked
    BY <1>13, <2>1, GotoMoves, EndMoves
    DEF Cooldown, RequestSteps, Locked, NoRequest
  <2>3. QED
    BY <1>13, <2>1, <2>2, GotoMoves, EndMoves, LockFrame
    DEF Cooldown, RequestSteps
<1>14. ASSUME NEW t \in Slots, NEW op \in Ops, NEW u \in Urls \cup {NoUrl},
             op # "list" => u \in Urls, Send(t, op, u)
      PROVE  LocksSound'
  <2>1. req \in [Slots -> Requests]
    BY DEF IInv, TypeOK
  <2>2. req'[t].pc \notin Locked
    BY <1>14, <2>1, SendMoves DEF Send, RequestSteps, IInv, Locked
  <2>3. QED
    BY <1>14, <2>1, <2>2, SendMoves, LockFrame DEF Send, RequestSteps, IInv
<1>15. ASSUME NEW t \in Slots, Fail(t) PROVE LocksSound'
  <2>1. req \in [Slots -> Requests]
    BY DEF IInv, TypeOK
  <2>2. req'[t].pc \notin Locked
    BY <1>15, <2>1, EndMoves DEF Fail, RequestSteps, Locked, NoRequest
  <2>3. QED
    BY <1>15, <2>1, <2>2, EndMoves, LockFrame DEF Fail, RequestSteps
<1>16. ASSUME NEW b \in Browsers, ClearCookies(b) PROVE LocksSound'
  BY <1>16 DEF ClearCookies, IInv, LocksSound
<1>17. CASE Tick
  BY <1>17 DEF Tick, IInv, LocksSound
<1>18. "list" \in Ops
  BY DEF Ops
<1>19. QED
  BY <1>1, <1>2, <1>3, <1>4, <1>5, <1>6, <1>7, <1>8, <1>9, <1>10, <1>11,
     <1>12, <1>13, <1>14, <1>15, <1>16, <1>17, <1>18, WorkspaceAssumption
  DEF Next, Handle

----------------------------------------------------------------------------
(* Cookies.                                                                *)

(* What a page a browser was told of is: a page of a workspace.            *)
LEMMA AckedKnown ==
  ASSUME TypeOK, NEW b \in Browsers, NEW p \in acked[b]
  PROVE  p[1] \in Tokens
  BY DEF TypeOK

(* A step that makes no request a first add and takes no page away keeps   *)
(* the cookies sound.                                                      *)
LEMMA CookieFrame ==
  ASSUME IInv,
         \A o \in Slots : FirstAdd(o)' => FirstAdd(o),
         \A w \in Tokens : pages[w] \subseteq pages'[w],
         cookie' = cookie, acked' = acked, raced' = raced
  PROVE  CookiesSound'
  <1> SUFFICES ASSUME NEW b \in Browsers \ raced
               PROVE  /\ \A t, o \in Slots :
                            /\ Jar[t] = b /\ Jar[o] = b
                            /\ FirstAdd(t)' /\ FirstAdd(o)'
                            => t = o
                      /\ \A t \in Slots :
                            Jar[t] = b /\ FirstAdd(t)' => cookie[b] = NoToken
                      /\ \A p \in acked[b] :
                            cookie[b] = p[1] /\ p[2] \in pages'[p[1]]
    BY DEF CookiesSound
  <1>1. /\ \A t, o \in Slots :
             Jar[t] = b /\ Jar[o] = b /\ FirstAdd(t) /\ FirstAdd(o) => t = o
        /\ \A t \in Slots : Jar[t] = b /\ FirstAdd(t) => cookie[b] = NoToken
        /\ \A p \in acked[b] : cookie[b] = p[1] /\ p[2] \in pages[p[1]]
    BY DEF IInv, CookiesSound
  <1>2. \A p \in acked[b] : p[1] \in Tokens
    BY AckedKnown DEF IInv
  <1>3. QED
    BY <1>1, <1>2


(* Every step keeps what the browsers know true.                           *)
LEMMA CookiesStep ==
  ASSUME IInv, Next
  PROVE  CookiesSound'
<1>1. ASSUME NEW t \in Slots, Find(t) PROVE CookiesSound'
  <2>1. /\ req \in [Slots -> Requests]
        /\ AfterResolve(req[t].op) \in RequestSteps
    BY DEF IInv, TypeOK, AfterResolve, Requests, Ops, RequestSteps
  <2>2. \A o \in Slots : FirstAdd(o)' => FirstAdd(o)
    BY <1>1, <2>1, GotoMoves, EndMoves
    DEF Find, RequestSteps, FirstAdd, NoRequest
  <2>3. QED
    BY <1>1, <2>2, CookieFrame DEF Find, history
<1>2. ASSUME NEW t \in Slots, Count(t) PROVE CookiesSound'
  <2>1. req \in [Slots -> Requests]
    BY DEF IInv, TypeOK
  <2>2. \A o \in Slots : FirstAdd(o)' => FirstAdd(o)
    BY <1>2, <2>1, GotoMoves, EndMoves
    DEF Count, RequestSteps, FirstAdd, NoRequest
  <2>3. QED
    BY <1>2, <2>2, CookieFrame DEF Count, history
<1>3. ASSUME NEW t \in Slots, Consume(t) PROVE CookiesSound'
  <2>1. req \in [Slots -> Requests]
    BY DEF IInv, TypeOK
  <2>2. \A o \in Slots : FirstAdd(o)' => FirstAdd(o)
    BY <1>3, <2>1, GotoMoves DEF Consume, RequestSteps, FirstAdd
  <2>3. QED
    BY <1>3, <2>2, CookieFrame DEF Consume
<1>4. ASSUME NEW t \in Slots, Prune(t) PROVE CookiesSound'
  <2>1. req \in [Slots -> Requests]
    BY DEF IInv, TypeOK
  <2>2. \A o \in Slots : FirstAdd(o)' => FirstAdd(o)
    BY <1>4, <2>1, GotoMoves, EndMoves
    DEF Prune, RequestSteps, FirstAdd, NoRequest
  <2>3. QED
    BY <1>4, <2>2, CookieFrame DEF Prune, history
<1>5. ASSUME NEW t \in Slots, Mint(t) PROVE CookiesSound'
  <2>1. TypeOK /\ req[t].pc = "mint" /\ req[t].op = "add" /\ req[t].ws = NoToken
    BY <1>5, RequestKnown DEF Mint, IInv, RequestSound, Adding, Limiting
  <2>2. \A o \in Slots : FirstAdd(o)' => FirstAdd(o)
    BY <1>5, <2>1, MintMoves DEF FirstAdd
  <2>3. QED
    BY <1>5, <2>2, CookieFrame DEF Mint, history
<1>6. ASSUME NEW t \in Slots, Validate(t) PROVE CookiesSound'
  <2>1. req \in [Slots -> Requests]
    BY DEF IInv, TypeOK
  <2>2. \A o \in Slots : FirstAdd(o)' => FirstAdd(o)
    BY <1>6, <2>1, GotoMoves, EndMoves
    DEF Validate, RequestSteps, FirstAdd, NoRequest
  <2>3. QED
    BY <1>6, <2>2, CookieFrame DEF Validate, history
<1>7. ASSUME NEW t \in Slots, LockRow(t) PROVE CookiesSound'
  <2>1. req \in [Slots -> Requests]
    BY DEF IInv, TypeOK
  <2>2. \A o \in Slots : FirstAdd(o)' => FirstAdd(o)
    BY <1>7, <2>1, GotoMoves DEF LockRow, RequestSteps, FirstAdd
  <2>3. QED
    BY <1>7, <2>2, CookieFrame DEF LockRow, history
<1>8. ASSUME NEW t \in Slots, CountPages(t) PROVE CookiesSound'
  <2>1. req \in [Slots -> Requests]
    BY DEF IInv, TypeOK
  <2>2. \A o \in Slots : FirstAdd(o)' => FirstAdd(o)
    BY <1>8, <2>1, GotoMoves, EndMoves
    DEF CountPages, RequestSteps, FirstAdd, NoRequest
  <2>3. QED
    BY <1>8, <2>2, CookieFrame DEF CountPages, history
<1>9. ASSUME NEW t \in Slots, InsertPage(t) PROVE CookiesSound'
  <2>1. req \in [Slots -> Requests]
    BY DEF IInv, TypeOK
  <2>2. \A o \in Slots : FirstAdd(o)' => FirstAdd(o)
    BY <1>9, <2>1, GotoMoves, EndMoves
    DEF InsertPage, RequestSteps, FirstAdd, NoRequest
  <2>3. QED
    BY <1>9, <2>2, CookieFrame DEF InsertPage, history
<1>10. ASSUME NEW t \in Slots, Commit(t) PROVE CookiesSound'
  <2>1. /\ req \in [Slots -> Requests]
        /\ pages \in [Tokens -> SUBSET (Urls \ Refused)]
    BY DEF IInv, TypeOK
  <2>2. \A o \in Slots : FirstAdd(o)' => FirstAdd(o)
    BY <1>10, <2>1, GotoMoves DEF Commit, RequestSteps, FirstAdd
  <2>3. \A w \in Tokens : pages[w] \subseteq pages'[w]
    BY <1>10, <2>1 DEF Commit
  <2>4. QED
    BY <1>10, <2>2, <2>3, CookieFrame DEF Commit, history
<1>11. ASSUME NEW t \in Slots, Respond(t) PROVE CookiesSound'
  <2> SUFFICES ASSUME NEW b \in Browsers \ raced'
               PROVE  /\ \A s, o \in Slots :
                            /\ Jar[s] = b /\ Jar[o] = b
                            /\ FirstAdd(s)' /\ FirstAdd(o)'
                            => s = o
                      /\ \A s \in Slots :
                            Jar[s] = b /\ FirstAdd(s)' => cookie'[b] = NoToken
                      /\ \A p \in acked'[b] :
                            cookie'[b] = p[1] /\ p[2] \in pages'[p[1]]
    BY DEF CookiesSound
  <2>1. /\ req \in [Slots -> Requests] /\ b \in Browsers \ raced
        /\ acked \in [Browsers -> SUBSET (Tokens \X Urls)]
        /\ pages \in [Tokens -> SUBSET (Urls \ Refused)]
        /\ cookie \in [Browsers -> rows \cup {NoToken}]
        /\ \A p \in acked[b] : p[1] \in Tokens
    BY <1>11, AckedKnown DEF IInv, TypeOK, Respond
  <2>2. /\ \A s, o \in Slots :
             Jar[s] = b /\ Jar[o] = b /\ FirstAdd(s) /\ FirstAdd(o) => s = o
        /\ \A s \in Slots : Jar[s] = b /\ FirstAdd(s) => cookie[b] = NoToken
        /\ \A p \in acked[b] : cookie[b] = p[1] /\ p[2] \in pages[p[1]]
    BY <2>1 DEF IInv, CookiesSound
  <2>3. \A o \in Slots : FirstAdd(o)' => FirstAdd(o) /\ o # t
    BY <1>11, <2>1, EndMoves DEF Respond, FirstAdd, NoRequest
  <2>4. CASE Jar[t] # b
    BY <1>11, <2>1, <2>2, <2>3, <2>4, WorkspaceAssumption DEF Respond
  <2>5. CASE Jar[t] = b /\ req[t].fresh
    <3>1. FirstAdd(t)
      BY <1>11, <2>5, RequestKnown
      DEF Respond, FirstAdd, RequestSound, Adding
    <3>2. acked[b] = {}
      BY <2>1, <2>2, <2>5, <3>1, WorkspaceAssumption
    <3>3. \A s \in Slots : Jar[s] = b => ~FirstAdd(s)'
      BY <2>2, <2>3, <2>5, <3>1
    <3>4. \A p \in acked'[b] : cookie'[b] = p[1] /\ p[2] \in pages'[p[1]]
      BY <1>11, <2>1, <2>5, <3>2 DEF Respond
    <3>5. QED
      BY <3>3, <3>4
  <2>6. CASE Jar[t] = b /\ ~req[t].fresh
    <3>1. cookie' = cookie /\ pages' = pages
      BY <1>11, <2>1, <2>6 DEF Respond
    <3>2. \A p \in acked'[b] : cookie'[b] = p[1] /\ p[2] \in pages'[p[1]]
      BY <1>11, <2>1, <2>2, <2>6, <3>1 DEF Respond
    <3>3. QED
      BY <2>2, <2>3, <3>1, <3>2
  <2>7. QED
    BY <2>4, <2>5, <2>6
<1>12. ASSUME NEW t \in Slots, RemovePage(t) PROVE CookiesSound'
  <2> SUFFICES ASSUME NEW b \in Browsers \ raced'
               PROVE  /\ \A s, o \in Slots :
                            /\ Jar[s] = b /\ Jar[o] = b
                            /\ FirstAdd(s)' /\ FirstAdd(o)'
                            => s = o
                      /\ \A s \in Slots :
                            Jar[s] = b /\ FirstAdd(s)' => cookie'[b] = NoToken
                      /\ \A p \in acked'[b] :
                            cookie'[b] = p[1] /\ p[2] \in pages'[p[1]]
    BY DEF CookiesSound
  <2>1. /\ req \in [Slots -> Requests] /\ b \in Browsers \ raced
        /\ acked \in [Browsers -> SUBSET (Tokens \X Urls)]
        /\ pages \in [Tokens -> SUBSET (Urls \ Refused)]
        /\ cookie \in [Browsers -> rows \cup {NoToken}]
        /\ \A p \in acked[b] : p[1] \in Tokens
    BY <1>12, AckedKnown DEF IInv, TypeOK, RemovePage
  <2>2. /\ \A s, o \in Slots :
             Jar[s] = b /\ Jar[o] = b /\ FirstAdd(s) /\ FirstAdd(o) => s = o
        /\ \A s \in Slots : Jar[s] = b /\ FirstAdd(s) => cookie[b] = NoToken
        /\ \A p \in acked[b] : cookie[b] = p[1] /\ p[2] \in pages[p[1]]
    BY <2>1 DEF IInv, CookiesSound
  <2>3. \A o \in Slots : FirstAdd(o)' => FirstAdd(o) /\ o # t
    BY <1>12, <2>1, EndMoves DEF RemovePage, FirstAdd, NoRequest
  <2>4. \A p \in acked'[b] : p \in acked[b] /\ p[2] \in pages'[p[1]]
    <3>1. acked'[b] = acked[b] \ {<<req[t].ws, req[t].url>>}
      BY <1>12, <2>1 DEF RemovePage
    <3>2. ASSUME NEW p \in acked'[b]
          PROVE  p \in acked[b] /\ p[2] \in pages'[p[1]]
      <4>1. /\ p \in acked[b] /\ p # <<req[t].ws, req[t].url>>
            /\ p \in Tokens \X Urls /\ p = <<p[1], p[2]>>
        BY <2>1, <3>1, <3>2
      <4>2. QED
        BY <1>12, <2>1, <2>2, <4>1 DEF RemovePage
    <3>3. QED
      BY <3>2
  <2>5. QED
    BY <1>12, <2>2, <2>3, <2>4 DEF RemovePage
<1>13. ASSUME NEW t \in Slots, Cooldown(t) PROVE CookiesSound'
  <2>1. req \in [Slots -> Requests]
    BY DEF IInv, TypeOK
  <2>2. \A o \in Slots : FirstAdd(o)' => FirstAdd(o)
    BY <1>13, <2>1, GotoMoves, EndMoves
    DEF Cooldown, RequestSteps, FirstAdd, NoRequest
  <2>3. QED
    BY <1>13, <2>2, CookieFrame DEF Cooldown, history
<1>14. ASSUME NEW t \in Slots, NEW op \in Ops, NEW u \in Urls \cup {NoUrl},
             op # "list" => u \in Urls, Send(t, op, u)
      PROVE  CookiesSound'
  <2> SUFFICES ASSUME NEW b \in Browsers \ raced'
               PROVE  /\ \A s, o \in Slots :
                            /\ Jar[s] = b /\ Jar[o] = b
                            /\ FirstAdd(s)' /\ FirstAdd(o)'
                            => s = o
                      /\ \A s \in Slots :
                            Jar[s] = b /\ FirstAdd(s)' => cookie'[b] = NoToken
                      /\ \A p \in acked'[b] :
                            cookie'[b] = p[1] /\ p[2] \in pages'[p[1]]
    BY DEF CookiesSound
  <2>1. /\ req \in [Slots -> Requests] /\ b \in Browsers \ raced
        /\ acked \in [Browsers -> SUBSET (Tokens \X Urls)]
        /\ pages \in [Tokens -> SUBSET (Urls \ Refused)]
        /\ cookie \in [Browsers -> rows \cup {NoToken}]
        /\ \A p \in acked[b] : p[1] \in Tokens
    BY <1>14, AckedKnown DEF IInv, TypeOK, Send
  <2>2. /\ \A s, o \in Slots :
             Jar[s] = b /\ Jar[o] = b /\ FirstAdd(s) /\ FirstAdd(o) => s = o
        /\ \A s \in Slots : Jar[s] = b /\ FirstAdd(s) => cookie[b] = NoToken
        /\ \A p \in acked[b] : cookie[b] = p[1] /\ p[2] \in pages[p[1]]
    BY <2>1 DEF IInv, CookiesSound
  <2>3. /\ req'[t].op = op /\ req'[t].ws = cookie[Jar[t]]
        /\ req'[t].fresh = FALSE
        /\ \A o \in Slots \ {t} : req'[o] = req[o]
    BY <1>14, SendMoves DEF IInv
  <2>4. \A o \in Slots \ {t} : FirstAdd(o)' => FirstAdd(o)
    BY <2>3 DEF FirstAdd
  <2>5. FirstAdd(t)' => op = "add" /\ cookie[Jar[t]] = NoToken
    BY <2>3 DEF FirstAdd
  <2>6. FirstAdd(t)' /\ Jar[t] = b =>
          \A o \in Slots \ {t} : Jar[o] = b => ~FirstAdd(o)
    BY <1>14, <2>5 DEF Send
  <2>7. cookie' = cookie /\ acked' = acked /\ pages' = pages
    BY <1>14 DEF Send
  <2>8. QED
    BY <2>2, <2>4, <2>5, <2>6, <2>7
<1>15. ASSUME NEW t \in Slots, Fail(t) PROVE CookiesSound'
  <2>1. req \in [Slots -> Requests]
    BY DEF IInv, TypeOK
  <2>2. \A o \in Slots : FirstAdd(o)' => FirstAdd(o)
    BY <1>15, <2>1, EndMoves DEF Fail, RequestSteps, FirstAdd, NoRequest
  <2>3. QED
    BY <1>15, <2>2, CookieFrame DEF Fail, history
<1>16. ASSUME NEW b \in Browsers, ClearCookies(b) PROVE CookiesSound'
  <2> SUFFICES ASSUME NEW c \in Browsers \ raced'
               PROVE  /\ \A s, o \in Slots :
                            /\ Jar[s] = c /\ Jar[o] = c
                            /\ FirstAdd(s)' /\ FirstAdd(o)'
                            => s = o
                      /\ \A s \in Slots :
                            Jar[s] = c /\ FirstAdd(s)' => cookie'[c] = NoToken
                      /\ \A p \in acked'[c] :
                            cookie'[c] = p[1] /\ p[2] \in pages'[p[1]]
    BY DEF CookiesSound
  <2>1. /\ req \in [Slots -> Requests] /\ c \in Browsers \ raced
        /\ acked \in [Browsers -> SUBSET (Tokens \X Urls)]
        /\ pages \in [Tokens -> SUBSET (Urls \ Refused)]
        /\ cookie \in [Browsers -> rows \cup {NoToken}]
        /\ \A p \in acked[c] : p[1] \in Tokens
    BY <1>16, AckedKnown DEF IInv, TypeOK, ClearCookies
  <2>2. /\ \A s, o \in Slots :
             Jar[s] = c /\ Jar[o] = c /\ FirstAdd(s) /\ FirstAdd(o) => s = o
        /\ \A s \in Slots : Jar[s] = c /\ FirstAdd(s) => cookie[c] = NoToken
        /\ \A p \in acked[c] : cookie[c] = p[1] /\ p[2] \in pages[p[1]]
    BY <2>1 DEF IInv, CookiesSound
  <2>3. \A o \in Slots : FirstAdd(o)' => FirstAdd(o)
    BY <1>16 DEF ClearCookies, FirstAdd
  <2>4. CASE c = b
    BY <1>16, <2>1, <2>2, <2>3, <2>4 DEF ClearCookies
  <2>5. CASE c # b
    BY <1>16, <2>1, <2>2, <2>3, <2>5 DEF ClearCookies
  <2>6. QED
    BY <2>4, <2>5
<1>17. CASE Tick
  BY <1>17, CookieFrame DEF Tick, FirstAdd, history
<1>18. "list" \in Ops
  BY DEF Ops
<1>19. QED
  BY <1>1, <1>2, <1>3, <1>4, <1>5, <1>6, <1>7, <1>8, <1>9, <1>10, <1>11,
     <1>12, <1>13, <1>14, <1>15, <1>16, <1>17, <1>18, WorkspaceAssumption
  DEF Next, Handle

----------------------------------------------------------------------------
(* The events of the limits.                                               *)

(* What holds of the events of a key: they are finitely many, of times up  *)
(* to now, and the window finds all of them in the table.                  *)
LEMMA EventsKnown ==
  ASSUME IInv, NEW k \in Keys
  PROVE  /\ now \in Nat /\ Limit(k) \in Nat \ {0} /\ Window(k) \in Nat
         /\ PruneAfter \in Nat /\ Window(k) <= PruneAfter
         /\ \A e \in admitted[k] : e[1] \in Nat /\ e[2] \in Nat /\ e[1] <= now
         /\ IsFiniteSet(admitted[k]) /\ Cardinality(admitted[k]) \in Nat
         /\ IsFiniteSet(Recent(admitted, k)) /\ InWindow(admitted, k) \in Nat
         /\ Recent(rates, k) = Recent(admitted, k)
  <1>1. /\ Limit(k) \in Nat \ {0} /\ Window(k) \in Nat
        /\ PruneAfter \in Nat /\ Window(k) <= PruneAfter
    BY WorkspaceAssumption DEF Limit, Window
  <1>2. /\ now \in Nat /\ admitted[k] \subseteq Events
    BY WorkspaceAssumption DEF IInv, TypeOK
  <1>3. /\ IsFiniteSet(admitted[k]) /\ rates[k] \subseteq admitted[k]
        /\ \A e \in admitted[k] : e[1] <= now
        /\ \A e \in admitted[k] \ rates[k] : e[1] < now - PruneAfter
    BY DEF IInv, EventsSound
  <1>4. \A e \in admitted[k] : e[1] \in Nat /\ e[2] \in Nat
    BY <1>2, WorkspaceAssumption DEF Events
  <1>5. Recent(admitted, k) \subseteq admitted[k]
    BY DEF Recent
  <1>6. /\ IsFiniteSet(Recent(admitted, k)) /\ InWindow(admitted, k) \in Nat
        /\ Cardinality(admitted[k]) \in Nat
    BY <1>3, <1>5, FS_Subset, FS_CardinalityType DEF InWindow
  <1>7. \A e \in admitted[k] : e[1] >= now - Window(k) => e \in rates[k]
    BY <1>1, <1>2, <1>3, <1>4
  <1>8. Recent(rates, k) = Recent(admitted, k)
    BY <1>3, <1>7 DEF Recent
  <1>9. QED
    BY <1>1, <1>2, <1>3, <1>4, <1>6, <1>8

(* A row the INSERT adds is one more.                                      *)
LEMMA Inserted ==
  ASSUME IInv, NEW k \in Keys
  PROVE  LET event == <<now, Cardinality(admitted[k]) + 1>>
         IN  /\ event \notin admitted[k]
             /\ Cardinality(admitted[k] \cup {event}) = Cardinality(admitted[k]) + 1
             /\ IsFiniteSet(admitted[k] \cup {event})
  <1>. DEFINE event == <<now, Cardinality(admitted[k]) + 1>>
  <1>1. /\ IsFiniteSet(admitted[k]) /\ Cardinality(admitted[k]) \in Nat
        /\ \A e \in admitted[k] : e[2] \in Nat
    BY EventsKnown
  <1>2. \A e \in admitted[k] : e[2] <= Cardinality(admitted[k])
    BY DEF IInv, EventsSound
  <1>3. event[2] = Cardinality(admitted[k]) + 1
    OBVIOUS
  <1>4. event \notin admitted[k]
    <2>1. SUFFICES ASSUME event \in admitted[k] PROVE FALSE
      OBVIOUS
    <2>2. event[2] <= Cardinality(admitted[k])
      BY <1>2, <2>1
    <2>3. QED
      BY <1>1, <1>3, <2>2
  <1>5. QED
    BY <1>1, <1>4, FS_AddElement

(* The table changes only by an insert and a prune, and time goes forward. *)
LEMMA EventsFrame ==
  ASSUME IInv, rates' = rates, admitted' = admitted,
         now' = now \/ now' = now + 1
  PROVE  EventsSound'
  <1>. SUFFICES ASSUME NEW k \in Keys
                PROVE  /\ IsFiniteSet(admitted[k])
                       /\ \A e \in admitted[k] :
                             e[2] <= Cardinality(admitted[k]) /\ e[1] <= now'
                       /\ rates[k] \subseteq admitted[k]
                       /\ \A e \in admitted[k] \ rates[k] : e[1] < now' - PruneAfter
    BY DEF EventsSound
  <1>1. /\ IsFiniteSet(admitted[k]) /\ rates[k] \subseteq admitted[k]
        /\ \A e \in admitted[k] : e[2] <= Cardinality(admitted[k])
        /\ \A e \in admitted[k] \ rates[k] : e[1] < now - PruneAfter
    BY DEF IInv, EventsSound
  <1>2. /\ now \in Nat /\ PruneAfter \in Nat
        /\ \A e \in admitted[k] : e[1] \in Nat /\ e[1] <= now
    BY EventsKnown
  <1>3. QED
    BY <1>1, <1>2

(* Every step keeps the table as the window needs it.                      *)
LEMMA EventsStep ==
  ASSUME IInv, Next
  PROVE  EventsSound'
  <1>1. ASSUME NEW t \in Slots, Consume(t) PROVE EventsSound'
    <2>. DEFINE event == <<now, Cardinality(admitted[Key(t)]) + 1>>
    <2>1. Key(t) \in Keys
      BY <1>1, RequestKnown DEF Consume, Limiting
    <2>2. /\ rates' = [rates EXCEPT ![Key(t)] = @ \cup {event}]
          /\ admitted' = [admitted EXCEPT ![Key(t)] = @ \cup {event}]
          /\ now' = now
      BY <1>1 DEF Consume
    <2>3. /\ Cardinality(admitted[Key(t)] \cup {event}) = Cardinality(admitted[Key(t)]) + 1
          /\ IsFiniteSet(admitted[Key(t)] \cup {event})
      BY <2>1, Inserted
    <2>4. event[1] = now /\ event[2] = Cardinality(admitted[Key(t)]) + 1
      OBVIOUS
    <2>. HIDE DEF event
    <2>5. ASSUME NEW k \in Keys
          PROVE  /\ IsFiniteSet(admitted'[k])
                 /\ \A e \in admitted'[k] :
                       e[2] <= Cardinality(admitted'[k]) /\ e[1] <= now'
                 /\ rates'[k] \subseteq admitted'[k]
                 /\ \A e \in admitted'[k] \ rates'[k] : e[1] < now' - PruneAfter
      <3>1. /\ IsFiniteSet(admitted[k]) /\ rates[k] \subseteq admitted[k]
            /\ \A e \in admitted[k] : e[2] <= Cardinality(admitted[k]) /\ e[1] <= now
            /\ \A e \in admitted[k] \ rates[k] : e[1] < now - PruneAfter
        BY DEF IInv, EventsSound
      <3>2. /\ now \in Nat /\ Cardinality(admitted[k]) \in Nat
            /\ \A e \in admitted[k] : e[2] \in Nat
        BY EventsKnown
      <3>3. CASE k # Key(t)
        <4>1. admitted'[k] = admitted[k] /\ rates'[k] = rates[k]
          BY <2>2, <3>3 DEF IInv, TypeOK
        <4>2. QED
          BY <2>2, <3>1, <4>1
      <3>4. CASE k = Key(t)
        <4>1. /\ admitted'[k] = admitted[k] \cup {event}
              /\ rates'[k] = rates[k] \cup {event}
          BY <2>1, <2>2, <3>4 DEF IInv, TypeOK
        <4>2. /\ IsFiniteSet(admitted'[k])
              /\ Cardinality(admitted'[k]) = Cardinality(admitted[k]) + 1
          BY <2>3, <3>4, <4>1
        <4>3. \A e \in admitted'[k] : e \in admitted[k] \/ e = event
          BY <4>1
        <4>4. \A e \in admitted'[k] : e[2] <= Cardinality(admitted'[k])
          BY <2>4, <3>1, <3>2, <3>4, <4>2, <4>3
        <4>5. \A e \in admitted'[k] : e[1] <= now
          BY <2>4, <3>1, <3>2, <4>3
        <4>6. \A e \in admitted'[k] \ rates'[k] : e \in admitted[k] \ rates[k]
          BY <4>1
        <4>7. QED
          BY <2>2, <3>1, <4>1, <4>2, <4>4, <4>5, <4>6
      <3>5. QED
        BY <3>3, <3>4
    <2>6. QED
      BY <2>5 DEF EventsSound
  <1>2. ASSUME NEW t \in Slots, Prune(t) PROVE EventsSound'
    <2>1. Key(t) \in Keys
      BY <1>2, RequestKnown DEF Prune, Limiting
    <2>2. /\ rates' = [rates EXCEPT ![Key(t)] =
                         { e \in @ : e[1] >= now - PruneAfter }]
          /\ admitted' = admitted /\ now' = now
      BY <1>2 DEF Prune, history
    <2>3. ASSUME NEW k \in Keys
          PROVE  /\ IsFiniteSet(admitted'[k])
                 /\ \A e \in admitted'[k] :
                       e[2] <= Cardinality(admitted'[k]) /\ e[1] <= now'
                 /\ rates'[k] \subseteq admitted'[k]
                 /\ \A e \in admitted'[k] \ rates'[k] : e[1] < now' - PruneAfter
      <3>1. /\ IsFiniteSet(admitted[k]) /\ rates[k] \subseteq admitted[k]
            /\ \A e \in admitted[k] : e[2] <= Cardinality(admitted[k]) /\ e[1] <= now
            /\ \A e \in admitted[k] \ rates[k] : e[1] < now - PruneAfter
        BY DEF IInv, EventsSound
      <3>2. /\ now \in Nat /\ PruneAfter \in Nat /\ \A e \in admitted[k] : e[1] \in Nat
        BY EventsKnown
      <3>3. \/ rates'[k] = rates[k]
            \/ rates'[k] = { e \in rates[k] : e[1] >= now - PruneAfter }
        BY <2>1, <2>2 DEF IInv, TypeOK
      <3>4. QED
        BY <2>2, <3>1, <3>2, <3>3
    <2>4. QED
      BY <2>3 DEF EventsSound
  <1>3. ASSUME NEW t \in Slots,
               \/ Find(t) \/ Count(t) \/ Mint(t) \/ Validate(t) \/ LockRow(t)
               \/ CountPages(t) \/ InsertPage(t) \/ Commit(t) \/ Respond(t)
               \/ RemovePage(t) \/ Cooldown(t) \/ Fail(t)
               \/ \E op \in Ops, u \in Urls \cup {NoUrl} : Send(t, op, u)
        PROVE  rates' = rates /\ admitted' = admitted /\ now' = now
    BY <1>3 DEF Find, Count, Mint, Validate, LockRow, CountPages, InsertPage,
       Commit, Respond, RemovePage, Cooldown, Fail, Send, history
  <1>4. ASSUME NEW b \in Browsers, ClearCookies(b)
        PROVE  rates' = rates /\ admitted' = admitted /\ now' = now
    BY <1>4 DEF ClearCookies
  <1>5. CASE Tick
    BY <1>5, EventsFrame DEF Tick, history
  <1>6. "list" \in Ops
    BY DEF Ops
  <1>7. QED
    BY <1>1, <1>2, <1>3, <1>4, <1>5, <1>6, EventsFrame, WorkspaceAssumption
    DEF Next, Handle

----------------------------------------------------------------------------
(* The admissions.                                                         *)

(* The slots on their way to an INSERT are finitely many.                  *)
LEMMA FewAdmitted ==
  ASSUME NEW S \in SUBSET Slots
  PROVE  /\ IsFiniteSet(S) /\ Cardinality(S) \in Nat
         /\ Cardinality(S) <= Cardinality(Slots) /\ Cardinality(Slots) \in Nat
         /\ \A T : T \subseteq S => Cardinality(T) <= Cardinality(S)
  BY WorkspaceAssumption, FS_Subset, FS_CardinalityType

(* A step that adds no event to a window and admits no request.            *)
LEMMA AdmissionsFrame ==
  ASSUME IInv, NEW k \in Keys,
         Recent(admitted, k)' \subseteq Recent(admitted, k),
         Admitted(k)' \subseteq Admitted(k)
  PROVE  InWindow(admitted, k)' + Cardinality(Admitted(k)')
            <= Limit(k) - 1 + Cardinality(Slots)
  <1>1. /\ IsFiniteSet(Recent(admitted, k)) /\ Limit(k) \in Nat
        /\ Cardinality(Recent(admitted, k)) \in Nat
    BY EventsKnown DEF InWindow
  <1>2. /\ Cardinality(Recent(admitted, k)') \in Nat
        /\ Cardinality(Recent(admitted, k)') <= Cardinality(Recent(admitted, k))
    BY <1>1, FS_Subset, FS_CardinalityType
  <1>3. Admitted(k) \in SUBSET Slots
    BY DEF Admitted
  <1>4. /\ Cardinality(Admitted(k)') \in Nat /\ Cardinality(Admitted(k)) \in Nat
        /\ Cardinality(Admitted(k)') <= Cardinality(Admitted(k))
        /\ Cardinality(Slots) \in Nat
    BY <1>3, FewAdmitted
  <1>5. Cardinality(Recent(admitted, k)) + Cardinality(Admitted(k))
            <= Limit(k) - 1 + Cardinality(Slots)
    BY DEF IInv, AdmissionsSound, InWindow
  <1>6. QED
    BY <1>1, <1>2, <1>4, <1>5 DEF InWindow

(* A request that goes to another step than the INSERT leaves the slots on *)
(* their way to it, and the others stay on theirs.                         *)
LEMMA AdmittedLeaves ==
  ASSUME NEW t \in Slots, \A o \in Slots \ {t} : req'[o] = req[o],
         req'[t].pc # "consume", NEW k
  PROVE  Admitted(k)' \subseteq Admitted(k) \ {t}
  BY DEF Admitted, Key

(* Every step keeps the account: a request is admitted with one place left *)
(* and all of them in the table, and its INSERT moves it into the window.  *)
LEMMA AdmissionsStep ==
  ASSUME IInv, Next
  PROVE  AdmissionsSound'
  <1>0. req \in [Slots -> Requests] /\ now \in Nat
    BY WorkspaceAssumption DEF IInv, TypeOK
  <1>1. ASSUME NEW t \in Slots, Count(t) PROVE AdmissionsSound'
    <2>. SUFFICES ASSUME NEW k \in Keys
                  PROVE  InWindow(admitted, k)' + Cardinality(Admitted(k)')
                            <= Limit(k) - 1 + Cardinality(Slots)
      BY DEF AdmissionsSound, Limit
    <2>1. Recent(admitted, k)' = Recent(admitted, k)
      BY <1>1 DEF Count, history, Recent, Window
    <2>2. /\ \A o \in Slots \ {t} : req'[o] = req[o]
          /\ \/ /\ InWindow(rates, Key(t)) < Limit(Key(t))
                /\ req'[t].op = req[t].op /\ req'[t].ws = req[t].ws
             \/ req'[t].pc # "consume"
      BY <1>0, <1>1, GotoMoves, EndMoves DEF Count, RequestSteps, NoRequest
    <2>3. CASE req'[t].pc # "consume" \/ Key(t) # k
      <3>1. Admitted(k)' \subseteq Admitted(k)
        BY <2>2, <2>3, AdmittedLeaves DEF Admitted, Key
      <3>2. QED
        BY <2>1, <3>1, AdmissionsFrame
    <2>4. CASE InWindow(rates, k) < Limit(k)
      <3>1. InWindow(admitted, k)' < Limit(k)
        BY <2>1, <2>4, EventsKnown DEF InWindow
      <3>2. InWindow(admitted, k)' \in Nat /\ Limit(k) \in Nat
        BY <2>1, EventsKnown DEF InWindow
      <3>3. Admitted(k)' \in SUBSET Slots
        BY DEF Admitted
      <3>4. /\ Cardinality(Admitted(k)') <= Cardinality(Slots)
            /\ Cardinality(Admitted(k)') \in Nat /\ Cardinality(Slots) \in Nat
        BY <3>3, FewAdmitted
      <3>5. QED
        BY <3>1, <3>2, <3>4
    <2>5. QED
      BY <2>2, <2>3, <2>4
  <1>2. ASSUME NEW t \in Slots, Consume(t) PROVE AdmissionsSound'
    <2>. SUFFICES ASSUME NEW k \in Keys
                  PROVE  InWindow(admitted, k)' + Cardinality(Admitted(k)')
                            <= Limit(k) - 1 + Cardinality(Slots)
      BY DEF AdmissionsSound, Limit
    <2>. DEFINE event == <<now, Cardinality(admitted[Key(t)]) + 1>>
    <2>1. Key(t) \in Keys /\ t \in Admitted(Key(t))
      BY <1>2, RequestKnown DEF Consume, Limiting, Admitted
    <2>2. /\ admitted' = [admitted EXCEPT ![Key(t)] = @ \cup {event}]
          /\ now' = now
      BY <1>2 DEF Consume
    <2>3. event \notin admitted[Key(t)]
      BY <2>1, Inserted
    <2>4. Admitted(k)' \subseteq Admitted(k) \ {t}
      BY <1>0, <1>2, GotoMoves, AdmittedLeaves DEF Consume, RequestSteps
    <2>. HIDE DEF event
    <2>5. CASE k # Key(t)
      <3>1. admitted'[k] = admitted[k]
        BY <2>2, <2>5 DEF IInv, TypeOK
      <3>2. Recent(admitted, k)' = Recent(admitted, k)
        BY <2>2, <3>1 DEF Recent, Window
      <3>3. QED
        BY <2>4, <3>2, AdmissionsFrame
    <2>6. CASE k = Key(t)
      <3>1. admitted'[k] = admitted[k] \cup {event}
        BY <2>1, <2>2, <2>6 DEF IInv, TypeOK
      <3>2. /\ Recent(admitted, k)' \subseteq Recent(admitted, k) \cup {event}
            /\ event \notin Recent(admitted, k)
        BY <2>2, <2>3, <2>6, <3>1 DEF Recent, Window
      <3>3. /\ IsFiniteSet(Recent(admitted, k)) /\ Limit(k) \in Nat
            /\ Cardinality(Recent(admitted, k)) \in Nat
        BY EventsKnown DEF InWindow
      <3>4. /\ Cardinality(Recent(admitted, k)') <= Cardinality(Recent(admitted, k)) + 1
            /\ Cardinality(Recent(admitted, k)') \in Nat
        <4>1. /\ IsFiniteSet(Recent(admitted, k) \cup {event})
              /\ Cardinality(Recent(admitted, k) \cup {event})
                    = Cardinality(Recent(admitted, k)) + 1
          BY <3>2, <3>3, FS_AddElement
        <4>2. QED
          BY <3>2, <4>1, FS_Subset, FS_CardinalityType
      <3>5. Admitted(k) \in SUBSET Slots /\ t \in Admitted(k)
        BY <2>1, <2>6 DEF Admitted
      <3>6. /\ Cardinality(Admitted(k)') <= Cardinality(Admitted(k)) - 1
            /\ Cardinality(Admitted(k)') \in Nat /\ Cardinality(Admitted(k)) \in Nat
            /\ Cardinality(Slots) \in Nat
        <4>1. IsFiniteSet(Admitted(k)) /\ Cardinality(Admitted(k)) \in Nat
              /\ Cardinality(Slots) \in Nat
          BY <3>5, FewAdmitted
        <4>2. Cardinality(Admitted(k) \ {t}) = Cardinality(Admitted(k)) - 1
          BY <3>5, <4>1, FS_RemoveElement
        <4>3. Admitted(k) \ {t} \in SUBSET Slots
          BY <3>5
        <4>4. Admitted(k)' \in SUBSET Slots
          BY DEF Admitted
        <4>5. QED
          BY <2>4, <4>1, <4>2, <4>3, <4>4, FewAdmitted
      <3>7. Cardinality(Recent(admitted, k)) + Cardinality(Admitted(k))
                <= Limit(k) - 1 + Cardinality(Slots)
        BY DEF IInv, AdmissionsSound, InWindow
      <3>8. QED
        BY <3>3, <3>4, <3>6, <3>7 DEF InWindow
    <2>7. QED
      BY <2>5, <2>6
  <1>3. ASSUME admitted' = admitted, now' = now \/ now' = now + 1,
               \A k \in Keys : Admitted(k)' \subseteq Admitted(k)
        PROVE  AdmissionsSound'
    <2>1. ASSUME NEW k \in Keys
          PROVE  Recent(admitted, k)' \subseteq Recent(admitted, k)
      <3>1. /\ now \in Nat /\ Window(k) \in Nat
            /\ \A e \in admitted[k] : e[1] \in Nat
        BY EventsKnown
      <3>2. \A e \in admitted[k] : e[1] >= now' - Window(k) => e[1] >= now - Window(k)
        BY <1>3, <3>1
      <3>3. QED
        BY <1>3, <3>2 DEF Recent, Window
    <2>2. QED
      BY <1>3, <2>1, AdmissionsFrame DEF AdmissionsSound, Limit
  <1>4. ASSUME NEW t \in Slots, admitted' = admitted, now' = now,
               \A o \in Slots \ {t} : req'[o] = req[o], req'[t].pc # "consume"
        PROVE  AdmissionsSound'
    BY <1>3, <1>4, AdmittedLeaves
  <1>5. ASSUME NEW t \in Slots, Find(t) PROVE AdmissionsSound'
    <2>1. /\ \A o \in Slots \ {t} : req'[o] = req[o]
          /\ req'[t].pc # "consume"
      BY <1>0, <1>5, GotoMoves, EndMoves
      DEF Find, AfterResolve, RequestSteps, NoRequest, Requests, Ops
    <2>2. QED
      BY <1>4, <1>5, <2>1 DEF Find, history
  <1>6. ASSUME NEW t \in Slots, Prune(t) PROVE AdmissionsSound'
    <2>1. /\ \A o \in Slots \ {t} : req'[o] = req[o]
          /\ req'[t].pc # "consume"
      BY <1>0, <1>6, GotoMoves, EndMoves DEF Prune, RequestSteps, NoRequest
    <2>2. QED
      BY <1>4, <1>6, <2>1 DEF Prune, history
  <1>7. ASSUME NEW t \in Slots, Mint(t) PROVE AdmissionsSound'
    <2>1. /\ \A o \in Slots \ {t} : req'[o] = req[o]
          /\ req'[t].pc # "consume"
      BY <1>7, MintMoves DEF IInv
    <2>2. QED
      BY <1>4, <1>7, <2>1 DEF Mint, history
  <1>8. ASSUME NEW t \in Slots, Validate(t) \/ Cooldown(t) PROVE AdmissionsSound'
    <2>1. /\ \A o \in Slots \ {t} : req'[o] = req[o]
          /\ req'[t].pc # "consume"
      BY <1>0, <1>8, GotoMoves, EndMoves
      DEF Validate, Cooldown, RequestSteps, NoRequest
    <2>2. QED
      BY <1>4, <1>8, <2>1 DEF Validate, Cooldown, history
  <1>9. ASSUME NEW t \in Slots, LockRow(t) \/ CountPages(t) \/ InsertPage(t)
        PROVE  AdmissionsSound'
    <2>1. /\ \A o \in Slots \ {t} : req'[o] = req[o]
          /\ req'[t].pc # "consume"
      BY <1>0, <1>9, GotoMoves, EndMoves
      DEF LockRow, CountPages, InsertPage, RequestSteps, NoRequest
    <2>2. QED
      BY <1>4, <1>9, <2>1 DEF LockRow, CountPages, InsertPage, history
  <1>10. ASSUME NEW t \in Slots,
                Commit(t) \/ Respond(t) \/ RemovePage(t) \/ Fail(t)
         PROVE  AdmissionsSound'
    <2>1. /\ \A o \in Slots \ {t} : req'[o] = req[o]
          /\ req'[t].pc # "consume"
      BY <1>0, <1>10, GotoMoves, EndMoves
      DEF Commit, Respond, RemovePage, Fail, RequestSteps, NoRequest
    <2>2. QED
      BY <1>4, <1>10, <2>1 DEF Commit, Respond, RemovePage, Fail, history
  <1>11. ASSUME NEW t \in Slots, NEW op \in Ops, NEW u \in Urls \cup {NoUrl},
                Send(t, op, u)
         PROVE  AdmissionsSound'
    <2>1. /\ \A o \in Slots \ {t} : req'[o] = req[o]
          /\ req'[t].pc # "consume"
      BY <1>11, SendMoves DEF IInv
    <2>2. QED
      BY <1>4, <1>11, <2>1 DEF Send
  <1>12. ASSUME NEW b \in Browsers, ClearCookies(b) PROVE AdmissionsSound'
    BY <1>3, <1>12 DEF ClearCookies, Admitted, Key
  <1>13. CASE Tick
    BY <1>3, <1>13 DEF Tick, history, Admitted, Key
  <1>14. "list" \in Ops
    BY DEF Ops
  <1>15. QED
    BY <1>1, <1>2, <1>5, <1>6, <1>7, <1>8, <1>9, <1>10, <1>11, <1>12, <1>13,
       <1>14, WorkspaceAssumption
    DEF Next, Handle

----------------------------------------------------------------------------
(* The theorems.                                                           *)

(* Initially there is no workspace, no request and no page.                *)
LEMMA InitSound == Init => IInv
  <1> SUFFICES ASSUME Init PROVE IInv
    OBVIOUS
  <1>1. TypeOK
    <2>1. rates \in [Keys -> SUBSET Events]
      BY DEF Init
    <2>2. req \in [Slots -> Requests]
      BY DEF Init, NoRequest, Requests, RequestSteps, Ops
    <2>3. now \in 0..MaxTime /\ sent \in 0..MaxRequests
      BY WorkspaceAssumption DEF Init
    <2>4. QED
      BY <2>1, <2>2, <2>3 DEF Init, TypeOK
  <1>2. RequestsSound
    BY IdleSound DEF Init, RequestsSound
  <1>3. LocksSound
    <2>1. IsFiniteSet({}) /\ Cardinality({}) = 0
      BY FS_EmptySet
    <2>2. QED
      BY <2>1, WorkspaceAssumption
      DEF Init, NoRequest, LocksSound, Locked, Counted
  <1>4. CookiesSound
    BY DEF Init, NoRequest, CookiesSound, FirstAdd
  <1>5. EventsSound /\ AdmissionsSound
    <2>1. IsFiniteSet({}) /\ Cardinality({}) = 0
      BY FS_EmptySet
    <2>2. EventsSound
      BY <2>1 DEF Init, EventsSound
    <2>3. ASSUME NEW k \in Keys
          PROVE  InWindow(admitted, k) + Cardinality(Admitted(k))
                    <= Limit(k) - 1 + Cardinality(Slots)
      <3>1. Recent(admitted, k) = {} /\ Admitted(k) = {}
        BY <2>3 DEF Init, Recent, Admitted, NoRequest
      <3>2. Limit(k) \in Nat \ {0} /\ Cardinality(Slots) \in Nat
        BY WorkspaceAssumption, FS_CardinalityType DEF Limit
      <3>3. QED
        BY <2>1, <3>1, <3>2 DEF InWindow
    <2>4. QED
      BY <2>2, <2>3 DEF AdmissionsSound
  <1>6. QED
    BY <1>1, <1>2, <1>3, <1>4, <1>5 DEF IInv

(* A step that changes nothing keeps the invariant.                        *)
LEMMA StutterSound == IInv /\ UNCHANGED vars => IInv'
  <1> SUFFICES ASSUME IInv, UNCHANGED vars PROVE IInv'
    OBVIOUS
  <1>1. TypeOK'
    BY DEF IInv, TypeOK, vars
  <1>2. RequestsSound'
    BY DEF IInv, RequestsSound, vars
  <1>3. LocksSound'
    BY DEF IInv, LocksSound, vars
  <1>4. CookiesSound'
    BY CookieFrame DEF FirstAdd, vars
  <1>5. EventsSound'
    BY EventsFrame DEF vars
  <1>6. AdmissionsSound'
    BY DEF IInv, AdmissionsSound, InWindow, Recent, Window, Limit, Admitted,
       Key, vars
  <1>7. QED
    BY <1>1, <1>2, <1>3, <1>4, <1>5, <1>6 DEF IInv

(* The conjuncts of the invariant hold in every reachable state.           *)
THEOREM Invariance == Spec => []IInv
  <1>1. Init => IInv
    BY InitSound
  <1>2. IInv /\ [Next]_vars => IInv'
    BY TypeStep, RequestsStep, LocksStep, CookiesStep, EventsStep,
       AdmissionsStep, StutterSound DEF IInv
  <1>3. QED
    BY <1>1, <1>2, PTL DEF Spec

(* The values keep their types and a cookie names an existing workspace,   *)
(* whatever requests overlap or die.                                       *)
THEOREM TypeCorrect == Spec => []TypeOK
  <1>1. IInv => TypeOK
    BY DEF IInv
  <1>2. QED
    BY <1>1, Invariance, PTL

(* The row lock of addCompetitor keeps every workspace within its cap, for *)
(* any number of overlapping adds and any cap.                             *)
THEOREM CapAlwaysHolds == Spec => []PagesCapped
  <1>1. IInv => PagesCapped
    BY DEF IInv, LocksSound, PagesCapped
  <1>2. QED
    BY <1>1, Invariance, PTL

(* A browser whose first adds never overlapped keeps reaching each page it *)
(* was told is monitored, for any number of browsers and tabs.             *)
THEOREM AckedAlwaysReachable == Spec => []AckedReachable
  <1>1. IInv => AckedReachable
    BY DEF IInv, CookiesSound, AckedReachable
  <1>2. QED
    BY <1>1, Invariance, PTL

(* A limit is passed by at most the requests that overlap, for any limits, *)
(* windows and number of slots, whatever is pruned meanwhile.              *)
THEOREM AdmissionsAlwaysBounded == Spec => []AdmissionsBounded
  <1>1. IInv => AdmissionsBounded
    <2>. SUFFICES ASSUME IInv, NEW k \in Keys
                  PROVE  InWindow(admitted, k) <= Limit(k) + Cardinality(Slots) - 1
      BY DEF AdmissionsBounded
    <2>1. InWindow(admitted, k) \in Nat /\ Limit(k) \in Nat
      BY EventsKnown
    <2>2. Admitted(k) \in SUBSET Slots
      BY DEF Admitted
    <2>3. Cardinality(Admitted(k)) \in Nat /\ Cardinality(Slots) \in Nat
      BY <2>2, FewAdmitted
    <2>4. InWindow(admitted, k) + Cardinality(Admitted(k))
             <= Limit(k) - 1 + Cardinality(Slots)
      BY DEF IInv, AdmissionsSound
    <2>5. QED
      BY <2>1, <2>3, <2>4
  <1>2. QED
    BY <1>1, Invariance, PTL

=============================================================================
