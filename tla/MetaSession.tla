---------------------------- MODULE MetaSession ----------------------------
(***************************************************************************)
(* The connection to Meta of one browser tab (MetaProvider.tsx), the popup *)
(* the user signs in with (login and callback routes, bridge.ts), and the  *)
(* pulls made with the token (MetaConnect.tsx, the insights route and its  *)
(* paging in modules/meta/graph.ts).                                       *)
(*                                                                         *)
(* Each press of Connect is an attempt, numbered from 1, with a listener   *)
(* for the popup's message, a poll that watches for its being closed, a    *)
(* timer the poll leaves behind, and the call for the ad accounts that     *)
(* follows the message.  cleanupRef remembers the attempt to tear down; an *)
(* attempt that ends clears it, whichever attempt it remembers.  The popup *)
(* has a fixed name, so an attempt made while one is open takes it over.   *)
(* A token is known by the attempt whose sign-in it comes from.            *)
(***************************************************************************)
EXTENDS Naturals

CONSTANTS
    MaxAttempts,     \* attempts in a run of the model
    MaxPulls,        \* pulls in a run of the model
    MaxAds,          \* the most ads an account has
    PageSize,        \* INSIGHTS_PAGE_SIZE
    MaxInsightsRows  \* MAX_INSIGHTS_ROWS

ASSUME MetaConstants ==
    /\ {MaxAttempts, MaxPulls, PageSize, MaxInsightsRows} \subseteq Nat \ {0}
    /\ MaxAds \in Nat

VARIABLES
    status,      \* disconnected, connecting or connected
    token,       \* the token in memory; 0 for none
    accounts,    \* the token whose accounts are listed; 0 for none
    cleanupRef,  \* the attempt that is torn down before the next; 0 for none
    attempts,    \* the attempts, by number
    popup,       \* the last window opened: [id, page, login]
    mail,        \* what windows posted and is not delivered: [from, login, ok]
    pulls        \* the pulls, by number

connection == <<status, token, accounts>>
vars == <<status, token, accounts, cleanupRef, attempts, popup, mail, pulls>>

Attempts == 1..MaxAttempts
Pulls == 1..MaxPulls

Unused == [window |-> 0, listening |-> FALSE, polling |-> FALSE, timer |-> FALSE,
           settled |-> FALSE, fetching |-> 0]
NoPull == [at |-> "unused", token |-> 0, got |-> 0, left |-> 0, next |-> FALSE, truncated |-> FALSE]

Init ==
    /\ status = "disconnected"
    /\ token = 0
    /\ accounts = 0
    /\ cleanupRef = 0
    /\ attempts = [n \in Attempts |-> Unused]
    /\ popup = [id |-> 0, page |-> "closed", login |-> 0]
    /\ mail = {}
    /\ pulls = [p \in Pulls |-> NoPull]

----------------------------------------------------------------------------
(* Connecting *)

\* The listener and the poll of an attempt stop; a timer already set does not.
Quiet(a) == [a EXCEPT !.listening = FALSE, !.polling = FALSE]
TornDown(n) == IF n = 0 THEN attempts ELSE [attempts EXCEPT ![n] = Quiet(@)]
Closed(a) == popup.id # a.window \/ popup.page = "closed"

\* connect: the button is there unless connected, and disabled meanwhile.
\* The popup may be blocked, which tears down all the same.
Connect(n) ==
    /\ status = "disconnected"
    /\ attempts[n] = Unused
    /\ \A m \in Attempts : m < n => attempts[m] # Unused
    /\ \/ /\ attempts' = [TornDown(cleanupRef) EXCEPT ![n] = [Unused EXCEPT !.settled = TRUE]]
          /\ cleanupRef' = 0
          /\ UNCHANGED <<status, popup>>
       \/ LET window == IF popup.page = "closed" THEN popup.id + 1 ELSE popup.id
          IN  /\ popup' = [id |-> window, page |-> "dialog", login |-> n]
              /\ attempts' = [TornDown(cleanupRef) EXCEPT ![n] =
                     [Unused EXCEPT !.window = window, !.listening = TRUE, !.polling = TRUE]]
              /\ cleanupRef' = n
              /\ status' = "connecting"
    /\ UNCHANGED <<token, accounts, mail, pulls>>

\* The bridge page posts how the sign-in ended.
PopupPosts ==
    /\ popup.page = "dialog"
    /\ popup' = [popup EXCEPT !.page = "bridge"]
    /\ \E ok \in BOOLEAN : mail' = mail \cup {[from |-> popup.id, login |-> popup.login, ok |-> ok]}
    /\ UNCHANGED <<connection, cleanupRef, attempts, pulls>>

\* The bridge closes its window a moment later, or the user does at any time.
PopupCloses ==
    /\ popup.page # "closed"
    /\ popup' = [popup EXCEPT !.page = "closed"]
    /\ UNCHANGED <<connection, cleanupRef, attempts, mail, pulls>>

\* onMessage, in every listener that waits for this window; the message is
\* dropped when there is none.
Deliver(m) ==
    LET heard == {n \in Attempts : /\ attempts[n].listening
                                   /\ attempts[n].window = m.from
                                   /\ ~attempts[n].settled}
    IN  /\ m \in mail
        /\ mail' = mail \ {m}
        /\ attempts' = [n \in Attempts |->
               IF n \in heard
               THEN [Quiet(attempts[n]) EXCEPT !.settled = TRUE,
                                               !.fetching = IF m.ok THEN m.login ELSE 0]
               ELSE attempts[n]]
        /\ cleanupRef' = IF heard = {} THEN cleanupRef ELSE 0
        /\ status' = IF heard # {} /\ ~m.ok THEN "disconnected" ELSE status
        /\ UNCHANGED <<token, accounts, popup, pulls>>

\* A message whose window closes too soon may be lost (bridge.ts 33-38).
LoseMessage(m) ==
    /\ m \in mail
    /\ popup.id # m.from \/ popup.page = "closed"
    /\ mail' = mail \ {m}
    /\ UNCHANGED <<connection, cleanupRef, attempts, popup, pulls>>

\* The ad accounts arrive, and are used whatever happened since they were
\* asked for; or they do not, or there are none.
AccountsArrive(n) ==
    /\ attempts[n].fetching # 0
    /\ attempts' = [attempts EXCEPT ![n].fetching = 0]
    /\ \/ /\ token' = attempts[n].fetching
          /\ accounts' = attempts[n].fetching
          /\ status' = "connected"
       \/ status' = "disconnected" /\ UNCHANGED <<token, accounts>>
    /\ UNCHANGED <<cleanupRef, popup, mail, pulls>>

\* closedPoll: a message may still be on its way when the popup is closed.
\* Mutant of PollSeesClosed: nothing is left behind.
PollSeesClosed_noTimer(n) ==
    /\ attempts[n].polling
    /\ Closed(attempts[n])
    /\ attempts' = [attempts EXCEPT ![n].polling = FALSE]
    /\ UNCHANGED <<connection, cleanupRef, popup, mail, pulls>>
PollSeesClosed(n) ==
    /\ attempts[n].polling
    /\ Closed(attempts[n])
    /\ attempts' = [attempts EXCEPT ![n].polling = FALSE, ![n].timer = TRUE]
    /\ UNCHANGED <<connection, cleanupRef, popup, mail, pulls>>

\* finishError, half a second later: nothing when the attempt has settled.
TimerFires(n) ==
    /\ attempts[n].timer
    /\ IF attempts[n].settled
       THEN /\ attempts' = [attempts EXCEPT ![n].timer = FALSE]
            /\ UNCHANGED <<status, cleanupRef>>
       ELSE /\ attempts' = [attempts EXCEPT ![n] = [Quiet(@) EXCEPT !.timer = FALSE, !.settled = TRUE]]
            /\ cleanupRef' = 0
            /\ status' = "disconnected"
    /\ UNCHANGED <<token, accounts, popup, mail, pulls>>

\* disconnect: the button is there when connected.
Disconnect ==
    /\ status = "connected"
    /\ attempts' = TornDown(cleanupRef)
    /\ cleanupRef' = 0
    /\ popup' = [popup EXCEPT !.page = "closed"]
    /\ status' = "disconnected"
    /\ token' = 0
    /\ accounts' = 0
    /\ UNCHANGED <<mail, pulls>>

----------------------------------------------------------------------------
(* Pulling *)

\* pull: with the token and the account of the moment it is pressed.  One at
\* a time while the form is on screen; a form that left and came back forgets
\* the one it had started.
Pull(p) ==
    /\ status = "connected"
    /\ token # 0
    /\ pulls[p] = NoPull
    /\ \A q \in Pulls : q < p => pulls[q] # NoPull
    /\ \E ads \in 0..MaxAds :
           pulls' = [pulls EXCEPT ![p] = [NoPull EXCEPT !.at = "paging", !.token = token,
                                                        !.left = ads, !.next = TRUE]]
    /\ UNCHANGED <<connection, cleanupRef, attempts, popup, mail>>

Least(x, y) == IF x <= y THEN x ELSE y

\* One turn of the loop of fetchAdInsights: the rows of a page are taken until
\* the cap, and a page may link to another that turns out to be empty.
\* Mutant of NextPage: only a link left unfollowed says that rows were cut.
NextPage_linkOnly(p) ==
    LET q == pulls[p]
        page == Least(PageSize, q.left)
        taken == Least(page, MaxInsightsRows - q.got)
    IN  /\ q.at = "paging"
        /\ q.next
        /\ q.got < MaxInsightsRows
        /\ \E next \in {q.left > page, q.left > 0} :
               pulls' = [pulls EXCEPT ![p] = [q EXCEPT
                   !.got = q.got + taken,
                   !.left = q.left - taken,
                   !.next = next,
                   !.truncated = next /\ q.got + taken >= MaxInsightsRows]]
        /\ UNCHANGED <<connection, cleanupRef, attempts, popup, mail>>
NextPage(p) ==
    LET q == pulls[p]
        page == Least(PageSize, q.left)
        taken == Least(page, MaxInsightsRows - q.got)
    IN  /\ q.at = "paging"
        /\ q.next
        /\ q.got < MaxInsightsRows
        /\ \E next \in {q.left > page, q.left > 0} :
               pulls' = [pulls EXCEPT ![p] = [q EXCEPT
                   !.got = q.got + taken,
                   !.left = q.left - taken,
                   !.next = next,
                   !.truncated = \/ q.truncated
                                 \/ taken < page
                                 \/ next /\ q.got + taken >= MaxInsightsRows]]
        /\ UNCHANGED <<connection, cleanupRef, attempts, popup, mail>>

\* The loop is over and the answer arrives: a file, or nothing was delivered.
PullAnswers(p) ==
    /\ pulls[p].at = "paging"
    /\ ~pulls[p].next \/ pulls[p].got >= MaxInsightsRows
    /\ pulls' = [pulls EXCEPT ![p].at = IF pulls[p].got = 0 THEN "empty" ELSE "pulled"]
    /\ UNCHANGED <<connection, cleanupRef, attempts, popup, mail>>

\* Any call of the pull may fail; nothing of the connection is touched.
PullFails(p) ==
    /\ pulls[p].at = "paging"
    /\ pulls' = [pulls EXCEPT ![p].at = "failed"]
    /\ UNCHANGED <<connection, cleanupRef, attempts, popup, mail>>

\* A 401 on a pull is an expire of the connection there is now, whichever
\* token the pull was made with.
\* Mutant of Expire: the status is left to the next render.
Expire_tokenOnly(p) ==
    /\ pulls[p].at = "paging"
    /\ pulls' = [pulls EXCEPT ![p].at = "expired"]
    /\ attempts' = TornDown(cleanupRef)
    /\ cleanupRef' = 0
    /\ token' = 0
    /\ accounts' = 0
    /\ UNCHANGED <<status, popup, mail>>
Expire(p) ==
    /\ pulls[p].at = "paging"
    /\ pulls' = [pulls EXCEPT ![p].at = "expired"]
    /\ attempts' = TornDown(cleanupRef)
    /\ cleanupRef' = 0
    /\ status' = "disconnected"
    /\ token' = 0
    /\ accounts' = 0
    /\ UNCHANGED <<popup, mail>>

----------------------------------------------------------------------------
PullStep(p) == NextPage(p) \/ PullAnswers(p) \/ PullFails(p) \/ Expire(p)

Next ==
    \/ \E n \in Attempts : \/ Connect(n)
                           \/ AccountsArrive(n)
                           \/ PollSeesClosed(n)
                           \/ TimerFires(n)
    \/ PopupPosts
    \/ PopupCloses
    \/ \E m \in mail : Deliver(m) \/ LoseMessage(m)
    \/ Disconnect
    \/ \E p \in Pulls : Pull(p) \/ PullStep(p)

\* Intervals and timers of the tab run, and a call for the accounts ends.
Fairness ==
    \A n \in Attempts : /\ WF_vars(PollSeesClosed(n))
                        /\ WF_vars(TimerFires(n))
                        /\ WF_vars(AccountsArrive(n))

Spec == Init /\ [][Next]_vars /\ Fairness

----------------------------------------------------------------------------
(* Properties *)

Messages == [from : Nat, login : Attempts, ok : BOOLEAN]

(* Every variable has its type; a window that is open is of an attempt. *)
TypeOK ==
    /\ status \in {"disconnected", "connecting", "connected"}
    /\ token \in 0..MaxAttempts
    /\ accounts \in 0..MaxAttempts
    /\ cleanupRef \in 0..MaxAttempts
    /\ attempts \in [Attempts -> [window : Nat, listening : BOOLEAN, polling : BOOLEAN,
                                  timer : BOOLEAN, settled : BOOLEAN, fetching : 0..MaxAttempts]]
    /\ popup \in [id : Nat, page : {"dialog", "bridge", "closed"}, login : 0..MaxAttempts]
    /\ popup.page # "closed" => popup.login # 0
    /\ mail \subseteq Messages
    /\ pulls \in [Pulls -> [at : {"unused", "paging", "pulled", "empty", "failed", "expired"},
                            token : 0..MaxAttempts, got : 0..MaxInsightsRows, left : 0..MaxAds,
                            next : BOOLEAN, truncated : BOOLEAN]]

\* A tab that says it is connected has a token, and the accounts listed are
\* those of that token, in spite of attempts, answers and expiries that
\* overlap (MetaProvider.tsx 64-80, 128-152).
ConnectedIsWhole == status = "connected" => token # 0 /\ accounts = token

\* Something is left to end an attempt: whenever the button says Waiting, a
\* poll or a timer of an attempt that has not settled, or a call for its
\* accounts, is still running (MetaProvider.tsx 98-171).
Ending(n) ==
    \/ ~attempts[n].settled /\ (attempts[n].polling \/ attempts[n].timer)
    \/ attempts[n].fetching # 0
SomeoneWillSettle == status = "connecting" => \E n \in Attempts : Ending(n)

\* A pull that does not say it was capped has every ad, and none has more than
\* the cap (graph.ts 335-366).
PullSaysCut ==
    \A p \in Pulls :
        pulls[p].at \in {"pulled", "empty"} =>
            /\ pulls[p].left > 0 => pulls[p].truncated
            /\ pulls[p].got <= MaxInsightsRows

\* With the popup closed, waiting for the sign-in comes to an end.
WaitingEnds == (status = "connecting" /\ popup.page = "closed") ~> status # "connecting"
=============================================================================
