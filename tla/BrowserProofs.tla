---------------------------- MODULE BrowserProofs ----------------------------
(***************************************************************************)
(* Proofs about two components that live in one browser tab and share no   *)
(* state: the Meta connection (MetaSession) and the view of a report       *)
(* (ReportView).                                                           *)
(*                                                                         *)
(* MetaSession, for any number of attempts and pulls, any size of page and *)
(* any cap.  The type is inductive, and so is each of the rest beside it:  *)
(* that a connection is whole, that something is left to end an attempt,   *)
(* and, for pulls under way, that rows that were cut are known to be, or   *)
(* will be with the page that is still linked to.                          *)
(*                                                                         *)
(* ReportView, for any sections, charts, tests and logos.  The state falls *)
(* into three parts that no action mixes: the look with its register and   *)
(* name, the logo with its URLs, and the tests with their briefs.  Each    *)
(* part has an invariant that is inductive by itself.                      *)
(***************************************************************************)
EXTENDS MetaSession, ReportView, TLAPS

(* The Meta connection *)

AttemptRecord == [window : Nat, listening : BOOLEAN, polling : BOOLEAN,
                  timer : BOOLEAN, settled : BOOLEAN, fetching : 0..MaxAttempts]
PullRecord == [at : {"unused", "paging", "pulled", "empty", "failed", "expired"},
               token : 0..MaxAttempts, got : 0..MaxInsightsRows, left : 0..MaxAds,
               next : BOOLEAN, truncated : BOOLEAN]

PopupRecord ==
    {w \in [id : Nat, page : {"dialog", "bridge", "closed"}, login : 0..MaxAttempts] :
        w.page # "closed" => w.login # 0}

LEMMA QuietType == \A a \in AttemptRecord : Quiet(a) \in AttemptRecord
  BY DEF Quiet, AttemptRecord

LEMMA TornDownType ==
  ASSUME TypeOK, NEW n \in 0..MaxAttempts
  PROVE  TornDown(n) \in [Attempts -> AttemptRecord]
<1>1. CASE n = 0
  BY <1>1 DEF TornDown, TypeOK, AttemptRecord
<1>2. CASE n # 0
  <2>1. n \in Attempts
    BY <1>2, MetaConstants DEF Attempts
  <2>2. attempts[n] \in AttemptRecord
    BY <2>1 DEF TypeOK, AttemptRecord
  <2>3. Quiet(attempts[n]) \in AttemptRecord
    BY <2>2, QuietType
  <2>4. attempts \in [Attempts -> AttemptRecord]
    BY DEF TypeOK, AttemptRecord
  <2> QED
    BY <1>2, <2>1, <2>3, <2>4 DEF TornDown
<1> QED
  BY <1>1, <1>2

LEMMA NextPageType ==
  ASSUME TypeOK, NEW p \in Pulls, NextPage(p)
  PROVE  pulls' \in [Pulls -> PullRecord]
<1> DEFINE q == pulls[p]
           page == Least(PageSize, q.left)
           taken == Least(page, MaxInsightsRows - q.got)
<1>1. q \in PullRecord /\ pulls \in [Pulls -> PullRecord]
  BY DEF TypeOK, PullRecord
<1>2. q.got \in 0..MaxInsightsRows /\ q.left \in 0..MaxAds /\ q.got < MaxInsightsRows
  BY <1>1 DEF PullRecord, NextPage
<1>3. page \in 0..q.left /\ taken \in 0..page /\ taken <= MaxInsightsRows - q.got
  BY <1>2, MetaConstants DEF Least
<1>4. q.got + taken \in 0..MaxInsightsRows /\ q.left - taken \in 0..MaxAds
  BY <1>2, <1>3, MetaConstants
<1>5. PICK next \in {q.left > page, q.left > 0} :
        pulls' = [pulls EXCEPT ![p] = [q EXCEPT
            !.got = q.got + taken, !.left = q.left - taken, !.next = next,
            !.truncated = \/ q.truncated
                          \/ taken < page
                          \/ next /\ q.got + taken >= MaxInsightsRows]]
  BY DEF NextPage
<1>6. next \in BOOLEAN
  <2>1. (q.left > page) \in BOOLEAN /\ (q.left > 0) \in BOOLEAN
    OBVIOUS
  <2> HIDE DEF q, page
  <2> QED
    BY <2>1
<1>7. [q EXCEPT !.got = q.got + taken, !.left = q.left - taken, !.next = next,
           !.truncated = \/ q.truncated
                         \/ taken < page
                         \/ next /\ q.got + taken >= MaxInsightsRows] \in PullRecord
  <2> HIDE DEF q, page, taken
  <2> QED
    BY <1>1, <1>4, <1>6 DEF PullRecord
<1> QED
  BY <1>1, <1>5, <1>7

(* The tab, its windows and its pulls are type correct.                    *)
THEOREM TypeCorrect == Spec => []TypeOK
<1>1. Init => TypeOK
  <2> SUFFICES ASSUME Init PROVE TypeOK
    OBVIOUS
  <2>1. Unused \in AttemptRecord
    BY MetaConstants DEF Unused, AttemptRecord
  <2>2. NoPull \in PullRecord
    BY MetaConstants DEF NoPull, PullRecord
  <2>3. attempts \in [Attempts -> AttemptRecord] /\ pulls \in [Pulls -> PullRecord]
    BY <2>1, <2>2 DEF Init
  <2>4. popup \in PopupRecord
    BY MetaConstants DEF Init, PopupRecord
  <2> QED
    BY <2>3, <2>4, MetaConstants DEF Init, TypeOK, AttemptRecord, PullRecord, PopupRecord
<1>2. TypeOK /\ [Next]_vars => TypeOK'
  <2> SUFFICES ASSUME TypeOK, [Next]_vars PROVE TypeOK'
    OBVIOUS
  <2> USE MetaConstants
  <2> /\ attempts \in [Attempts -> AttemptRecord] /\ pulls \in [Pulls -> PullRecord]
      /\ popup \in PopupRecord
    BY DEF TypeOK, AttemptRecord, PullRecord, PopupRecord
  <2>0. TornDown(cleanupRef) \in [Attempts -> AttemptRecord]
    BY TornDownType DEF TypeOK
  <2>1. ASSUME NEW n \in Attempts, Connect(n) PROVE TypeOK'
    <3>0. 0 \in 0..MaxAttempts
      OBVIOUS
    <3>1. /\ [Unused EXCEPT !.settled = TRUE] \in AttemptRecord
          /\ \A w \in Nat : [Unused EXCEPT !.window = w, !.listening = TRUE, !.polling = TRUE]
                               \in AttemptRecord
      BY <3>0 DEF Unused, AttemptRecord
    <3>2. n \in 0..MaxAttempts /\ popup.id \in Nat
      BY DEF Attempts, TypeOK
    <3>3. attempts' \in [Attempts -> AttemptRecord]
      <4>1. (IF popup.page = "closed" THEN popup.id + 1 ELSE popup.id) \in Nat
        BY <3>2
      <4> QED
        BY <2>0, <2>1, <3>1, <4>1 DEF Connect
    <3>4. popup' \in PopupRecord
      BY <2>1, <3>2 DEF Connect, PopupRecord, Attempts
    <3>5. cleanupRef' \in 0..MaxAttempts /\ status' \in {"disconnected", "connecting", "connected"}
      BY <2>1, <3>2 DEF Connect, TypeOK
    <3> QED
      BY <2>1, <3>3, <3>4, <3>5 DEF Connect, TypeOK, AttemptRecord, PopupRecord
  <2>2. ASSUME NEW n \in Attempts, AccountsArrive(n) PROVE TypeOK'
    <3>1. [attempts[n] EXCEPT !.fetching = 0] \in AttemptRecord
          /\ attempts[n].fetching \in 0..MaxAttempts
      BY DEF AttemptRecord
    <3>2. attempts' \in [Attempts -> AttemptRecord]
      BY <2>2, <3>1 DEF AccountsArrive
    <3> QED
      BY <2>2, <3>1, <3>2 DEF AccountsArrive, TypeOK, AttemptRecord
  <2>3. ASSUME NEW n \in Attempts, PollSeesClosed(n) PROVE TypeOK'
    <3>1. [attempts[n] EXCEPT !.polling = FALSE, !.timer = TRUE] \in AttemptRecord
      BY DEF AttemptRecord
    <3>2. attempts' \in [Attempts -> AttemptRecord]
      BY <2>3, <3>1 DEF PollSeesClosed
    <3> QED
      BY <2>3, <3>2 DEF PollSeesClosed, TypeOK, connection, AttemptRecord
  <2>4. ASSUME NEW n \in Attempts, TimerFires(n) PROVE TypeOK'
    <3>1. /\ [attempts[n] EXCEPT !.timer = FALSE] \in AttemptRecord
          /\ [Quiet(attempts[n]) EXCEPT !.timer = FALSE, !.settled = TRUE] \in AttemptRecord
      BY DEF AttemptRecord, Quiet
    <3>2. attempts' \in [Attempts -> AttemptRecord]
      BY <2>4, <3>1 DEF TimerFires
    <3> QED
      BY <2>4, <3>2 DEF TimerFires, TypeOK, AttemptRecord
  <2>5. CASE PopupPosts
    <3>1. popup' \in PopupRecord /\ popup.id \in Nat /\ popup.login \in Attempts
      BY <2>5 DEF PopupPosts, PopupRecord, Attempts
    <3> QED
      BY <2>5, <3>1 DEF PopupPosts, TypeOK, connection, Messages, PopupRecord
  <2>6. CASE PopupCloses
    BY <2>6 DEF PopupCloses, TypeOK, connection
  <2>7. ASSUME NEW m \in mail, Deliver(m) PROVE TypeOK'
    <3>1. m.login \in 0..MaxAttempts /\ (IF m.ok THEN m.login ELSE 0) \in 0..MaxAttempts
      BY DEF TypeOK, Messages, Attempts
    <3>2. \A n \in Attempts, i \in 0..MaxAttempts :
            [Quiet(attempts[n]) EXCEPT !.settled = TRUE, !.fetching = i] \in AttemptRecord
      BY DEF Quiet, AttemptRecord
    <3>3. attempts' \in [Attempts -> AttemptRecord]
      BY <2>7, <3>1, <3>2 DEF Deliver
    <3>4. cleanupRef' \in 0..MaxAttempts /\ status' \in {"disconnected", "connecting", "connected"}
      <4>1. cleanupRef' \in {cleanupRef, 0}
        BY <2>7, Zenon DEF Deliver
      <4>2. status' \in {status, "disconnected"}
        BY <2>7, Zenon DEF Deliver
      <4> QED
        BY <4>1, <4>2 DEF TypeOK
    <3>5. mail' \subseteq Messages
      BY <2>7 DEF Deliver, TypeOK
    <3> QED
      BY <2>7, <3>3, <3>4, <3>5 DEF Deliver, TypeOK, AttemptRecord
  <2>8. ASSUME NEW m \in mail, LoseMessage(m) PROVE TypeOK'
    BY <2>8 DEF LoseMessage, TypeOK, connection
  <2>9. CASE Disconnect
    BY <2>0, <2>9 DEF Disconnect, TypeOK, AttemptRecord
  <2>10. ASSUME NEW p \in Pulls, Pull(p) PROVE TypeOK'
    <3>1. PICK ads \in 0..MaxAds :
            pulls' = [pulls EXCEPT ![p] = [NoPull EXCEPT !.at = "paging", !.token = token,
                                                         !.left = ads, !.next = TRUE]]
      BY <2>10 DEF Pull
    <3>2. [NoPull EXCEPT !.at = "paging", !.token = token, !.left = ads, !.next = TRUE]
            \in PullRecord
      <4>1. token \in 0..MaxAttempts /\ 0 \in 0..MaxInsightsRows
        BY DEF TypeOK
      <4> QED
        BY <4>1 DEF PullRecord, NoPull
    <3>3. pulls' \in [Pulls -> PullRecord]
      BY <3>1, <3>2
    <3> QED
      BY <2>10, <3>3 DEF Pull, TypeOK, connection, PullRecord
  <2>11. ASSUME NEW p \in Pulls, NextPage(p) PROVE TypeOK'
    <3>1. pulls' \in [Pulls -> PullRecord]
      BY <2>11, NextPageType
    <3> QED
      BY <2>11, <3>1 DEF NextPage, TypeOK, connection, PullRecord
  <2>12. ASSUME NEW p \in Pulls, PullAnswers(p) PROVE TypeOK'
    BY <2>12 DEF PullAnswers, TypeOK, connection
  <2>13. ASSUME NEW p \in Pulls, PullFails(p) PROVE TypeOK'
    BY <2>13 DEF PullFails, TypeOK, connection
  <2>14. ASSUME NEW p \in Pulls, Expire(p) PROVE TypeOK'
    BY <2>0, <2>14 DEF Expire, TypeOK, AttemptRecord
  <2>15. CASE UNCHANGED vars
    BY <2>15 DEF vars, TypeOK
  <2> QED
    BY <2>1, <2>2, <2>3, <2>4, <2>5, <2>6, <2>7, <2>8, <2>9, <2>10, <2>11, <2>12, <2>13, <2>14,
       <2>15 DEF Next, PullStep
<1> QED
  BY <1>1, <1>2, PTL DEF Spec

----------------------------------------------------------------------------
(* A tab that says it is connected has a token and the accounts of that    *)
(* token, whatever attempts, answers and expiries overlap.                 *)
THEOREM ConnectionAlwaysWhole == Spec => []ConnectedIsWhole
<1>1. Init => ConnectedIsWhole
  BY DEF Init, ConnectedIsWhole
<1>2. ConnectedIsWhole /\ [Next]_vars => ConnectedIsWhole'
  <2> SUFFICES ASSUME ConnectedIsWhole, [Next]_vars PROVE ConnectedIsWhole'
    OBVIOUS
  <2> USE DEF ConnectedIsWhole
  <2>1. ASSUME NEW n \in Attempts, Connect(n) PROVE ConnectedIsWhole'
    BY <2>1 DEF Connect
  <2>2. ASSUME NEW n \in Attempts, AccountsArrive(n) PROVE ConnectedIsWhole'
    BY <2>2 DEF AccountsArrive
  <2>3. ASSUME NEW n \in Attempts, TimerFires(n) PROVE ConnectedIsWhole'
    BY <2>3 DEF TimerFires
  <2>4. ASSUME NEW m \in mail, Deliver(m) PROVE ConnectedIsWhole'
    BY <2>4 DEF Deliver
  <2>5. CASE Disconnect
    BY <2>5 DEF Disconnect
  <2>6. ASSUME NEW p \in Pulls, Expire(p) PROVE ConnectedIsWhole'
    BY <2>6 DEF Expire
  <2>7. CASE UNCHANGED connection
    BY <2>7 DEF connection
  <2> QED
    BY <2>1, <2>2, <2>3, <2>4, <2>5, <2>6, <2>7
    DEF Next, PullStep, PollSeesClosed, PopupPosts, PopupCloses, LoseMessage, Pull, NextPage,
        PullAnswers, PullFails, vars, connection
<1> QED
  BY <1>1, <1>2, PTL DEF Spec

----------------------------------------------------------------------------
(* While the button says Waiting something is left that ends the attempt:  *)
(* the safety half of WaitingEnds, with any number of attempts.            *)
THEOREM WaitingIsWatched == Spec => []SomeoneWillSettle
<1>1. Init => SomeoneWillSettle
  BY DEF Init, SomeoneWillSettle
<1>2. TypeOK /\ SomeoneWillSettle /\ [Next]_vars => SomeoneWillSettle'
  <2> SUFFICES ASSUME TypeOK, SomeoneWillSettle, [Next]_vars, status' = "connecting"
               PROVE  \E n \in Attempts : Ending(n)'
    BY DEF SomeoneWillSettle
  <2> attempts \in [Attempts -> AttemptRecord]
    BY DEF TypeOK, AttemptRecord
  <2>1. ASSUME NEW n \in Attempts, Connect(n) PROVE Ending(n)'
    <3>1. TornDown(cleanupRef) \in [Attempts -> AttemptRecord]
      BY TornDownType DEF TypeOK
    <3> QED
      BY <2>1, <3>1 DEF Connect, Unused, Ending
  <2>2. ASSUME NEW k \in Attempts, TimerFires(k) PROVE \E n \in Attempts : Ending(n)'
    <3>1. attempts[k].settled /\ status = "connecting"
          /\ attempts' = [attempts EXCEPT ![k].timer = FALSE]
      BY <2>2 DEF TimerFires
    <3>2. PICK n \in Attempts : Ending(n)
      BY <3>1 DEF SomeoneWillSettle
    <3>3. Ending(n)'
      BY <3>1, <3>2 DEF Ending, AttemptRecord
    <3> QED
      BY <3>3
  <2>3. ASSUME NEW k \in Attempts, PollSeesClosed(k) PROVE \E n \in Attempts : Ending(n)'
    <3>1. PICK n \in Attempts : Ending(n)
      BY <2>3 DEF SomeoneWillSettle, PollSeesClosed, connection
    <3>2. Ending(n)'
      BY <2>3, <3>1 DEF Ending, PollSeesClosed, AttemptRecord
    <3> QED
      BY <3>2
  <2>4. ASSUME NEW m \in mail, Deliver(m) PROVE \E n \in Attempts : Ending(n)'
    <3> DEFINE heard == {n \in Attempts : /\ attempts[n].listening
                                          /\ attempts[n].window = m.from
                                          /\ ~attempts[n].settled}
    <3>1. CASE heard = {}
      <4>1. status = "connecting"
        BY <2>4, <3>1 DEF Deliver
      <4>2. PICK n \in Attempts : Ending(n)
        BY <4>1 DEF SomeoneWillSettle
      <4>3. Ending(n)'
        BY <2>4, <3>1, <4>2 DEF Deliver, Ending
      <4> QED
        BY <4>3
    <3>2. CASE heard # {}
      <4>1. PICK n \in Attempts : n \in heard
        BY <3>2
      <4>2. m.ok /\ m.login # 0
        <5>1. m \in Messages
          BY DEF TypeOK
        <5>2. m.login # 0
          BY <5>1, MetaConstants DEF Messages, Attempts
        <5>3. m.ok
          BY <2>4, <3>2 DEF Deliver
        <5> QED
          BY <5>2, <5>3
      <4>3. attempts'[n].fetching = m.login
        BY <2>4, <4>1, <4>2 DEF Deliver, AttemptRecord, Quiet
      <4> QED
        BY <4>2, <4>3 DEF Ending
    <3> QED
      BY <3>1, <3>2
  <2>5. ASSUME NEW n \in Attempts, AccountsArrive(n) PROVE FALSE
    BY <2>5 DEF AccountsArrive
  <2>6. CASE Disconnect
    BY <2>6 DEF Disconnect
  <2>7. ASSUME NEW p \in Pulls, Expire(p) PROVE FALSE
    BY <2>7 DEF Expire
  <2>8. CASE UNCHANGED <<connection, attempts>>
    BY <2>8 DEF connection, SomeoneWillSettle, Ending
  <2> QED
    BY <2>1, <2>2, <2>3, <2>4, <2>5, <2>6, <2>7, <2>8
    DEF Next, PullStep, PopupPosts, PopupCloses, LoseMessage, Pull, NextPage, PullAnswers,
        PullFails, vars, connection
<1> QED
  BY <1>1, <1>2, TypeCorrect, PTL DEF Spec

----------------------------------------------------------------------------
\* Rows that are left are known to be cut, or there is still a page to take.
Accounted(q) ==
    q.at \in {"paging", "pulled", "empty"} =>
        /\ q.left > 0 => q.truncated \/ (q.at = "paging" /\ q.next /\ q.got < MaxInsightsRows)
AllAccounted == \A p \in Pulls : Accounted(pulls[p])

LEMMA NextPageAccounts ==
  ASSUME TypeOK, NEW p \in Pulls, NextPage(p)
  PROVE  Accounted(pulls'[p])
<1> DEFINE q == pulls[p]
           page == Least(PageSize, q.left)
           taken == Least(page, MaxInsightsRows - q.got)
           cut(next) == \/ q.truncated
                        \/ taken < page
                        \/ next /\ q.got + taken >= MaxInsightsRows
<1>1. q \in PullRecord /\ pulls \in [Pulls -> PullRecord]
  BY DEF TypeOK, PullRecord
<1>2. q.got \in 0..MaxInsightsRows /\ q.left \in 0..MaxAds /\ q.at = "paging"
  BY <1>1 DEF PullRecord, NextPage
<1>3. page \in 0..q.left /\ taken \in 0..page
  BY <1>2, MetaConstants DEF Least, NextPage
<1>4. PICK next \in {q.left > page, q.left > 0} :
        pulls' = [pulls EXCEPT ![p] = [q EXCEPT
            !.got = q.got + taken, !.left = q.left - taken, !.next = next, !.truncated = cut(next)]]
  BY DEF NextPage
<1>5. pulls'[p].at = "paging" /\ pulls'[p].got = q.got + taken /\ pulls'[p].left = q.left - taken
  BY <1>1, <1>2, <1>4 DEF PullRecord
<1>6. pulls'[p].next = next /\ pulls'[p].truncated = cut(next)
  BY <1>1, <1>4 DEF PullRecord
<1>7. ASSUME q.left - taken > 0, ~cut(next)
      PROVE  next /\ q.got + taken < MaxInsightsRows
  <2>1. taken = page
    BY <1>3, <1>7
  <2>2. q.left > page /\ q.left > 0
    BY <1>2, <1>3, <1>7, <2>1
  <2>3. next
    BY <2>2
  <2> QED
    BY <1>2, <1>3, <1>7, <2>3, MetaConstants
<1> HIDE DEF q, page, taken, cut
<1> QED
  BY <1>5, <1>6, <1>7 DEF Accounted

(* A pull that does not say it was cut has every ad, wherever in a page    *)
(* the cap falls, for any sizes of account, page and cap.                  *)
THEOREM PullAlwaysSaysCut == Spec => []PullSaysCut
<1>1. Init => AllAccounted
  BY DEF Init, AllAccounted, Accounted, NoPull
<1>2. TypeOK /\ AllAccounted /\ [Next]_vars => AllAccounted'
  <2> SUFFICES ASSUME TypeOK, AllAccounted, [Next]_vars, NEW r \in Pulls
               PROVE  Accounted(pulls'[r])
    BY DEF AllAccounted
  <2> pulls \in [Pulls -> PullRecord] /\ Accounted(pulls[r])
    BY DEF TypeOK, PullRecord, AllAccounted
  <2>1. ASSUME NEW p \in Pulls, Pull(p) PROVE Accounted(pulls'[r])
    BY <2>1, MetaConstants DEF Pull, NoPull, Accounted
  <2>2. ASSUME NEW p \in Pulls, NextPage(p) PROVE Accounted(pulls'[r])
    <3>1. CASE r = p
      BY <2>2, <3>1, NextPageAccounts
    <3>2. CASE r # p
      BY <2>2, <3>2 DEF NextPage
    <3> QED
      BY <3>1, <3>2
  <2>3. ASSUME NEW p \in Pulls, PullAnswers(p) PROVE Accounted(pulls'[r])
    <3>1. pulls[p].got \in Nat /\ MaxInsightsRows \in Nat
      BY MetaConstants DEF PullRecord
    <3> QED
      BY <2>3, <3>1 DEF PullAnswers, Accounted, PullRecord
  <2>4. ASSUME NEW p \in Pulls, PullFails(p) PROVE Accounted(pulls'[r])
    BY <2>4 DEF PullFails, Accounted, PullRecord
  <2>5. ASSUME NEW p \in Pulls, Expire(p) PROVE Accounted(pulls'[r])
    BY <2>5 DEF Expire, Accounted, PullRecord
  <2>6. CASE UNCHANGED pulls
    BY <2>6
  <2> QED
    BY <2>1, <2>2, <2>3, <2>4, <2>5, <2>6
    DEF Next, PullStep, Connect, AccountsArrive, PollSeesClosed, TimerFires, PopupPosts,
        PopupCloses, Deliver, LoseMessage, Disconnect, vars
<1>3. TypeOK /\ AllAccounted => PullSaysCut
  BY DEF TypeOK, AllAccounted, Accounted, PullSaysCut
<1> QED
  BY <1>1, <1>2, <1>3, TypeCorrect, PTL DEF Spec

-----------------------------------------------------------------------------
(* The view of a report *)

LookSound ==
    /\ kind \in {Null, "performance", "competitor"} /\ naming \in BOOLEAN /\ mode \in Modes
    /\ look \in Looks /\ preset \in PresetIds \cup {"custom"}
    /\ signed \in BOOLEAN /\ byHand \in BOOLEAN
    /\ PresetTellsTruth
    /\ UntouchedShowsDefault

LogoSound ==
    /\ made \in 0 .. MaxLogos /\ logo \in (1 .. made) \cup {Null} /\ urls \subseteq 1 .. made
    /\ kind = Null => logo = Null
    /\ LogoUrlsLive

BriefSound == queued \subseteq Tests /\ briefs \subseteq Tests /\ briefs \subseteq queued

ViewInv == LookSound /\ LogoSound /\ BriefSound

-----------------------------------------------------------------------------
(* The presets and defaults are looks.                                     *)
LEMMA PresetLookTyped == \A id \in PresetIds : PresetLook(id) \in Looks
  <1> SUFFICES ASSUME NEW id \in PresetIds PROVE PresetLook(id) \in Looks
    OBVIOUS
  <1>1. CASE id = "buyer"
    BY <1>1 DEF PresetLook, Look, Looks
  <1>2. CASE id = "client"
    BY <1>2 DEF PresetLook, Look, Looks, ClientSections
  <1>3. CASE id = "executive"
    BY <1>3 DEF PresetLook, Look, Looks, ClientSections
  <1>4. CASE id = "print"
    BY <1>4 DEF PresetLook, Look, Looks
  <1>5. QED
    BY <1>1, <1>2, <1>3, <1>4 DEF PresetIds

LEMMA ModeDefaultTyped ==
  ASSUME NEW m \in Modes, NEW named \in BOOLEAN
  PROVE  ModeDefault(m, named) \in Looks
  <1>1. CASE m = "client"
    BY <1>1, PresetLookTyped DEF ModeDefault, PresetIds
  <1>2. CASE m = "internal"
    BY <1>2 DEF ModeDefault, Look, Looks
  <1>3. QED
    BY <1>1, <1>2 DEF Modes

(* No two presets are the same look: their number of ads and their density *)
(* tell them apart.                                                        *)
LEMMA PresetsDiffer ==
  \A id, other \in PresetIds : PresetLook(id) = PresetLook(other) => id = other
  <1> DEFINE Mark(l) == <<l.top, l.density>>
  <1>1. /\ Mark(PresetLook("buyer")) = <<5, "standard">>
        /\ Mark(PresetLook("client")) = <<3, "standard">>
        /\ Mark(PresetLook("executive")) = <<3, "compact">>
        /\ Mark(PresetLook("print")) = <<5, "compact">>
    BY DEF PresetLook, Look
  <1> HIDE DEF Mark
  <1>2. QED
    BY <1>1 DEF PresetIds

(* derivePreset gives a look the name of the preset it is, and no other.   *)
LEMMA DeriveSound ==
  ASSUME NEW l
  PROVE  /\ DerivePreset(l) \in PresetIds \cup {"custom"}
         /\ \A id \in PresetIds : DerivePreset(l) = id <=> l = PresetLook(id)
  <1>1. CASE \E id \in PresetIds : l = PresetLook(id)
    <2>1. PICK id \in PresetIds : l = PresetLook(id)
      BY <1>1
    <2>2. DerivePreset(l) \in PresetIds /\ l = PresetLook(DerivePreset(l))
      BY <1>1 DEF DerivePreset
    <2>3. QED
      BY <2>1, <2>2, PresetsDiffer
  <1>2. CASE ~\E id \in PresetIds : l = PresetLook(id)
    <2>1. DerivePreset(l) = "custom"
      BY <1>2 DEF DerivePreset
    <2>2. "custom" \notin PresetIds
      BY DEF PresetIds
    <2>3. QED
      BY <1>2, <2>1, <2>2
  <1>3. QED
    BY <1>1, <1>2

(* A setter names the look it leaves.                                      *)
LEMMA ShownSound ==
  ASSUME NEW l \in Looks, Shown(l), kind = "performance", UNCHANGED kind
  PROVE  look' \in Looks /\ preset' \in PresetIds \cup {"custom"} /\ PresetTellsTruth'
  BY DeriveSound DEF Shown, PresetTellsTruth

(* A report starts, or starts over, with its own default.                  *)
LEMMA StartSound ==
  ASSUME NEW k \in {"performance", "competitor"}, NEW named \in BOOLEAN, Start(k, named)
  PROVE  /\ mode' = "internal" /\ signed' = FALSE /\ logo' = Null
         /\ look' \in Looks /\ preset' \in PresetIds \cup {"custom"}
         /\ k = "performance" =>
               /\ look' = ModeDefault("internal", named)
               /\ \A id \in PresetIds : preset' = id <=> look' = PresetLook(id)
  <1>1. CASE k = "performance"
    <2>1. look' = ModeDefault("internal", named) /\ preset' = DerivePreset(look')
      BY <1>1 DEF Start
    <2>2. look' \in Looks
      BY <2>1, ModeDefaultTyped DEF Modes
    <2>3. QED
      BY <1>1, <2>1, <2>2, DeriveSound DEF Start
  <1>2. CASE k = "competitor"
    BY <1>2 DEF Start, Look, Looks
  <1>3. QED
    BY <1>1, <1>2

-----------------------------------------------------------------------------
(* A switch of the panel.                                                  *)
LEMMA SetFieldSound == ASSUME LookSound, SetField PROVE LookSound'
  <1>1. \E l \in Looks : Shown(l)
    <2>1. CASE \E s \in Sections :
                 Shown([look EXCEPT !.sections = IF s \in @ THEN @ \ {s} ELSE @ \cup {s}])
      BY <2>1 DEF LookSound, Looks
    <2>2. CASE \E n \in {3, 5} : Shown([look EXCEPT !.top = n])
      BY <2>2 DEF LookSound, Looks
    <2>3. CASE \E d \in {"standard", "compact"} : Shown([look EXCEPT !.density = d])
      BY <2>3 DEF LookSound, Looks
    <2>4. CASE \E c \in Charts :
                 Shown([look EXCEPT !.charts = IF c \in @ THEN @ \ {c} ELSE @ \cup {c}])
      BY <2>4 DEF LookSound, Looks
    <2>5. QED
      BY <2>1, <2>2, <2>3, <2>4 DEF SetField
  <1>2. PICK l \in Looks : Shown(l)
    BY <1>1
  <1>3. look' \in Looks /\ preset' \in PresetIds \cup {"custom"} /\ PresetTellsTruth'
    <2>1. CASE kind = "performance"
      BY <1>2, <2>1, ShownSound DEF SetField
    <2>2. CASE kind # "performance"
      BY <1>2, <2>2 DEF SetField, Shown, PresetTellsTruth
    <2>3. QED
      BY <2>1, <2>2
  <1>4. byHand' = TRUE /\ UNCHANGED <<kind, naming, mode, signed>>
    BY DEF SetField
  <1>5. QED
    BY <1>3, <1>4 DEF LookSound, UntouchedShowsDefault

(* The two tabs.                                                           *)
LEMMA SetModeSound ==
  ASSUME LookSound, NEW m \in Modes, SetMode(m)
  PROVE  LookSound'
  <1>1. kind = "performance" /\ mode' = m /\ UNCHANGED <<kind, naming, signed, byHand>>
    BY DEF SetMode
  <1>2. CASE look = ModeDefault(mode, naming)
    <2>1. ModeDefault(m, naming) \in Looks
      BY ModeDefaultTyped DEF LookSound
    <2>2. Shown(ModeDefault(m, naming))
      BY <1>2 DEF SetMode
    <2>3. look' \in Looks /\ preset' \in PresetIds \cup {"custom"} /\ PresetTellsTruth'
      BY <1>1, <2>1, <2>2, ShownSound
    <2>4. look' = ModeDefault(m, naming)
      BY <2>2 DEF Shown
    <2>5. QED
      BY <1>1, <2>3, <2>4 DEF LookSound, UntouchedShowsDefault
  <1>3. CASE look # ModeDefault(mode, naming)
    <2>1. UNCHANGED <<look, preset>>
      BY <1>3 DEF SetMode
    <2>2. byHand
      BY <1>1, <1>3 DEF LookSound, UntouchedShowsDefault
    <2>3. QED
      BY <1>1, <2>1, <2>2 DEF LookSound, PresetTellsTruth, UntouchedShowsDefault
  <1>4. QED
    BY <1>2, <1>3

(* A preset chosen.                                                        *)
LEMMA SetPresetSound == ASSUME LookSound, SetPreset PROVE LookSound'
  <1>1. PICK id \in PresetIds : look' = PresetLook(id) /\ mode' = PresetMode(id) /\ preset' = id
    BY DEF SetPreset
  <1>2. mode' \in Modes
    BY <1>1 DEF PresetMode, Modes
  <1>3. look' \in Looks
    BY <1>1, PresetLookTyped
  <1>4. PresetTellsTruth'
    BY <1>1, PresetsDiffer DEF PresetTellsTruth
  <1>5. byHand' = TRUE /\ UNCHANGED <<kind, naming, signed>>
    BY DEF SetPreset
  <1>6. QED
    BY <1>1, <1>2, <1>3, <1>4, <1>5 DEF LookSound, UntouchedShowsDefault

(* The mount, and the reset.                                               *)
LEMMA MountSound == ASSUME LookSound, Mount PROVE LookSound'
  <1>1. PICK k \in {"performance", "competitor"}, named \in BOOLEAN :
           kind' = k /\ naming' = named /\ Start(k, named)
    BY DEF Mount
  <1>2. byHand' = FALSE
    BY DEF Mount
  <1>3. QED
    BY <1>1, <1>2, StartSound DEF LookSound, PresetTellsTruth, UntouchedShowsDefault, Modes

LEMMA ResetSound == ASSUME LookSound, Reset PROVE LookSound'
  <1>1. kind \in {"performance", "competitor"} /\ Start(kind, naming)
    BY DEF Reset, LookSound
  <1>2. byHand' = FALSE /\ UNCHANGED <<kind, naming>>
    BY DEF Reset
  <1>3. naming \in BOOLEAN
    BY DEF LookSound
  <1>4. QED
    BY <1>1, <1>2, <1>3, StartSound
       DEF LookSound, PresetTellsTruth, UntouchedShowsDefault, Modes

LEMMA UnmountSound == ASSUME LookSound, Unmount PROVE LookSound'
  <1>1. kind' = Null /\ naming' = FALSE /\ byHand' = FALSE /\ Start("competitor", FALSE)
    BY DEF Unmount
  <1>2. mode' \in Modes /\ look' \in Looks /\ preset' \in PresetIds \cup {"custom"} /\ signed' = FALSE
    BY <1>1, StartSound DEF Modes
  <1>3. kind' # "performance"
    BY <1>1, ViewAssumption
  <1>4. QED
    BY <1>1, <1>2, <1>3 DEF LookSound, PresetTellsTruth, UntouchedShowsDefault
(* Every step keeps the look's part; the steps of the logo, of the tests   *)
(* and of the reader's own words do not touch it.                          *)
LEMMA LookStep == ASSUME LookSound, [ViewNext]_viewVars PROVE LookSound'
  <1>1. CASE SetField
    BY <1>1, SetFieldSound
  <1>2. CASE \E m \in Modes : SetMode(m)
    BY <1>2, SetModeSound
  <1>3. CASE SetPreset
    BY <1>3, SetPresetSound
  <1>4. CASE Mount
    BY <1>4, MountSound
  <1>5. CASE Reset
    BY <1>5, ResetSound
  <1>6. CASE Unmount
    BY <1>6, UnmountSound
  <1>7. CASE \/ Sign \/ PickLogo \/ RemoveLogo \/ GenerateBriefs \/ UNCHANGED viewVars
             \/ \E t \in Tests : ToggleTest(t)
    <2>1. UNCHANGED <<kind, naming, mode, look, preset, byHand>> /\ signed' \in BOOLEAN
      BY <1>7 DEF Sign, PickLogo, RemoveLogo, GenerateBriefs, ToggleTest, viewVars, view, LookSound
    <2>2. QED
      BY <2>1 DEF LookSound, PresetTellsTruth, UntouchedShowsDefault
  <1>8. QED
    BY <1>1, <1>2, <1>3, <1>4, <1>5, <1>6, <1>7 DEF ViewNext

(* Every step keeps the logo's part.                                       *)
LEMMA LogoStep == ASSUME LookSound, LogoSound, [ViewNext]_viewVars PROVE LogoSound'
  <1>1. CASE Mount
    <2>1. logo' = Null /\ made' = 0 /\ urls' = urls /\ urls = {} /\ kind' # Null
      <3>1. PICK k \in {"performance", "competitor"}, named \in BOOLEAN :
               kind' = k /\ Start(k, named)
        BY <1>1 DEF Mount
      <3>2. logo' = Null
        BY <3>1, StartSound
      <3>3. QED
        BY <1>1, <3>1, <3>2, ViewAssumption DEF Mount, LogoSound, LogoUrlsLive
    <2>2. QED
      BY <2>1, ViewAssumption DEF LogoSound, LogoUrlsLive
  <1>2. CASE Unmount
    <2>1. logo' = Null /\ made' = 0 /\ urls' = urls \ {logo} /\ kind' = Null /\ kind # Null
      BY <1>2, StartSound DEF Unmount
    <2>2. urls' = {}
      BY <2>1 DEF LogoSound, LogoUrlsLive
    <2>3. QED
      BY <2>1, <2>2, ViewAssumption DEF LogoSound, LogoUrlsLive
  <1>3. CASE Reset
    <2>1. logo' = Null /\ urls' = urls \ {logo} /\ UNCHANGED <<kind, made>> /\ kind # Null
      <3>1. kind \in {"performance", "competitor"} /\ naming \in BOOLEAN
        BY <1>3 DEF Reset, LookSound
      <3>2. QED
        BY <1>3, <3>1, StartSound DEF Reset
    <2>2. urls' = {}
      BY <2>1 DEF LogoSound, LogoUrlsLive
    <2>3. QED
      BY <2>1, <2>2 DEF LogoSound, LogoUrlsLive
  <1>4. CASE PickLogo
    <2>1. CASE UNCHANGED <<made, logo, urls>>
      BY <1>4, <2>1 DEF PickLogo, LogoSound, LogoUrlsLive
    <2>2. CASE made' = made + 1 /\ logo' = made + 1 /\ urls' = (urls \ {logo}) \cup {made + 1}
      <3>1. urls \ {logo} = {} /\ kind # Null /\ kind' = kind /\ made < MaxLogos
        BY <1>4 DEF PickLogo, LogoSound, LogoUrlsLive
      <3>2. made \in Nat
        BY ViewAssumption DEF LogoSound
      <3>3. made + 1 \in Nat
        BY <3>2
      <3>4. urls' = {made + 1} /\ made + 1 \in Nat /\ made + 1 # Null
        BY <2>2, <3>1, <3>3, ViewAssumption
      <3>5. QED
        BY <2>2, <3>1, <3>2, <3>4, ViewAssumption DEF LogoSound, LogoUrlsLive
    <2>3. QED
      BY <1>4, <2>1, <2>2 DEF PickLogo
  <1>5. CASE RemoveLogo
    <2>1. logo' = Null /\ urls' = urls \ {logo} /\ UNCHANGED <<kind, made>> /\ kind # Null
      BY <1>5 DEF RemoveLogo
    <2>2. urls' = {}
      BY <2>1 DEF LogoSound, LogoUrlsLive
    <2>3. QED
      BY <2>1, <2>2 DEF LogoSound, LogoUrlsLive
  <1>6. CASE \/ SetField \/ SetPreset \/ Sign \/ GenerateBriefs \/ UNCHANGED viewVars
             \/ \E m \in Modes : SetMode(m)
             \/ \E t \in Tests : ToggleTest(t)
    <2>1. UNCHANGED <<kind, logo, urls, made>>
      BY <1>6 DEF SetField, SetPreset, Sign, GenerateBriefs, SetMode, ToggleTest, viewVars
    <2>2. QED
      BY <2>1 DEF LogoSound, LogoUrlsLive
  <1>7. QED
    BY <1>1, <1>2, <1>3, <1>4, <1>5, <1>6 DEF ViewNext

(* Every step keeps the briefs among the tests checked.                    *)
LEMMA BriefStep == ASSUME BriefSound, [ViewNext]_viewVars PROVE BriefSound'
  <1>1. CASE Mount \/ Unmount
    BY <1>1 DEF Mount, Unmount, BriefSound
  <1>2. CASE \E t \in Tests : ToggleTest(t)
    BY <1>2 DEF ToggleTest, BriefSound
  <1>3. CASE GenerateBriefs
    BY <1>3 DEF GenerateBriefs, BriefSound
  <1>4. CASE \/ SetField \/ SetPreset \/ Sign \/ PickLogo \/ RemoveLogo \/ Reset
             \/ UNCHANGED viewVars \/ \E m \in Modes : SetMode(m)
    BY <1>4 DEF SetField, SetPreset, Sign, PickLogo, RemoveLogo, Reset, SetMode, viewVars, BriefSound
  <1>5. QED
    BY <1>1, <1>2, <1>3, <1>4 DEF ViewNext

-----------------------------------------------------------------------------
LEMMA InitSound == ViewInit => ViewInv
  <1> SUFFICES ASSUME ViewInit PROVE ViewInv
    OBVIOUS
  <1>1. look \in Looks
    BY DEF ViewInit, Look, Looks
  <1>2. kind # "performance"
    BY ViewAssumption DEF ViewInit
  <1>3. LookSound
    BY <1>1, <1>2 DEF ViewInit, LookSound, Modes, PresetTellsTruth, UntouchedShowsDefault
  <1>4. LogoSound /\ BriefSound
    BY ViewAssumption DEF ViewInit, LogoSound, LogoUrlsLive, BriefSound
  <1>5. QED
    BY <1>3, <1>4 DEF ViewInv

(* The three parts hold throughout.                                        *)
THEOREM ViewSound == ViewSpec => []ViewInv
  <1>1. ViewInv /\ [ViewNext]_viewVars => ViewInv'
    BY LookStep, LogoStep, BriefStep DEF ViewInv
  <1>2. QED
    BY InitSound, <1>1, PTL DEF ViewSpec

(* Every variable keeps its type.                                          *)
THEOREM ViewTyped == ViewSpec => []ViewTypeOK
  <1>1. ViewInv => ViewTypeOK
    BY DEF ViewInv, LookSound, LogoSound, BriefSound, ViewTypeOK
  <1>2. QED
    BY ViewSound, <1>1, PTL

(* The preset the panel names is the one the report looks like.            *)
THEOREM PresetNamed == ViewSpec => []PresetTellsTruth
  <1>1. ViewInv => PresetTellsTruth
    BY DEF ViewInv, LookSound
  <1>2. QED
    BY ViewSound, <1>1, PTL

(* An untouched report shows its register's default, after any number of   *)
(* changes of the register.                                                *)
THEOREM DefaultKept == ViewSpec => []UntouchedShowsDefault
  <1>1. ViewInv => UntouchedShowsDefault
    BY DEF ViewInv, LookSound
  <1>2. QED
    BY ViewSound, <1>1, PTL

(* Briefs, on screen or copied, are of tests still checked and never the   *)
(* client's.                                                               *)
THEOREM BriefsSelected == ViewSpec => []BriefsOfTheSelection
  <1>1. ViewInv => BriefsOfTheSelection
    BY DEF ViewInv, LookSound, BriefSound, BriefsOfTheSelection, ShownBriefs, CopiedText, BuyerTests
  <1>2. QED
    BY ViewSound, <1>1, PTL

(* No object URL leaks or dies on screen.                                  *)
THEOREM LogoUrls == ViewSpec => []LogoUrlsLive
  <1>1. ViewInv => LogoUrlsLive
    BY DEF ViewInv, LogoSound
  <1>2. QED
    BY ViewSound, <1>1, PTL
=============================================================================
